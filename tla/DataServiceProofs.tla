--------------------------- MODULE DataServiceProofs ---------------------------
(***************************************************************************)
(* What the dispatcher of the tf.data service keeps, for any number of      *)
(* workers, datasets, jobs, clients, crashes and failed writes.             *)
(*                                                                         *)
(* The invariants of a dispatcher state take it as an argument: they hold   *)
(* of state_, of the records it has had since the start (acked) and of what *)
(* a replay of the journal gives.                                           *)
(***************************************************************************)
EXTENDS DataService, FiniteSetTheorems, SequenceTheorems, TLAPS

(* The maps of the class, from keys K to values V.                         *)
Map(K, V) == UNION {[D -> V] : D \in SUBSET K}

Modes == {r.mode : r \in JobRequests}
Keys == {r.key : r \in JobRequests}
Job == [dataset_id : Nat, processing_mode : Modes, named_job_key : Keys, repetition : Nat,
        index : Nat, num_clients : Nat, released : BOOLEAN, finished : BOOLEAN,
        garbage_collected : BOOLEAN]
Task == [job_id : Nat, worker_address : Workers, finished : BOOLEAN]
State ==
    [datasets_by_id : Map(Nat, Fingerprints), jobs : Map(Nat, Job), tasks : Map(Nat, Task),
     tasks_by_worker : Map(Workers, SUBSET Nat), tasks_by_job : Map(Nat, SUBSET Nat),
     jobs_for_client_ids : Map(Nat, Nat),
     next_available_dataset_id : Nat, next_available_job_id : Nat,
     next_available_job_client_id : Nat, next_available_task_id : Nat]

(* No id has been used that is still available.                            *)
IdsInv(s) ==
    /\ \A d \in DOMAIN s.datasets_by_id : d < s.next_available_dataset_id
    /\ \A j \in DOMAIN s.jobs : j < s.next_available_job_id
    /\ \A c \in DOMAIN s.jobs_for_client_ids : c < s.next_available_job_client_id
    /\ \A t \in DOMAIN s.tasks : t < s.next_available_task_id

ClientsOf(s, j) == {c \in DOMAIN s.jobs_for_client_ids : s.jobs_for_client_ids[c] = j}

(* Clients belong to jobs, which count them.                               *)
ClientsInv(s) ==
    /\ IsFiniteSet(DOMAIN s.jobs_for_client_ids)
    /\ \A c \in DOMAIN s.jobs_for_client_ids : s.jobs_for_client_ids[c] \in DOMAIN s.jobs
    /\ \A j \in DOMAIN s.jobs : s.jobs[j].num_clients = Cardinality(ClientsOf(s, j))

(* The indices of the tasks: by job all of them, by worker at least those  *)
(* that are not finished.                                                  *)
TasksInv(s) ==
    /\ \A t \in DOMAIN s.tasks :
          /\ s.tasks[t].job_id \in DOMAIN s.jobs
          /\ s.tasks[t].worker_address \in DOMAIN s.tasks_by_worker
          /\ s.tasks[t].finished \/ t \in s.tasks_by_worker[s.tasks[t].worker_address]
    /\ \A w \in DOMAIN s.tasks_by_worker : \A t \in s.tasks_by_worker[w] :
          t \in DOMAIN s.tasks /\ s.tasks[t].worker_address = w
    /\ DOMAIN s.tasks_by_job = DOMAIN s.jobs
    /\ \A j \in DOMAIN s.tasks_by_job : s.tasks_by_job[j] \subseteq DOMAIN s.tasks

StateInv(s) == s \in State /\ IdsInv(s) /\ ClientsInv(s) /\ TasksInv(s)

(* Two states that differ in what garbage collection changes only.         *)
Agree(a, b) ==
    /\ a.datasets_by_id = b.datasets_by_id
    /\ DOMAIN a.tasks_by_worker = DOMAIN b.tasks_by_worker
    /\ a.jobs_for_client_ids = b.jobs_for_client_ids
    /\ a.next_available_dataset_id = b.next_available_dataset_id
    /\ a.next_available_job_id = b.next_available_job_id
    /\ a.next_available_job_client_id = b.next_available_job_client_id
    /\ a.next_available_task_id = b.next_available_task_id
    /\ DOMAIN a.jobs = DOMAIN b.jobs
    /\ \A j \in DOMAIN a.jobs : /\ a.jobs[j].processing_mode = b.jobs[j].processing_mode
                                /\ a.jobs[j].named_job_key = b.jobs[j].named_job_key
                                /\ a.jobs[j].repetition = b.jobs[j].repetition
                                /\ a.jobs[j].num_clients = b.jobs[j].num_clients
    /\ DOMAIN a.tasks = DOMAIN b.tasks
    /\ \A t \in DOMAIN a.tasks : /\ a.tasks[t].job_id = b.tasks[t].job_id
                                 /\ a.tasks[t].worker_address = b.tasks[t].worker_address

-----------------------------------------------------------------------------
(* The updates that a handler has still to apply.                          *)
Update ==
    [type : {"register_dataset"}, fingerprint : Fingerprints, dataset_id : Nat]
    \cup [type : {"register_worker"}, worker_address : Workers]
    \cup [type : {"create_job"}, job_id : Nat, dataset_id : Nat, processing_mode : Modes,
          named_job_key : Keys]
    \cup [type : {"produce_split"}, job_id : Nat, finished : BOOLEAN, repetition : Nat]
    \cup [type : {"acquire_job_client"}, job_id : Nat, job_client_id : Nat]
    \cup [type : {"release_job_client"}, job_client_id : Nat]
    \cup [type : {"create_task"}, task_id : Nat, job_id : Nat, worker_address : Workers]
    \cup [type : {"finish_task"}, task_id : Nat]

(* What the i-th of the updates q needs from the state s and the first     *)
(* update.  Only the last three types come later than first.               *)
UpdateOK(s, q, i) ==
    /\ q[i].type \in {"acquire_job_client", "create_task", "finish_task"} \/ i = 1
    /\ q[i].type = "acquire_job_client" =>
          /\ q[i].job_client_id >= s.next_available_job_client_id
          /\ i = 1 \/ (i = 2 /\ q[1].type = "create_job")
    /\ q[i].type \in {"acquire_job_client", "create_task"} =>
          \/ q[i].job_id \in DOMAIN s.jobs
          \/ i > 1 /\ q[1].type = "create_job" /\ q[1].job_id = q[i].job_id
    /\ q[i].type = "create_task" =>
          /\ q[i].task_id >= s.next_available_task_id
          /\ \/ q[i].worker_address \in DOMAIN s.tasks_by_worker
             \/ i > 1 /\ q[1].type = "register_worker" /\ q[1].worker_address = q[i].worker_address
          /\ \A k \in 1 .. i - 1 : q[k].type = "create_task" => q[k].task_id < q[i].task_id
    /\ q[i].type = "finish_task" => q[i].task_id \in DOMAIN s.tasks
    /\ q[i].type = "produce_split" => q[i].job_id \in DOMAIN s.jobs
    /\ q[i].type = "create_job" => q[i].job_id = s.next_available_job_id

TodoInv(s, q) ==
    /\ q \in Seq(Update)
    /\ q # <<>> => Checks(s, Head(q))
    /\ \A i \in 1 .. Len(q) : UpdateOK(s, q, i)

(* A split that is being given: the repetition that was asked for is the   *)
(* current one, and is over once its end is recorded.                      *)
SplitInv(s, o) ==
    /\ o.task \in DOMAIN s.tasks /\ o.job = s.tasks[o.task].job_id
    /\ o.worker \in Workers /\ o.repetition \in Nat
    /\ o.todo = <<>> \/ o.todo = <<[type |-> "produce_split", job_id |-> o.job,
                                    finished |-> o.end, repetition |-> o.repetition]>>
    /\ o.todo = <<>> /\ o.end => o.repetition < s.jobs[o.job].repetition

HandlerInv(s, o) ==
    /\ {"handler", "todo"} \subseteq DOMAIN o
    /\ o.handler = "create_job" =>
          \/ o.todo # <<>> /\ Head(o.todo).type = "create_job"
          \/ s.next_available_job_id - 1 \in DOMAIN s.jobs
    /\ o.handler = "worker_heartbeat" =>
          /\ "worker" \in DOMAIN o /\ o.worker \in Workers
          /\ \/ o.worker \in DOMAIN s.tasks_by_worker
             \/ /\ o.todo # <<>> /\ Head(o.todo).type = "register_worker"
                /\ Head(o.todo).worker_address = o.worker
    /\ o.handler = "worker_update" => {"worker", "completed"} \subseteq DOMAIN o /\ o.worker \in Workers
    /\ o.handler = "get_split" =>
          /\ {"worker", "task", "job", "repetition", "split", "end", "stale"} \subseteq DOMAIN o
          /\ SplitInv(s, o)

StoreInv(s, store, q) ==
    /\ \A d \in DOMAIN s.datasets_by_id : <<d, s.datasets_by_id[d]>> \in store
    /\ q # <<>> /\ Head(q).type = "register_dataset"
          => <<Head(q).dataset_id, Head(q).fingerprint>> \in store

DispatcherInv ==
    /\ started_ \in BOOLEAN
    /\ StateInv(state_) /\ StateInv(acked)
    /\ TodoInv(state_, op.todo) /\ HandlerInv(state_, op)
    /\ StoreInv(acked, dataset_store_, op.todo)
    /\ started_ => Agree(state_, acked) /\ ("gc" \notin faults => state_ = acked)
    /\ ~started_ => op = Idle /\ assigning = {}
    /\ \A T \in assigning : T \subseteq DOMAIN state_.tasks

-----------------------------------------------------------------------------
Worker == [tasks : SUBSET Nat, repetition : Map(Nat, Nat), parallel : SUBSET Nat,
           ended : SUBSET Nat, pending_completed : SUBSET Nat,
           heartbeat : {Idle} \cup [current : SUBSET Nat]]

(* What worker a, at address w, knows of its tasks, which the records s    *)
(* have all: it is never ahead of the repetition of a job.                 *)
WorkerOK(s, w, a) ==
    /\ a \in Worker
    /\ a.tasks \subseteq DOMAIN a.repetition
    /\ \A t \in DOMAIN a.repetition :
          /\ t \in DOMAIN s.tasks /\ s.tasks[t].worker_address = w
          /\ a.repetition[t] <= s.jobs[s.tasks[t].job_id].repetition
    /\ a.heartbeat # Idle => a.heartbeat.current \subseteq DOMAIN a.repetition

WorkersInv ==
    /\ worker \in [Workers -> Worker]
    /\ \A w \in Workers : WorkerOK(acked, w, worker[w])

ServiceInv == DispatcherInv /\ WorkersInv /\ NoTaskDropped

(* The state r has what s has, and has not left a task of s unfinished.    *)
Covers(s, r) ==
    /\ Within(s, r)
    /\ \A t \in DOMAIN s.tasks : s.tasks[t].finished => r.tasks[t].finished

(* The journal has all the records that state_ had, and no other unless a  *)
(* failed write left one; then a replay may also fail.                     *)
JournalInv ==
    /\ readable \in BOOLEAN /\ StateInv(journal)
    /\ \A d \in DOMAIN journal.datasets_by_id : <<d, journal.datasets_by_id[d]>> \in dataset_store_
    /\ readable => Covers(acked, journal)
    /\ "kept" \notin faults => readable /\ journal = acked
    /\ readable /\ ~started_ => journal = acked
    /\ "kept" \in faults => "write" \in faults

-----------------------------------------------------------------------------
(* Maps.                                                                   *)

LEMMA MapIs ==
    ASSUME NEW K, NEW V, NEW m \in Map(K, V)
    PROVE  DOMAIN m \subseteq K /\ m \in [DOMAIN m -> V] /\ \A k \in DOMAIN m : m[k] \in V
  <1>1. PICK D \in SUBSET K : m \in [D -> V]
    BY DEF Map
  <1> QED BY <1>1

LEMMA MapMake ==
    ASSUME NEW K, NEW V, NEW D \in SUBSET K, NEW m \in [D -> V]
    PROVE  m \in Map(K, V) /\ DOMAIN m = D
  BY DEF Map

LEMMA EmptyMap == ASSUME NEW K, NEW V PROVE <<>> \in Map(K, V) /\ DOMAIN <<>> = {}
  <1>1. <<>> \in Seq(V) /\ Len(<<>>) = 0
    BY EmptySeq
  <1>2. DOMAIN <<>> = 1 .. 0 /\ <<>> \in [1 .. 0 -> V]
    BY <1>1, LenProperties
  <1>3. 1 .. 0 = {}
    OBVIOUS
  <1> QED BY <1>2, <1>3, MapMake

LEMMA PutIs ==
    ASSUME NEW K, NEW V, NEW m \in Map(K, V), NEW key \in K, NEW value \in V
    PROVE  /\ Put(m, key, value) \in Map(K, V)
           /\ DOMAIN Put(m, key, value) = DOMAIN m \cup {key}
           /\ Put(m, key, value)[key] = value
           /\ \A k \in DOMAIN m \ {key} : Put(m, key, value)[k] = m[k]
  <1>1. DOMAIN m \cup {key} \in SUBSET K /\ \A k \in DOMAIN m : m[k] \in V
    BY MapIs
  <1>2. Put(m, key, value) \in [DOMAIN m \cup {key} -> V]
    BY <1>1 DEF Put
  <1>3. Put(m, key, value) \in Map(K, V) /\ DOMAIN Put(m, key, value) = DOMAIN m \cup {key}
    BY <1>1, <1>2, MapMake
  <1> QED BY <1>3 DEF Put

LEMMA EraseIs ==
    ASSUME NEW K, NEW V, NEW m \in Map(K, V), NEW key
    PROVE  /\ Erase(m, key) \in Map(K, V)
           /\ DOMAIN Erase(m, key) = DOMAIN m \ {key}
           /\ \A k \in DOMAIN m \ {key} : Erase(m, key)[k] = m[k]
  <1>1. DOMAIN m \ {key} \in SUBSET K /\ \A k \in DOMAIN m : m[k] \in V
    BY MapIs
  <1>2. Erase(m, key) \in [DOMAIN m \ {key} -> V]
    BY <1>1 DEF Erase
  <1>3. Erase(m, key) \in Map(K, V) /\ DOMAIN Erase(m, key) = DOMAIN m \ {key}
    BY <1>1, <1>2, MapMake
  <1> QED BY <1>3 DEF Erase

LEMMA ChangeIs ==
    ASSUME NEW K, NEW V, NEW m \in Map(K, V), NEW key \in DOMAIN m, NEW value \in V
    PROVE  /\ [m EXCEPT ![key] = value] \in Map(K, V)
           /\ DOMAIN [m EXCEPT ![key] = value] = DOMAIN m
           /\ [m EXCEPT ![key] = value][key] = value
           /\ \A k \in DOMAIN m \ {key} : [m EXCEPT ![key] = value][k] = m[k]
  <1>1. DOMAIN m \in SUBSET K /\ m \in [DOMAIN m -> V]
    BY MapIs
  <1>2. [m EXCEPT ![key] = value] \in [DOMAIN m -> V]
    BY <1>1
  <1> QED BY <1>1, <1>2, MapMake

LEMMA BeyondIs ==
    ASSUME NEW n \in Nat, NEW id \in Nat
    PROVE  /\ Beyond(n, id) \in Nat /\ Beyond(n, id) >= n /\ Beyond(n, id) > id
           /\ Beyond(n, id) = n \/ Beyond(n, id) = id + 1
  BY DEF Beyond, Max

LEMMA BeyondAll ==
    ASSUME NEW D, D \subseteq Nat, NEW n \in Nat, NEW id \in Nat, \A d \in D : d < n
    PROVE  \A d \in D \cup {id} : d < Beyond(n, id)
  <1>1. PICK b \in Nat : b = Beyond(n, id) /\ b >= n /\ b > id
    BY BeyondIs
  <1> QED BY <1>1

-----------------------------------------------------------------------------
(* What the updates do to the fields of a state.                           *)

LEMMA Fields ==
    ASSUME NEW s \in State
    PROVE  /\ s.datasets_by_id \in Map(Nat, Fingerprints) /\ s.jobs \in Map(Nat, Job)
           /\ s.tasks \in Map(Nat, Task) /\ s.tasks_by_worker \in Map(Workers, SUBSET Nat)
           /\ s.tasks_by_job \in Map(Nat, SUBSET Nat) /\ s.jobs_for_client_ids \in Map(Nat, Nat)
           /\ s.next_available_dataset_id \in Nat /\ s.next_available_job_id \in Nat
           /\ s.next_available_job_client_id \in Nat /\ s.next_available_task_id \in Nat
  BY DEF State

SameData(r, s) == r.datasets_by_id = s.datasets_by_id
                  /\ r.next_available_dataset_id = s.next_available_dataset_id
SameJobs(r, s) == r.jobs = s.jobs /\ r.next_available_job_id = s.next_available_job_id
SameClients(r, s) == r.jobs_for_client_ids = s.jobs_for_client_ids
                     /\ r.next_available_job_client_id = s.next_available_job_client_id
SameTasks(r, s) == /\ r.tasks = s.tasks /\ r.tasks_by_job = s.tasks_by_job
                   /\ r.tasks_by_worker = s.tasks_by_worker
                   /\ r.next_available_task_id = s.next_available_task_id

LEMMA RegisterDatasetIs ==
    ASSUME NEW s \in State, NEW u, u.dataset_id \in Nat, u.fingerprint \in Fingerprints,
           NEW r, r = RegisterDataset(s, u)
    PROVE  /\ r \in State /\ SameJobs(r, s) /\ SameClients(r, s) /\ SameTasks(r, s)
           /\ r.datasets_by_id = Put(s.datasets_by_id, u.dataset_id, u.fingerprint)
           /\ r.next_available_dataset_id = Beyond(s.next_available_dataset_id, u.dataset_id)
  <1>1. PICK m \in Map(Nat, Fingerprints) : m = Put(s.datasets_by_id, u.dataset_id, u.fingerprint)
    BY Fields, PutIs
  <1>2. PICK n \in Nat : n = Beyond(s.next_available_dataset_id, u.dataset_id)
    BY Fields, BeyondIs
  <1>3. r = [s EXCEPT !.datasets_by_id = m, !.next_available_dataset_id = n]
    BY <1>1, <1>2 DEF RegisterDataset
  <1>4. r \in State /\ r.datasets_by_id = m /\ r.next_available_dataset_id = n
    BY <1>3 DEF State
  <1>5. SameJobs(r, s) /\ SameClients(r, s) /\ SameTasks(r, s)
    BY <1>3 DEF State, SameJobs, SameClients, SameTasks
  <1> QED BY <1>1, <1>2, <1>4, <1>5

LEMMA RegisterWorkerIs ==
    ASSUME NEW s \in State, NEW u, u.worker_address \in Workers, NEW r, r = RegisterWorker(s, u)
    PROVE  /\ r \in State /\ SameData(r, s) /\ SameJobs(r, s) /\ SameClients(r, s)
           /\ r.tasks = s.tasks /\ r.tasks_by_job = s.tasks_by_job
           /\ r.next_available_task_id = s.next_available_task_id
           /\ r.tasks_by_worker = Put(s.tasks_by_worker, u.worker_address, {})
  <1>1. PICK m \in Map(Workers, SUBSET Nat) : m = Put(s.tasks_by_worker, u.worker_address, {})
    BY Fields, PutIs
  <1>2. r = [s EXCEPT !.tasks_by_worker = m]
    BY <1>1 DEF RegisterWorker
  <1>3. /\ r \in State /\ r.tasks = s.tasks /\ r.tasks_by_job = s.tasks_by_job
        /\ r.next_available_task_id = s.next_available_task_id /\ r.tasks_by_worker = m
    BY <1>2 DEF State
  <1>4. SameData(r, s) /\ SameJobs(r, s) /\ SameClients(r, s)
    BY <1>2 DEF State, SameData, SameJobs, SameClients
  <1> QED BY <1>1, <1>3, <1>4

LEMMA CreateJobIs ==
    ASSUME NEW s \in State, NEW u, u.job_id \in Nat, u.dataset_id \in Nat,
           u.processing_mode \in Modes, u.named_job_key \in Keys, NEW r, r = CreateJob(s, u)
    PROVE  \E job \in Job :
           /\ job.processing_mode = u.processing_mode /\ job.named_job_key = u.named_job_key
           /\ job.repetition = 0 /\ job.index = 0 /\ job.num_clients = 0 /\ ~job.finished
           /\ r \in State /\ SameData(r, s) /\ SameClients(r, s)
           /\ r.tasks = s.tasks /\ r.tasks_by_worker = s.tasks_by_worker
           /\ r.next_available_task_id = s.next_available_task_id
           /\ r.jobs = Put(s.jobs, u.job_id, job)
           /\ r.tasks_by_job = Put(s.tasks_by_job, u.job_id, {})
           /\ r.next_available_job_id = Beyond(s.next_available_job_id, u.job_id)
  <1>1. PICK job : job = [dataset_id |-> u.dataset_id, processing_mode |-> u.processing_mode,
                          named_job_key |-> u.named_job_key, repetition |-> 0, index |-> 0,
                          num_clients |-> 0, released |-> FALSE,
                          finished |-> FALSE, garbage_collected |-> FALSE]
    OBVIOUS
  <1>2. /\ job \in Job /\ job.processing_mode = u.processing_mode
        /\ job.named_job_key = u.named_job_key /\ job.repetition = 0 /\ job.num_clients = 0
        /\ job.index = 0 /\ ~job.finished
    BY <1>1 DEF Job
  <1>3. PICK m \in Map(Nat, Job) : m = Put(s.jobs, u.job_id, job)
    BY <1>2, Fields, PutIs
  <1>4. PICK b \in Map(Nat, SUBSET Nat) : b = Put(s.tasks_by_job, u.job_id, {})
    BY Fields, PutIs
  <1>5. PICK n \in Nat : n = Beyond(s.next_available_job_id, u.job_id)
    BY Fields, BeyondIs
  <1>6. r = [s EXCEPT !.jobs = m, !.tasks_by_job = b, !.next_available_job_id = n]
    BY <1>1, <1>3, <1>4, <1>5 DEF CreateJob
  <1>7. /\ r \in State /\ r.tasks = s.tasks /\ r.tasks_by_worker = s.tasks_by_worker
        /\ r.next_available_task_id = s.next_available_task_id
        /\ r.jobs = m /\ r.tasks_by_job = b /\ r.next_available_job_id = n
    BY <1>6 DEF State
  <1>8. SameData(r, s) /\ SameClients(r, s)
    BY <1>6 DEF State, SameData, SameClients
  <1> QED BY <1>2, <1>3, <1>4, <1>5, <1>7, <1>8

SplitProduced(r, s, u, job) ==
    /\ job.processing_mode = s.jobs[u.job_id].processing_mode
    /\ job.named_job_key = s.jobs[u.job_id].named_job_key
    /\ job.num_clients = s.jobs[u.job_id].num_clients
    /\ job.repetition = IF u.finished THEN s.jobs[u.job_id].repetition + 1
                        ELSE s.jobs[u.job_id].repetition
    /\ job.index = IF u.finished THEN 0 ELSE s.jobs[u.job_id].index + 1
    /\ job.finished = s.jobs[u.job_id].finished
    /\ r \in State /\ SameData(r, s) /\ SameClients(r, s) /\ SameTasks(r, s)
    /\ r.jobs = [s.jobs EXCEPT ![u.job_id] = job]
    /\ r.next_available_job_id = s.next_available_job_id

LEMMA ProduceSplitIs ==
    ASSUME NEW s \in State, NEW u, u.job_id \in DOMAIN s.jobs, u.finished \in BOOLEAN,
           NEW r, r = ProduceSplit(s, u)
    PROVE  \E job \in Job : SplitProduced(r, s, u, job)
  <1>1. PICK old \in Job : old = s.jobs[u.job_id]
    BY Fields, MapIs
  <1>2. PICK job : job = IF u.finished THEN [old EXCEPT !.repetition = @ + 1, !.index = 0]
                         ELSE [old EXCEPT !.index = @ + 1]
    OBVIOUS
  <1>3. /\ job \in Job /\ job.processing_mode = old.processing_mode
        /\ job.named_job_key = old.named_job_key /\ job.num_clients = old.num_clients
        /\ job.repetition = IF u.finished THEN old.repetition + 1 ELSE old.repetition
        /\ job.index = IF u.finished THEN 0 ELSE old.index + 1
        /\ job.finished = old.finished
    <2>1. CASE u.finished
      <3>1. job = [old EXCEPT !.repetition = @ + 1, !.index = 0]
        BY <1>2, <2>1
      <3>2. PICK n \in Nat : n = old.repetition + 1
        BY DEF Job
      <3>3. job = [old EXCEPT !.repetition = n, !.index = 0]
        BY <3>1, <3>2
      <3>4. /\ job \in Job /\ job.processing_mode = old.processing_mode
            /\ job.named_job_key = old.named_job_key /\ job.num_clients = old.num_clients
            /\ job.repetition = n /\ job.index = 0 /\ job.finished = old.finished
        BY <3>3 DEF Job
      <3> QED BY <2>1, <3>2, <3>4
    <2>2. CASE ~u.finished
      BY <1>2, <2>2 DEF Job
    <2> QED BY <2>1, <2>2
  <1>4. PICK m \in Map(Nat, Job) : m = [s.jobs EXCEPT ![u.job_id] = job]
    BY <1>3, Fields, ChangeIs
  <1>5. r = [s EXCEPT !.jobs = m]
    BY <1>1, <1>2, <1>4 DEF ProduceSplit, State
  <1>6. r \in State /\ r.jobs = m /\ r.next_available_job_id = s.next_available_job_id
    BY <1>5 DEF State
  <1>7. SameData(r, s) /\ SameClients(r, s) /\ SameTasks(r, s)
    BY <1>5 DEF State, SameData, SameClients, SameTasks
  <1> QED BY <1>1, <1>3, <1>4, <1>6, <1>7 DEF SplitProduced

ClientAcquired(r, s, u, job) ==
    /\ job.processing_mode = s.jobs[u.job_id].processing_mode
    /\ job.named_job_key = s.jobs[u.job_id].named_job_key
    /\ job.repetition = s.jobs[u.job_id].repetition
    /\ job.num_clients = s.jobs[u.job_id].num_clients + 1
    /\ job.index = s.jobs[u.job_id].index /\ job.finished = s.jobs[u.job_id].finished
    /\ r \in State /\ SameData(r, s) /\ SameTasks(r, s)
    /\ r.jobs = [s.jobs EXCEPT ![u.job_id] = job]
    /\ r.next_available_job_id = s.next_available_job_id
    /\ r.jobs_for_client_ids = Put(s.jobs_for_client_ids, u.job_client_id, u.job_id)
    /\ r.next_available_job_client_id = Beyond(s.next_available_job_client_id, u.job_client_id)

LEMMA AcquireJobClientIs ==
    ASSUME NEW s \in State, NEW u, u.job_id \in DOMAIN s.jobs, u.job_client_id \in Nat,
           NEW r, r = AcquireJobClient(s, u)
    PROVE  \E job \in Job : ClientAcquired(r, s, u, job)
  <1>1. PICK old \in Job : old = s.jobs[u.job_id]
    BY Fields, MapIs
  <1>2. PICK job : job = [old EXCEPT !.num_clients = @ + 1]
    OBVIOUS
  <1>3. /\ job \in Job /\ job.processing_mode = old.processing_mode
        /\ job.named_job_key = old.named_job_key /\ job.num_clients = old.num_clients + 1
        /\ job.repetition = old.repetition /\ job.index = old.index /\ job.finished = old.finished
    BY <1>2 DEF Job
  <1>4. PICK m \in Map(Nat, Job) : m = [s.jobs EXCEPT ![u.job_id] = job]
    BY <1>3, Fields, ChangeIs
  <1>5. u.job_id \in Nat
    BY Fields, MapIs
  <1>6. PICK c \in Map(Nat, Nat) : c = Put(s.jobs_for_client_ids, u.job_client_id, u.job_id)
    BY <1>5, Fields, PutIs
  <1>7. PICK n \in Nat : n = Beyond(s.next_available_job_client_id, u.job_client_id)
    BY Fields, BeyondIs
  <1>8. r = [s EXCEPT !.jobs_for_client_ids = c, !.jobs = m, !.next_available_job_client_id = n]
    BY <1>1, <1>2, <1>4, <1>6, <1>7 DEF AcquireJobClient, State
  <1>9. /\ r \in State /\ r.jobs = m /\ r.next_available_job_id = s.next_available_job_id
        /\ r.jobs_for_client_ids = c /\ r.next_available_job_client_id = n
    BY <1>8 DEF State
  <1>10. SameData(r, s) /\ SameTasks(r, s)
    BY <1>8 DEF State, SameData, SameTasks
  <1>11. ClientAcquired(r, s, u, job)
    BY <1>1, <1>3, <1>4, <1>6, <1>7, <1>9, <1>10 DEF ClientAcquired
  <1> QED BY <1>3, <1>11

ClientReleased(r, s, u, j, job) ==
    /\ job.processing_mode = s.jobs[j].processing_mode
    /\ job.named_job_key = s.jobs[j].named_job_key
    /\ job.repetition = s.jobs[j].repetition
    /\ job.num_clients = s.jobs[j].num_clients - 1
    /\ job.index = s.jobs[j].index /\ job.finished = s.jobs[j].finished
    /\ r \in State /\ SameData(r, s) /\ SameTasks(r, s)
    /\ r.jobs = [s.jobs EXCEPT ![j] = job]
    /\ r.next_available_job_id = s.next_available_job_id
    /\ r.jobs_for_client_ids = Erase(s.jobs_for_client_ids, u.job_client_id)
    /\ r.next_available_job_client_id = s.next_available_job_client_id

LEMMA ReleaseJobClientIs ==
    ASSUME NEW s \in State, NEW u, NEW j \in DOMAIN s.jobs, u.job_client_id \in DOMAIN s.jobs_for_client_ids,
           j = s.jobs_for_client_ids[u.job_client_id], s.jobs[j].num_clients > 0,
           NEW r, r = ReleaseJobClient(s, u)
    PROVE  \E job \in Job : ClientReleased(r, s, u, j, job)
  <1>1. PICK old \in Job : old = s.jobs[j]
    BY Fields, MapIs
  <1>2. PICK job : job = [old EXCEPT !.num_clients = @ - 1, !.released = TRUE]
    OBVIOUS
  <1>3. /\ job \in Job /\ job.processing_mode = old.processing_mode
        /\ job.named_job_key = old.named_job_key /\ job.num_clients = old.num_clients - 1
        /\ job.repetition = old.repetition /\ job.index = old.index /\ job.finished = old.finished
    <2>1. old.num_clients \in Nat /\ old.num_clients - 1 \in Nat
      BY <1>1 DEF Job
    <2>2. PICK n \in Nat : n = old.num_clients - 1
      BY <2>1
    <2>3. job = [old EXCEPT !.num_clients = n, !.released = TRUE]
      BY <1>2, <2>2
    <2> QED BY <2>2, <2>3 DEF Job
  <1>4. PICK m \in Map(Nat, Job) : m = [s.jobs EXCEPT ![j] = job]
    <2>1. s.jobs \in Map(Nat, Job) /\ job \in Job
      BY <1>3, Fields
    <2>2. [s.jobs EXCEPT ![j] = job] \in Map(Nat, Job)
      BY <2>1, ChangeIs
    <2> QED BY <2>2
  <1>6. PICK c \in Map(Nat, Nat) : c = Erase(s.jobs_for_client_ids, u.job_client_id)
    BY Fields, EraseIs
  <1>8. r = [s EXCEPT !.jobs = m, !.jobs_for_client_ids = c]
    BY <1>1, <1>2, <1>4, <1>6 DEF ReleaseJobClient, State
  <1>9. /\ r \in State /\ r.jobs = m /\ r.next_available_job_id = s.next_available_job_id
        /\ r.jobs_for_client_ids = c
        /\ r.next_available_job_client_id = s.next_available_job_client_id
    BY <1>8 DEF State
  <1>10. SameData(r, s) /\ SameTasks(r, s)
    BY <1>8 DEF State, SameData, SameTasks
  <1>11. ClientReleased(r, s, u, j, job)
    BY <1>1, <1>3, <1>4, <1>6, <1>9, <1>10 DEF ClientReleased
  <1> QED BY <1>3, <1>11

LEMMA CreateTaskIs ==
    ASSUME NEW s \in State, NEW u, u.task_id \in Nat, u.job_id \in DOMAIN s.tasks_by_job,
           u.worker_address \in DOMAIN s.tasks_by_worker, NEW r, r = CreateTask(s, u)
    PROVE  \E task \in Task :
           /\ task.job_id = u.job_id /\ task.worker_address = u.worker_address /\ ~task.finished
           /\ r \in State /\ SameData(r, s) /\ SameJobs(r, s) /\ SameClients(r, s)
           /\ r.tasks = Put(s.tasks, u.task_id, task)
           /\ r.tasks_by_job = [s.tasks_by_job EXCEPT ![u.job_id] = s.tasks_by_job[u.job_id] \cup {u.task_id}]
           /\ r.tasks_by_worker = [s.tasks_by_worker EXCEPT ![u.worker_address] =
                                      s.tasks_by_worker[u.worker_address] \cup {u.task_id}]
           /\ r.next_available_task_id = Beyond(s.next_available_task_id, u.task_id)
  <1>1. u.job_id \in Nat /\ u.worker_address \in Workers
    BY Fields, MapIs
  <1>2. PICK task \in Task : task = [job_id |-> u.job_id, worker_address |-> u.worker_address,
                                     finished |-> FALSE]
    BY <1>1 DEF Task
  <1>3. task.job_id = u.job_id /\ task.worker_address = u.worker_address /\ ~task.finished
    BY <1>2
  <1>4. PICK m \in Map(Nat, Task) : m = Put(s.tasks, u.task_id, task)
    BY Fields, PutIs
  <1>5. s.tasks_by_job \in Map(Nat, SUBSET Nat) /\ s.tasks_by_worker \in Map(Workers, SUBSET Nat)
    BY Fields
  <1>6. PICK b \in Map(Nat, SUBSET Nat) :
           b = [s.tasks_by_job EXCEPT ![u.job_id] = s.tasks_by_job[u.job_id] \cup {u.task_id}]
    <2>0. s.tasks_by_job[u.job_id] \in SUBSET Nat
      BY <1>5, MapIs
    <2>1. PICK v \in SUBSET Nat : v = s.tasks_by_job[u.job_id] \cup {u.task_id}
      BY <2>0
    <2>2. [s.tasks_by_job EXCEPT ![u.job_id] = v] \in Map(Nat, SUBSET Nat)
      BY <1>5, ChangeIs
    <2> QED BY <2>1, <2>2
  <1>7. PICK c \in Map(Workers, SUBSET Nat) :
           c = [s.tasks_by_worker EXCEPT ![u.worker_address] =
                   s.tasks_by_worker[u.worker_address] \cup {u.task_id}]
    <2>0. s.tasks_by_worker[u.worker_address] \in SUBSET Nat
      BY <1>5, MapIs
    <2>1. PICK v \in SUBSET Nat : v = s.tasks_by_worker[u.worker_address] \cup {u.task_id}
      BY <2>0
    <2>2. [s.tasks_by_worker EXCEPT ![u.worker_address] = v] \in Map(Workers, SUBSET Nat)
      BY <1>5, ChangeIs
    <2> QED BY <2>1, <2>2
  <1>8. PICK n \in Nat : n = Beyond(s.next_available_task_id, u.task_id)
    BY Fields, BeyondIs
  <1>9. r = [s EXCEPT !.tasks = m, !.tasks_by_job = b, !.tasks_by_worker = c,
                      !.next_available_task_id = n]
    BY <1>2, <1>4, <1>6, <1>7, <1>8 DEF CreateTask, State
  <1>10. /\ r \in State /\ r.tasks = m /\ r.tasks_by_job = b /\ r.tasks_by_worker = c
         /\ r.next_available_task_id = n
    BY <1>9 DEF State
  <1>11. SameData(r, s) /\ SameJobs(r, s) /\ SameClients(r, s)
    BY <1>9 DEF State, SameData, SameJobs, SameClients
  <1> QED BY <1>3, <1>4, <1>6, <1>7, <1>8, <1>10, <1>11

TaskFinished(r, s, t, w, j, task, job) ==
    /\ task.job_id = j /\ task.worker_address = w /\ task.finished
    /\ job.processing_mode = s.jobs[j].processing_mode
    /\ job.named_job_key = s.jobs[j].named_job_key
    /\ job.repetition = s.jobs[j].repetition
    /\ job.num_clients = s.jobs[j].num_clients
    /\ job.index = s.jobs[j].index
    /\ job.finished = \A k \in s.tasks_by_job[j] \ {t} : s.tasks[k].finished
    /\ r \in State /\ SameData(r, s) /\ SameClients(r, s)
    /\ r.tasks = [s.tasks EXCEPT ![t] = task]
    /\ r.tasks_by_worker = [s.tasks_by_worker EXCEPT ![w] = s.tasks_by_worker[w] \ {t}]
    /\ r.jobs = [s.jobs EXCEPT ![j] = job]
    /\ r.tasks_by_job = s.tasks_by_job
    /\ r.next_available_job_id = s.next_available_job_id
    /\ r.next_available_task_id = s.next_available_task_id

LEMMA FinishTaskIs ==
    ASSUME NEW s \in State, NEW u, NEW t \in DOMAIN s.tasks, t = u.task_id,
           NEW w \in DOMAIN s.tasks_by_worker, w = s.tasks[t].worker_address,
           NEW j \in DOMAIN s.jobs, j = s.tasks[t].job_id, NEW r, r = FinishTask(s, u)
    PROVE  \E task \in Task, job \in Job : TaskFinished(r, s, t, w, j, task, job)
  <1>1. PICK old \in Task, before \in Job : old = s.tasks[t] /\ before = s.jobs[j]
    BY Fields, MapIs
  <1>2. PICK done \in BOOLEAN :
           done = \A k \in s.tasks_by_job[s.tasks[t].job_id] \ {t} : s.tasks[k].finished
    OBVIOUS
  <1>3. PICK task : task = [old EXCEPT !.finished = TRUE]
    OBVIOUS
  <1>4. task \in Task /\ task.job_id = old.job_id /\ task.worker_address = old.worker_address /\ task.finished
    BY <1>3 DEF Task
  <1>5. PICK job : job = [before EXCEPT !.finished = done]
    OBVIOUS
  <1>6. /\ job \in Job /\ job.processing_mode = before.processing_mode
        /\ job.named_job_key = before.named_job_key /\ job.num_clients = before.num_clients
        /\ job.repetition = before.repetition /\ job.index = before.index /\ job.finished = done
    BY <1>5 DEF Job
  <1>7. PICK m \in Map(Nat, Task) : m = [s.tasks EXCEPT ![t] = task]
    <2>1. s.tasks \in Map(Nat, Task) /\ task \in Task
      BY <1>4, Fields
    <2>2. [s.tasks EXCEPT ![t] = task] \in Map(Nat, Task)
      BY <2>1, ChangeIs
    <2> QED BY <2>2
  <1>8. PICK p \in Map(Nat, Job) : p = [s.jobs EXCEPT ![j] = job]
    <2>1. s.jobs \in Map(Nat, Job) /\ job \in Job
      BY <1>6, Fields
    <2>2. [s.jobs EXCEPT ![j] = job] \in Map(Nat, Job)
      BY <2>1, ChangeIs
    <2> QED BY <2>2
  <1>9. PICK c \in Map(Workers, SUBSET Nat) :
           c = [s.tasks_by_worker EXCEPT ![w] = s.tasks_by_worker[w] \ {t}]
    <2>1. s.tasks_by_worker \in Map(Workers, SUBSET Nat)
      BY Fields
    <2>2. s.tasks_by_worker[w] \in SUBSET Nat
      BY <2>1, MapIs
    <2>3. PICK v \in SUBSET Nat : v = s.tasks_by_worker[w] \ {t}
      BY <2>2
    <2>4. [s.tasks_by_worker EXCEPT ![w] = v] \in Map(Workers, SUBSET Nat)
      BY <2>1, ChangeIs
    <2> QED BY <2>3, <2>4
  <1>10. r = [s EXCEPT !.tasks = m, !.tasks_by_worker = c, !.jobs = p]
    <2>1. r = [s EXCEPT !.tasks[t].finished = TRUE, !.tasks_by_worker[w] = @ \ {t},
                        !.jobs[j].finished = done]
      BY <1>2 DEF FinishTask
    <2> QED BY <1>1, <1>3, <1>5, <1>7, <1>8, <1>9, <2>1 DEF State
  <1>11. /\ r \in State /\ r.tasks = m /\ r.tasks_by_worker = c /\ r.jobs = p
         /\ r.tasks_by_job = s.tasks_by_job
         /\ r.next_available_job_id = s.next_available_job_id
         /\ r.next_available_task_id = s.next_available_task_id
    BY <1>10 DEF State
  <1>12. SameData(r, s) /\ SameClients(r, s)
    BY <1>10 DEF State, SameData, SameClients
  <1>13. /\ task.job_id = j /\ task.worker_address = w
         /\ job.processing_mode = s.jobs[j].processing_mode
         /\ job.named_job_key = s.jobs[j].named_job_key
         /\ job.repetition = s.jobs[j].repetition
         /\ job.num_clients = s.jobs[j].num_clients /\ job.index = s.jobs[j].index
    BY <1>1, <1>4, <1>6
  <1>14. /\ r.tasks = [s.tasks EXCEPT ![t] = task]
         /\ r.tasks_by_worker = [s.tasks_by_worker EXCEPT ![w] = s.tasks_by_worker[w] \ {t}]
         /\ r.jobs = [s.jobs EXCEPT ![j] = job]
    BY <1>7, <1>8, <1>9, <1>11
  <1>15. job.finished = \A k \in s.tasks_by_job[j] \ {t} : s.tasks[k].finished
    BY <1>2, <1>6
  <1> QED BY ONLY <1>4, <1>6, <1>11, <1>12, <1>13, <1>14, <1>15, Zenon DEF TaskFinished

JobCollected(r, s, j, mine, job) ==
    /\ job.processing_mode = s.jobs[j].processing_mode
    /\ job.named_job_key = s.jobs[j].named_job_key
    /\ job.repetition = s.jobs[j].repetition
    /\ job.num_clients = s.jobs[j].num_clients
    /\ r \in State /\ SameData(r, s) /\ SameClients(r, s)
    /\ DOMAIN r.tasks = DOMAIN s.tasks
    /\ \A t \in DOMAIN s.tasks : /\ r.tasks[t].job_id = s.tasks[t].job_id
                                 /\ r.tasks[t].worker_address = s.tasks[t].worker_address
                                 /\ r.tasks[t].finished = (s.tasks[t].finished \/ t \in mine)
    /\ DOMAIN r.tasks_by_worker = DOMAIN s.tasks_by_worker
    /\ \A w \in DOMAIN s.tasks_by_worker : r.tasks_by_worker[w] = s.tasks_by_worker[w] \ mine
    /\ r.jobs = [s.jobs EXCEPT ![j] = job]
    /\ r.tasks_by_job = s.tasks_by_job
    /\ r.next_available_job_id = s.next_available_job_id
    /\ r.next_available_task_id = s.next_available_task_id

LEMMA GarbageCollectJobIs ==
    ASSUME NEW s \in State, NEW u, NEW j \in DOMAIN s.jobs, j = u.job_id,
           NEW mine, mine = s.tasks_by_job[j], NEW r, r = GarbageCollectJob(s, u)
    PROVE  \E job \in Job : JobCollected(r, s, j, mine, job)
  <1>1. PICK before \in Job : before = s.jobs[j]
    BY Fields, MapIs
  <1>2. PICK job : job = [before EXCEPT !.finished = TRUE, !.garbage_collected = TRUE]
    OBVIOUS
  <1>3. /\ job \in Job /\ job.processing_mode = before.processing_mode
        /\ job.named_job_key = before.named_job_key /\ job.num_clients = before.num_clients
        /\ job.repetition = before.repetition
    BY <1>2 DEF Job
  <1>4. PICK p \in Map(Nat, Job) : p = [s.jobs EXCEPT ![j] = job]
    <2>1. s.jobs \in Map(Nat, Job) /\ job \in Job
      BY <1>3, Fields
    <2>2. [s.jobs EXCEPT ![j] = job] \in Map(Nat, Job)
      BY <2>1, ChangeIs
    <2> QED BY <2>2
  <1>5. PICK m : m = [t \in DOMAIN s.tasks |->
                        IF t \in mine THEN [s.tasks[t] EXCEPT !.finished = TRUE] ELSE s.tasks[t]]
    OBVIOUS
  <1>6. DOMAIN s.tasks \in SUBSET Nat /\ \A t \in DOMAIN s.tasks : s.tasks[t] \in Task
    BY Fields, MapIs
  <1>7. ASSUME NEW t \in DOMAIN s.tasks
        PROVE  /\ m[t] \in Task /\ m[t].job_id = s.tasks[t].job_id
               /\ m[t].worker_address = s.tasks[t].worker_address
               /\ m[t].finished = (s.tasks[t].finished \/ t \in mine)
    <2>1. PICK a \in Task : a = s.tasks[t]
      BY <1>6
    <2>2. CASE t \in mine
      <3>1. m[t] = [a EXCEPT !.finished = TRUE]
        BY <1>5, <2>1, <2>2
      <3> QED BY <2>1, <2>2, <3>1 DEF Task
    <2>3. CASE t \notin mine
      <3>1. m[t] = a
        BY <1>5, <2>1, <2>3
      <3> QED BY <2>1, <2>3, <3>1 DEF Task
    <2> QED BY <2>2, <2>3
  <1>8. m \in Map(Nat, Task) /\ DOMAIN m = DOMAIN s.tasks
    <2>1. m \in [DOMAIN s.tasks -> Task]
      BY <1>5, <1>7
    <2> QED BY <1>6, <2>1, MapMake
  <1>9. PICK c : c = [w \in DOMAIN s.tasks_by_worker |-> s.tasks_by_worker[w] \ mine]
    OBVIOUS
  <1>10. c \in Map(Workers, SUBSET Nat) /\ DOMAIN c = DOMAIN s.tasks_by_worker
    <2>1. DOMAIN s.tasks_by_worker \in SUBSET Workers
          /\ \A w \in DOMAIN s.tasks_by_worker : s.tasks_by_worker[w] \in SUBSET Nat
      BY Fields, MapIs
    <2>2. c \in [DOMAIN s.tasks_by_worker -> SUBSET Nat]
      BY <1>9, <2>1
    <2> QED BY <2>1, <2>2, MapMake
  <1>11. r = [s EXCEPT !.tasks = m, !.tasks_by_worker = c, !.jobs = p]
    BY <1>1, <1>2, <1>4, <1>5, <1>9 DEF GarbageCollectJob, State
  <1>12. /\ r \in State /\ r.tasks = m /\ r.tasks_by_worker = c /\ r.jobs = p
         /\ r.tasks_by_job = s.tasks_by_job
         /\ r.next_available_job_id = s.next_available_job_id
         /\ r.next_available_task_id = s.next_available_task_id
    BY <1>8, <1>10, <1>11 DEF State
  <1>13. SameData(r, s) /\ SameClients(r, s)
    BY <1>11 DEF State, SameData, SameClients
  <1>14. /\ DOMAIN r.tasks = DOMAIN s.tasks /\ DOMAIN r.tasks_by_worker = DOMAIN s.tasks_by_worker
         /\ r.jobs = [s.jobs EXCEPT ![j] = job]
         /\ \A w \in DOMAIN s.tasks_by_worker : r.tasks_by_worker[w] = s.tasks_by_worker[w] \ mine
    BY <1>4, <1>8, <1>9, <1>10, <1>12
  <1>15. \A t \in DOMAIN s.tasks : /\ r.tasks[t].job_id = s.tasks[t].job_id
                                   /\ r.tasks[t].worker_address = s.tasks[t].worker_address
                                   /\ r.tasks[t].finished = (s.tasks[t].finished \/ t \in mine)
    BY ONLY <1>7, <1>12, Zenon
  <1>16. /\ job.processing_mode = s.jobs[j].processing_mode
         /\ job.named_job_key = s.jobs[j].named_job_key
         /\ job.repetition = s.jobs[j].repetition
         /\ job.num_clients = s.jobs[j].num_clients
    BY <1>1, <1>3
  <1> QED BY ONLY <1>3, <1>12, <1>13, <1>14, <1>15, <1>16, Zenon DEF JobCollected

-----------------------------------------------------------------------------
(* What update u makes of the state s, as far as the checks of later       *)
(* updates and garbage collection can tell: the state r.                   *)

DataEffect(r, s, u) ==
    /\ r.datasets_by_id = IF u.type = "register_dataset"
                          THEN Put(s.datasets_by_id, u.dataset_id, u.fingerprint) ELSE s.datasets_by_id
    /\ r.next_available_dataset_id = IF u.type = "register_dataset"
                                     THEN Beyond(s.next_available_dataset_id, u.dataset_id)
                                     ELSE s.next_available_dataset_id

ClientsEffect(r, s, u) ==
    /\ r.jobs_for_client_ids =
          IF u.type = "acquire_job_client" THEN Put(s.jobs_for_client_ids, u.job_client_id, u.job_id)
          ELSE IF u.type = "release_job_client" THEN Erase(s.jobs_for_client_ids, u.job_client_id)
          ELSE s.jobs_for_client_ids
    /\ r.next_available_job_client_id =
          IF u.type = "acquire_job_client" THEN Beyond(s.next_available_job_client_id, u.job_client_id)
          ELSE s.next_available_job_client_id

Repeats(u, j) == IF u.type = "produce_split" /\ u.finished /\ j = u.job_id THEN 1 ELSE 0
Joins(s, u, j) == IF u.type = "acquire_job_client" /\ j = u.job_id THEN 1
                  ELSE IF u.type = "release_job_client" /\ j = s.jobs_for_client_ids[u.job_client_id]
                  THEN -1 ELSE 0

JobsEffect(r, s, u) ==
    /\ r.next_available_job_id = IF u.type = "create_job" THEN Beyond(s.next_available_job_id, u.job_id)
                                 ELSE s.next_available_job_id
    /\ DOMAIN r.jobs = DOMAIN s.jobs \cup (IF u.type = "create_job" THEN {u.job_id} ELSE {})
    /\ \A j \in DOMAIN s.jobs :
          /\ r.jobs[j].processing_mode = s.jobs[j].processing_mode
          /\ r.jobs[j].named_job_key = s.jobs[j].named_job_key
          /\ r.jobs[j].repetition = s.jobs[j].repetition + Repeats(u, j)
          /\ r.jobs[j].num_clients = s.jobs[j].num_clients + Joins(s, u, j)
    /\ u.type = "create_job" => /\ r.jobs[u.job_id].processing_mode = u.processing_mode
                                /\ r.jobs[u.job_id].named_job_key = u.named_job_key
                                /\ r.jobs[u.job_id].repetition = 0
                                /\ r.jobs[u.job_id].num_clients = 0

TasksEffect(r, s, u) ==
    /\ DOMAIN r.tasks_by_worker =
          DOMAIN s.tasks_by_worker \cup (IF u.type = "register_worker" THEN {u.worker_address} ELSE {})
    /\ r.next_available_task_id = IF u.type = "create_task" THEN Beyond(s.next_available_task_id, u.task_id)
                                  ELSE s.next_available_task_id
    /\ DOMAIN r.tasks = DOMAIN s.tasks \cup (IF u.type = "create_task" THEN {u.task_id} ELSE {})
    /\ \A t \in DOMAIN s.tasks : /\ r.tasks[t].job_id = s.tasks[t].job_id
                                 /\ r.tasks[t].worker_address = s.tasks[t].worker_address
                                 /\ s.tasks[t].finished => r.tasks[t].finished
    /\ u.type = "create_task" => /\ r.tasks[u.task_id].job_id = u.job_id
                                 /\ r.tasks[u.task_id].worker_address = u.worker_address

Effect(r, s, u) ==
    DataEffect(r, s, u) /\ ClientsEffect(r, s, u) /\ JobsEffect(r, s, u) /\ TasksEffect(r, s, u)

(* An update that can be applied to s.                                     *)
Applies(s, u) ==
    /\ Checks(s, u)
    /\ u.type = "produce_split" => u.job_id \in DOMAIN s.jobs
    /\ u.type = "create_task" => u.worker_address \in DOMAIN s.tasks_by_worker

LEMMA UpdateFields ==
    ASSUME NEW u \in Update
    PROVE  /\ u.type \in {"register_dataset", "register_worker", "create_job", "produce_split",
                          "acquire_job_client", "release_job_client", "create_task", "finish_task"}
           /\ u.type = "register_dataset" => u.fingerprint \in Fingerprints /\ u.dataset_id \in Nat
           /\ u.type = "register_worker" => u.worker_address \in Workers
           /\ u.type = "create_job" => /\ u.job_id \in Nat /\ u.dataset_id \in Nat
                                       /\ u.processing_mode \in Modes /\ u.named_job_key \in Keys
           /\ u.type = "produce_split" => /\ u.job_id \in Nat /\ u.finished \in BOOLEAN
                                          /\ u.repetition \in Nat
           /\ u.type = "acquire_job_client" => u.job_id \in Nat /\ u.job_client_id \in Nat
           /\ u.type = "release_job_client" => u.job_client_id \in Nat
           /\ u.type = "create_task" => u.task_id \in Nat /\ u.job_id \in Nat /\ u.worker_address \in Workers
           /\ u.type = "finish_task" => u.task_id \in Nat
  <1>1. CASE u \in [type : {"register_dataset"}, fingerprint : Fingerprints, dataset_id : Nat]
    BY <1>1
  <1>2. CASE u \in [type : {"register_worker"}, worker_address : Workers]
    BY <1>2
  <1>3. CASE u \in [type : {"create_job"}, job_id : Nat, dataset_id : Nat, processing_mode : Modes,
                    named_job_key : Keys]
    BY <1>3
  <1>4. CASE u \in [type : {"produce_split"}, job_id : Nat, finished : BOOLEAN, repetition : Nat]
    BY <1>4
  <1>5. CASE u \in [type : {"acquire_job_client"}, job_id : Nat, job_client_id : Nat]
    BY <1>5
  <1>6. CASE u \in [type : {"release_job_client"}, job_client_id : Nat]
    BY <1>6
  <1>7. CASE u \in [type : {"create_task"}, task_id : Nat, job_id : Nat, worker_address : Workers]
    BY <1>7
  <1>8. CASE u \in [type : {"finish_task"}, task_id : Nat]
    BY <1>8
  <1> QED BY <1>1, <1>2, <1>3, <1>4, <1>5, <1>6, <1>7, <1>8 DEF Update

(* The tasks are left alone.                                               *)
LEMMA TasksKept ==
    ASSUME NEW s, NEW r, NEW u, SameTasks(r, s), DOMAIN r.jobs = DOMAIN s.jobs,
           u.type \notin {"register_worker", "create_task"}
    PROVE  TasksEffect(r, s, u) /\ (TasksInv(s) => TasksInv(r))
  BY DEF TasksEffect, TasksInv, SameTasks

(* No task is created, and none changes but to be finished.                *)
TasksFollow(r, s) ==
    \A i \in DOMAIN s.tasks : /\ r.tasks[i].job_id = s.tasks[i].job_id
                              /\ r.tasks[i].worker_address = s.tasks[i].worker_address
                              /\ s.tasks[i].finished => r.tasks[i].finished

LEMMA TasksListed ==
    ASSUME NEW s, NEW r, NEW u, u.type \notin {"register_worker", "create_task"},
           DOMAIN r.tasks_by_worker = DOMAIN s.tasks_by_worker, DOMAIN r.tasks = DOMAIN s.tasks,
           r.next_available_task_id = s.next_available_task_id, TasksFollow(r, s)
    PROVE  TasksEffect(r, s, u)
  BY DEF TasksEffect, TasksFollow

LEMMA JobNumbers ==
    ASSUME NEW s \in State, NEW j \in DOMAIN s.jobs
    PROVE  s.jobs[j] \in Job /\ s.jobs[j].repetition \in Nat /\ s.jobs[j].num_clients \in Nat
  <1>1. PICK job \in Job : job = s.jobs[j]
    BY Fields, MapIs
  <1> QED BY <1>1 DEF Job

(* The jobs are left alone, or one of them changes.                        *)
LEMMA JobsKept ==
    ASSUME NEW s \in State, NEW r, NEW u, SameJobs(r, s),
           u.type \notin {"create_job", "produce_split", "acquire_job_client", "release_job_client"}
    PROVE  JobsEffect(r, s, u)
  <1>1. ASSUME NEW j \in DOMAIN s.jobs
        PROVE  /\ r.jobs[j].processing_mode = s.jobs[j].processing_mode
               /\ r.jobs[j].named_job_key = s.jobs[j].named_job_key
               /\ r.jobs[j].repetition = s.jobs[j].repetition + Repeats(u, j)
               /\ r.jobs[j].num_clients = s.jobs[j].num_clients + Joins(s, u, j)
    <2>1. s.jobs[j].repetition \in Nat /\ s.jobs[j].num_clients \in Nat
      BY JobNumbers
    <2>2. Repeats(u, j) = 0 /\ Joins(s, u, j) = 0
      BY DEF Repeats, Joins
    <2> QED BY <2>1, <2>2 DEF SameJobs
  <1> QED BY <1>1 DEF JobsEffect, SameJobs

LEMMA JobChanged ==
    ASSUME NEW s \in State, NEW r, NEW u, NEW k \in DOMAIN s.jobs, NEW job \in Job,
           r.jobs = [s.jobs EXCEPT ![k] = job], r.next_available_job_id = s.next_available_job_id,
           job.processing_mode = s.jobs[k].processing_mode,
           job.named_job_key = s.jobs[k].named_job_key,
           job.repetition = s.jobs[k].repetition + Repeats(u, k),
           job.num_clients = s.jobs[k].num_clients + Joins(s, u, k),
           \A j \in DOMAIN s.jobs \ {k} : Repeats(u, j) = 0 /\ Joins(s, u, j) = 0,
           u.type # "create_job"
    PROVE  JobsEffect(r, s, u) /\ DOMAIN r.jobs = DOMAIN s.jobs
  <1>1. /\ DOMAIN r.jobs = DOMAIN s.jobs /\ r.jobs[k] = job
        /\ \A j \in DOMAIN s.jobs \ {k} : r.jobs[j] = s.jobs[j]
    BY Fields, ChangeIs
  <1>2. ASSUME NEW j \in DOMAIN s.jobs
        PROVE  /\ r.jobs[j].processing_mode = s.jobs[j].processing_mode
               /\ r.jobs[j].named_job_key = s.jobs[j].named_job_key
               /\ r.jobs[j].repetition = s.jobs[j].repetition + Repeats(u, j)
               /\ r.jobs[j].num_clients = s.jobs[j].num_clients + Joins(s, u, j)
    <2>1. CASE j = k
      BY <1>1, <2>1
    <2>2. CASE j # k
      <3>1. s.jobs[j].repetition \in Nat /\ s.jobs[j].num_clients \in Nat
        BY JobNumbers
      <3> QED BY <1>1, <2>2, <3>1
    <2> QED BY <2>1, <2>2
  <1> QED BY <1>1, <1>2 DEF JobsEffect

LEMMA DatasetEffect ==
    ASSUME NEW s, StateInv(s), NEW u \in Update, u.type = "register_dataset",
           NEW r, r = RegisterDataset(s, u)
    PROVE  r \in State /\ Effect(r, s, u) /\ TasksInv(r)
  <1>1. s \in State /\ TasksInv(s) /\ u.fingerprint \in Fingerprints /\ u.dataset_id \in Nat
    BY UpdateFields DEF StateInv
  <1>2. /\ r \in State /\ SameJobs(r, s) /\ SameClients(r, s) /\ SameTasks(r, s)
        /\ r.datasets_by_id = Put(s.datasets_by_id, u.dataset_id, u.fingerprint)
        /\ r.next_available_dataset_id = Beyond(s.next_available_dataset_id, u.dataset_id)
    BY <1>1, RegisterDatasetIs
  <1>3. TasksEffect(r, s, u) /\ TasksInv(r)
    BY <1>1, <1>2, TasksKept DEF SameJobs
  <1>4. DataEffect(r, s, u) /\ ClientsEffect(r, s, u)
    BY <1>2 DEF DataEffect, ClientsEffect, SameClients
  <1>5. JobsEffect(r, s, u)
    BY <1>1, <1>2, JobsKept
  <1> QED BY <1>2, <1>3, <1>4, <1>5 DEF Effect

LEMMA WorkerEffect ==
    ASSUME NEW s, StateInv(s), NEW u \in Update, u.type = "register_worker", Applies(s, u),
           NEW r, r = RegisterWorker(s, u)
    PROVE  r \in State /\ Effect(r, s, u) /\ TasksInv(r)
  <1>1. /\ s \in State /\ TasksInv(s) /\ u.worker_address \in Workers
        /\ u.worker_address \notin DOMAIN s.tasks_by_worker
    BY UpdateFields DEF StateInv, Applies, Checks
  <1>2. /\ r \in State /\ SameData(r, s) /\ SameJobs(r, s) /\ SameClients(r, s)
        /\ r.tasks = s.tasks /\ r.tasks_by_job = s.tasks_by_job
        /\ r.next_available_task_id = s.next_available_task_id
        /\ r.tasks_by_worker = Put(s.tasks_by_worker, u.worker_address, {})
    BY <1>1, RegisterWorkerIs
  <1>3. /\ DOMAIN r.tasks_by_worker = DOMAIN s.tasks_by_worker \cup {u.worker_address}
        /\ r.tasks_by_worker[u.worker_address] = {}
        /\ \A w \in DOMAIN s.tasks_by_worker : r.tasks_by_worker[w] = s.tasks_by_worker[w]
    BY <1>1, <1>2 DEF Put
  <1>4. TasksEffect(r, s, u)
    BY <1>2, <1>3 DEF TasksEffect
  <1>5. TasksInv(r)
    BY <1>1, <1>2, <1>3 DEF TasksInv, SameJobs
  <1>6. DataEffect(r, s, u) /\ ClientsEffect(r, s, u)
    BY <1>2 DEF DataEffect, ClientsEffect, SameClients, SameData
  <1>7. JobsEffect(r, s, u)
    BY <1>1, <1>2, JobsKept
  <1> QED BY <1>2, <1>4, <1>5, <1>6, <1>7 DEF Effect

LEMMA JobEffect ==
    ASSUME NEW s, StateInv(s), NEW u \in Update, u.type = "create_job", Applies(s, u),
           NEW r, r = CreateJob(s, u)
    PROVE  r \in State /\ Effect(r, s, u) /\ TasksInv(r)
  <1>1. /\ s \in State /\ TasksInv(s) /\ u.job_id \in Nat /\ u.dataset_id \in Nat
        /\ u.processing_mode \in Modes /\ u.named_job_key \in Keys
        /\ u.job_id \notin DOMAIN s.jobs
    BY UpdateFields DEF StateInv, Applies, Checks
  <1>2. PICK job \in Job :
           /\ job.processing_mode = u.processing_mode /\ job.named_job_key = u.named_job_key
           /\ job.repetition = 0 /\ job.index = 0 /\ job.num_clients = 0 /\ ~job.finished
           /\ r \in State /\ SameData(r, s) /\ SameClients(r, s)
           /\ r.tasks = s.tasks /\ r.tasks_by_worker = s.tasks_by_worker
           /\ r.next_available_task_id = s.next_available_task_id
           /\ r.jobs = Put(s.jobs, u.job_id, job)
           /\ r.tasks_by_job = Put(s.tasks_by_job, u.job_id, {})
           /\ r.next_available_job_id = Beyond(s.next_available_job_id, u.job_id)
    BY <1>1, CreateJobIs
  <1>3. /\ DOMAIN r.jobs = DOMAIN s.jobs \cup {u.job_id} /\ r.jobs[u.job_id] = job
        /\ \A j \in DOMAIN s.jobs : r.jobs[j] = s.jobs[j]
    BY <1>1, <1>2 DEF Put
  <1>4. DOMAIN s.tasks_by_job = DOMAIN s.jobs
    BY <1>1 DEF TasksInv
  <1>5. /\ DOMAIN r.tasks_by_job = DOMAIN s.jobs \cup {u.job_id} /\ r.tasks_by_job[u.job_id] = {}
        /\ \A j \in DOMAIN s.jobs : r.tasks_by_job[j] = s.tasks_by_job[j]
    BY <1>1, <1>2, <1>4 DEF Put
  <1>6. TasksEffect(r, s, u)
    BY <1>2 DEF TasksEffect
  <1>7. TasksInv(r)
    BY <1>1, <1>2, <1>3, <1>5 DEF TasksInv
  <1>8. DataEffect(r, s, u) /\ ClientsEffect(r, s, u)
    BY <1>2 DEF DataEffect, ClientsEffect, SameClients, SameData
  <1>9. ASSUME NEW j \in DOMAIN s.jobs
        PROVE  /\ r.jobs[j].processing_mode = s.jobs[j].processing_mode
               /\ r.jobs[j].named_job_key = s.jobs[j].named_job_key
               /\ r.jobs[j].repetition = s.jobs[j].repetition + Repeats(u, j)
               /\ r.jobs[j].num_clients = s.jobs[j].num_clients + Joins(s, u, j)
    <2>1. s.jobs[j].repetition \in Nat /\ s.jobs[j].num_clients \in Nat
      BY <1>1, JobNumbers
    <2>2. Repeats(u, j) = 0 /\ Joins(s, u, j) = 0
      BY DEF Repeats, Joins
    <2> QED BY <1>3, <2>1, <2>2
  <1>10. JobsEffect(r, s, u)
    BY <1>2, <1>3, <1>9 DEF JobsEffect
  <1> QED BY <1>2, <1>6, <1>7, <1>8, <1>10 DEF Effect

LEMMA SplitEffect ==
    ASSUME NEW s, StateInv(s), NEW u \in Update, u.type = "produce_split", Applies(s, u),
           NEW r, r = ProduceSplit(s, u)
    PROVE  r \in State /\ Effect(r, s, u) /\ TasksInv(r)
  <1>1. s \in State /\ TasksInv(s) /\ u.job_id \in DOMAIN s.jobs /\ u.finished \in BOOLEAN
    BY UpdateFields DEF StateInv, Applies
  <1>2. PICK job \in Job : SplitProduced(r, s, u, job)
    BY <1>1, ProduceSplitIs
  <1> USE DEF SplitProduced
  <1>3. s.jobs[u.job_id].repetition \in Nat /\ s.jobs[u.job_id].num_clients \in Nat
    BY <1>1, JobNumbers
  <1>4. Repeats(u, u.job_id) = (IF u.finished THEN 1 ELSE 0) /\ Joins(s, u, u.job_id) = 0
    BY DEF Repeats, Joins
  <1>5. /\ job.repetition = s.jobs[u.job_id].repetition + Repeats(u, u.job_id)
        /\ job.num_clients = s.jobs[u.job_id].num_clients + Joins(s, u, u.job_id)
    BY <1>2, <1>3, <1>4
  <1>6. \A j \in DOMAIN s.jobs \ {u.job_id} : Repeats(u, j) = 0 /\ Joins(s, u, j) = 0
    BY DEF Repeats, Joins
  <1>7. JobsEffect(r, s, u) /\ DOMAIN r.jobs = DOMAIN s.jobs
    BY <1>1, <1>2, <1>5, <1>6, JobChanged
  <1>8. TasksEffect(r, s, u) /\ TasksInv(r)
    BY <1>1, <1>2, <1>7, TasksKept
  <1>9. DataEffect(r, s, u) /\ ClientsEffect(r, s, u)
    BY <1>2 DEF DataEffect, ClientsEffect, SameClients, SameData
  <1> QED BY <1>2, <1>7, <1>8, <1>9 DEF Effect

LEMMA AcquireEffect ==
    ASSUME NEW s, StateInv(s), NEW u \in Update, u.type = "acquire_job_client", Applies(s, u),
           NEW r, r = AcquireJobClient(s, u)
    PROVE  r \in State /\ Effect(r, s, u) /\ TasksInv(r)
  <1>1. s \in State /\ TasksInv(s) /\ u.job_id \in DOMAIN s.jobs /\ u.job_client_id \in Nat
    BY UpdateFields DEF StateInv, Applies, Checks
  <1>2. PICK job \in Job : ClientAcquired(r, s, u, job)
    BY <1>1, AcquireJobClientIs
  <1> USE DEF ClientAcquired
  <1>3. s.jobs[u.job_id].repetition \in Nat /\ s.jobs[u.job_id].num_clients \in Nat
    BY <1>1, JobNumbers
  <1>4. Repeats(u, u.job_id) = 0 /\ Joins(s, u, u.job_id) = 1
    BY DEF Repeats, Joins
  <1>5. /\ job.repetition = s.jobs[u.job_id].repetition + Repeats(u, u.job_id)
        /\ job.num_clients = s.jobs[u.job_id].num_clients + Joins(s, u, u.job_id)
    BY <1>2, <1>3, <1>4
  <1>6. \A j \in DOMAIN s.jobs \ {u.job_id} : Repeats(u, j) = 0 /\ Joins(s, u, j) = 0
    BY DEF Repeats, Joins
  <1>7. JobsEffect(r, s, u) /\ DOMAIN r.jobs = DOMAIN s.jobs
    BY <1>1, <1>2, <1>5, <1>6, JobChanged
  <1>8. TasksEffect(r, s, u) /\ TasksInv(r)
    BY <1>1, <1>2, <1>7, TasksKept
  <1>9. DataEffect(r, s, u) /\ ClientsEffect(r, s, u)
    BY <1>2 DEF DataEffect, ClientsEffect, SameData
  <1> QED BY <1>2, <1>7, <1>8, <1>9 DEF Effect

LEMMA ReleaseEffect ==
    ASSUME NEW s, StateInv(s), NEW u \in Update, u.type = "release_job_client", Applies(s, u),
           NEW r, r = ReleaseJobClient(s, u)
    PROVE  r \in State /\ Effect(r, s, u) /\ TasksInv(r)
  <1>1. s \in State /\ TasksInv(s) /\ u.job_client_id \in DOMAIN s.jobs_for_client_ids
    BY UpdateFields DEF StateInv, Applies, Checks
  <1>2. PICK k : k = s.jobs_for_client_ids[u.job_client_id]
    OBVIOUS
  <1>3. k \in DOMAIN s.jobs /\ s.jobs[k].num_clients > 0
    BY <1>1, <1>2 DEF StateInv, ClientsInv, Applies, Checks
  <1>4. PICK job \in Job : ClientReleased(r, s, u, k, job)
    BY <1>1, <1>2, <1>3, ReleaseJobClientIs
  <1> USE DEF ClientReleased
  <1>5. s.jobs[k].repetition \in Nat /\ s.jobs[k].num_clients \in Nat
    BY <1>1, <1>3, JobNumbers
  <1>6. Repeats(u, k) = 0 /\ Joins(s, u, k) = -1
    BY <1>2 DEF Repeats, Joins
  <1>7. /\ job.repetition = s.jobs[k].repetition + Repeats(u, k)
        /\ job.num_clients = s.jobs[k].num_clients + Joins(s, u, k)
    BY <1>4, <1>5, <1>6
  <1>8. \A j \in DOMAIN s.jobs \ {k} : Repeats(u, j) = 0 /\ Joins(s, u, j) = 0
    BY <1>2 DEF Repeats, Joins
  <1>9. JobsEffect(r, s, u) /\ DOMAIN r.jobs = DOMAIN s.jobs
    BY <1>1, <1>3, <1>4, <1>7, <1>8, JobChanged
  <1>10. TasksEffect(r, s, u) /\ TasksInv(r)
    BY <1>1, <1>4, <1>9, TasksKept
  <1>11. DataEffect(r, s, u) /\ ClientsEffect(r, s, u)
    BY <1>4 DEF DataEffect, ClientsEffect, SameData
  <1> QED BY <1>4, <1>9, <1>10, <1>11 DEF Effect

LEMMA TaskEffect ==
    ASSUME NEW s, StateInv(s), NEW u \in Update, u.type = "create_task", Applies(s, u),
           NEW r, r = CreateTask(s, u)
    PROVE  r \in State /\ Effect(r, s, u) /\ TasksInv(r)
  <1>1. /\ s \in State /\ TasksInv(s) /\ u.task_id \in Nat /\ u.task_id \notin DOMAIN s.tasks
        /\ u.job_id \in DOMAIN s.jobs /\ u.worker_address \in DOMAIN s.tasks_by_worker
    BY UpdateFields DEF StateInv, Applies, Checks
  <1>2. DOMAIN s.tasks_by_job = DOMAIN s.jobs
    BY <1>1 DEF TasksInv
  <1>3. PICK task \in Task :
           /\ task.job_id = u.job_id /\ task.worker_address = u.worker_address /\ ~task.finished
           /\ r \in State /\ SameData(r, s) /\ SameJobs(r, s) /\ SameClients(r, s)
           /\ r.tasks = Put(s.tasks, u.task_id, task)
           /\ r.tasks_by_job = [s.tasks_by_job EXCEPT ![u.job_id] = s.tasks_by_job[u.job_id] \cup {u.task_id}]
           /\ r.tasks_by_worker = [s.tasks_by_worker EXCEPT ![u.worker_address] =
                                      s.tasks_by_worker[u.worker_address] \cup {u.task_id}]
           /\ r.next_available_task_id = Beyond(s.next_available_task_id, u.task_id)
    BY <1>1, <1>2, CreateTaskIs
  <1>4. /\ DOMAIN r.tasks = DOMAIN s.tasks \cup {u.task_id} /\ r.tasks[u.task_id] = task
        /\ \A t \in DOMAIN s.tasks : r.tasks[t] = s.tasks[t]
    BY <1>1, <1>3 DEF Put
  <1>5. /\ s.tasks_by_job \in [DOMAIN s.tasks_by_job -> SUBSET Nat]
        /\ s.tasks_by_worker \in [DOMAIN s.tasks_by_worker -> SUBSET Nat]
    BY <1>1, Fields, MapIs
  <1>6. /\ DOMAIN r.tasks_by_job = DOMAIN s.jobs
        /\ r.tasks_by_job[u.job_id] = s.tasks_by_job[u.job_id] \cup {u.task_id}
        /\ \A j \in DOMAIN s.jobs \ {u.job_id} : r.tasks_by_job[j] = s.tasks_by_job[j]
    BY <1>1, <1>2, <1>3, <1>5
  <1>7. /\ DOMAIN r.tasks_by_worker = DOMAIN s.tasks_by_worker
        /\ r.tasks_by_worker[u.worker_address] = s.tasks_by_worker[u.worker_address] \cup {u.task_id}
        /\ \A w \in DOMAIN s.tasks_by_worker \ {u.worker_address} :
              r.tasks_by_worker[w] = s.tasks_by_worker[w]
    BY <1>1, <1>3, <1>5
  <1>8. TasksEffect(r, s, u)
    BY <1>3, <1>4, <1>7 DEF TasksEffect
  <1>9. TasksInv(r)
    <2>1. \A t \in DOMAIN r.tasks :
             /\ r.tasks[t].job_id \in DOMAIN r.jobs
             /\ r.tasks[t].worker_address \in DOMAIN r.tasks_by_worker
             /\ r.tasks[t].finished \/ t \in r.tasks_by_worker[r.tasks[t].worker_address]
      BY <1>1, <1>3, <1>4, <1>7 DEF TasksInv, SameJobs
    <2>2. \A w \in DOMAIN r.tasks_by_worker : \A t \in r.tasks_by_worker[w] :
             t \in DOMAIN r.tasks /\ r.tasks[t].worker_address = w
      BY <1>1, <1>3, <1>4, <1>7 DEF TasksInv
    <2>3. DOMAIN r.tasks_by_job = DOMAIN r.jobs
          /\ \A j \in DOMAIN r.tasks_by_job : r.tasks_by_job[j] \subseteq DOMAIN r.tasks
      BY <1>1, <1>3, <1>4, <1>6 DEF TasksInv, SameJobs
    <2> QED BY <2>1, <2>2, <2>3 DEF TasksInv
  <1>10. DataEffect(r, s, u) /\ ClientsEffect(r, s, u)
    BY <1>3 DEF DataEffect, ClientsEffect, SameData, SameClients
  <1>11. JobsEffect(r, s, u)
    BY <1>1, <1>3, JobsKept
  <1> QED BY <1>3, <1>8, <1>9, <1>10, <1>11 DEF Effect

LEMMA FinishEffect ==
    ASSUME NEW s, StateInv(s), NEW u \in Update, u.type = "finish_task", Applies(s, u),
           NEW r, r = FinishTask(s, u)
    PROVE  r \in State /\ Effect(r, s, u) /\ TasksInv(r)
  <1>1. s \in State /\ TasksInv(s) /\ u.task_id \in DOMAIN s.tasks
    BY DEF StateInv, Applies, Checks
  <1>2. PICK t \in DOMAIN s.tasks : t = u.task_id
    BY <1>1
  <1>3. PICK w \in DOMAIN s.tasks_by_worker, k \in DOMAIN s.jobs :
           w = s.tasks[t].worker_address /\ k = s.tasks[t].job_id
    BY <1>1 DEF TasksInv
  <1>4. PICK task \in Task, job \in Job : TaskFinished(r, s, t, w, k, task, job)
    BY <1>1, <1>2, <1>3, FinishTaskIs
  <1> USE DEF TaskFinished
  <1>5. /\ s.tasks \in [DOMAIN s.tasks -> Task]
        /\ s.tasks_by_worker \in [DOMAIN s.tasks_by_worker -> SUBSET Nat]
    BY <1>1, Fields, MapIs
  <1>6. /\ DOMAIN r.tasks = DOMAIN s.tasks /\ r.tasks[t] = task
        /\ \A i \in DOMAIN s.tasks \ {t} : r.tasks[i] = s.tasks[i]
    BY <1>4, <1>5
  <1>7. /\ DOMAIN r.tasks_by_worker = DOMAIN s.tasks_by_worker
        /\ r.tasks_by_worker[w] = s.tasks_by_worker[w] \ {t}
        /\ \A v \in DOMAIN s.tasks_by_worker \ {w} : r.tasks_by_worker[v] = s.tasks_by_worker[v]
    BY <1>4, <1>5
  <1>8. s.jobs[k].repetition \in Nat /\ s.jobs[k].num_clients \in Nat
    BY <1>1, JobNumbers
  <1>9. \A j \in DOMAIN s.jobs : Repeats(u, j) = 0 /\ Joins(s, u, j) = 0
    BY DEF Repeats, Joins
  <1>10. /\ job.repetition = s.jobs[k].repetition + Repeats(u, k)
         /\ job.num_clients = s.jobs[k].num_clients + Joins(s, u, k)
    BY <1>4, <1>8, <1>9
  <1>11. JobsEffect(r, s, u) /\ DOMAIN r.jobs = DOMAIN s.jobs
    BY <1>1, <1>4, <1>9, <1>10, JobChanged
  <1>12. TasksEffect(r, s, u)
    <2>1. TasksFollow(r, s)
      BY <1>3, <1>4, <1>6 DEF TasksFollow
    <2>2. /\ DOMAIN r.tasks_by_worker = DOMAIN s.tasks_by_worker /\ DOMAIN r.tasks = DOMAIN s.tasks
          /\ r.next_available_task_id = s.next_available_task_id
      BY <1>4, <1>6, <1>7
    <2> QED BY ONLY u.type = "finish_task", <2>1, <2>2, TasksListed
  <1>13. TasksInv(r)
    <2>1. ASSUME NEW i \in DOMAIN r.tasks
          PROVE  /\ r.tasks[i].job_id \in DOMAIN r.jobs
                 /\ r.tasks[i].worker_address \in DOMAIN r.tasks_by_worker
                 /\ r.tasks[i].finished \/ i \in r.tasks_by_worker[r.tasks[i].worker_address]
      <3>1. CASE i = t
        BY <1>4, <1>6, <1>7, <1>11, <3>1
      <3>2. CASE i # t
        BY <1>1, <1>6, <1>7, <1>11, <2>1, <3>2 DEF TasksInv
      <3> QED BY <3>1, <3>2
    <2>2. ASSUME NEW v \in DOMAIN r.tasks_by_worker, NEW i \in r.tasks_by_worker[v]
          PROVE  i \in DOMAIN r.tasks /\ r.tasks[i].worker_address = v
      <3>1. v \in DOMAIN s.tasks_by_worker /\ i \in s.tasks_by_worker[v] /\ (v = w => i # t)
        BY <1>7, <2>2
      <3>2. i \in DOMAIN s.tasks /\ s.tasks[i].worker_address = v
        BY <1>1, <3>1 DEF TasksInv
      <3>3. i # t
        BY <1>3, <3>1, <3>2
      <3> QED BY <1>6, <3>2, <3>3
    <2>3. DOMAIN r.tasks_by_job = DOMAIN r.jobs
          /\ \A j \in DOMAIN r.tasks_by_job : r.tasks_by_job[j] \subseteq DOMAIN r.tasks
      BY <1>1, <1>4, <1>6, <1>11 DEF TasksInv
    <2> QED BY <2>1, <2>2, <2>3 DEF TasksInv
  <1>14. DataEffect(r, s, u) /\ ClientsEffect(r, s, u)
    BY <1>4 DEF DataEffect, ClientsEffect, SameData, SameClients
  <1> QED BY <1>4, <1>11, <1>12, <1>13, <1>14 DEF Effect

-----------------------------------------------------------------------------
(* An update keeps the invariant of the state.                             *)

LEMMA IdsKept ==
    ASSUME NEW s \in State, IdsInv(s), NEW u \in Update, NEW r, Effect(r, s, u)
    PROVE  IdsInv(r)
  <1>1. /\ s.next_available_dataset_id \in Nat /\ s.next_available_job_id \in Nat
        /\ s.next_available_job_client_id \in Nat /\ s.next_available_task_id \in Nat
        /\ DOMAIN s.datasets_by_id \subseteq Nat /\ DOMAIN s.jobs \subseteq Nat
        /\ DOMAIN s.jobs_for_client_ids \subseteq Nat /\ DOMAIN s.tasks \subseteq Nat
    BY Fields, MapIs
  <1>2. \A d \in DOMAIN r.datasets_by_id : d < r.next_available_dataset_id
    <2>1. CASE u.type = "register_dataset"
      <3>1. u.dataset_id \in Nat
        BY <2>1, UpdateFields
      <3>2. /\ DOMAIN r.datasets_by_id = DOMAIN s.datasets_by_id \cup {u.dataset_id}
            /\ r.next_available_dataset_id = Beyond(s.next_available_dataset_id, u.dataset_id)
        BY <2>1 DEF Effect, DataEffect, Put
      <3>3. DOMAIN s.datasets_by_id \subseteq Nat /\ s.next_available_dataset_id \in Nat /\ \A d \in DOMAIN s.datasets_by_id : d < s.next_available_dataset_id
        BY <1>1 DEF IdsInv
      <3>4. \A d \in DOMAIN s.datasets_by_id \cup {u.dataset_id} : d < Beyond(s.next_available_dataset_id, u.dataset_id)
        BY ONLY <3>1, <3>3, BeyondAll
      <3> QED BY <3>2, <3>4
    <2>2. CASE u.type # "register_dataset"
      BY <2>2 DEF Effect, DataEffect, IdsInv
    <2> QED BY <2>1, <2>2
  <1>3. \A j \in DOMAIN r.jobs : j < r.next_available_job_id
    <2>1. CASE u.type = "create_job"
      <3>1. u.job_id \in Nat
        BY <2>1, UpdateFields
      <3>2. /\ DOMAIN r.jobs = DOMAIN s.jobs \cup {u.job_id}
            /\ r.next_available_job_id = Beyond(s.next_available_job_id, u.job_id)
        BY <2>1 DEF Effect, JobsEffect
      <3>3. DOMAIN s.jobs \subseteq Nat /\ s.next_available_job_id \in Nat /\ \A j \in DOMAIN s.jobs : j < s.next_available_job_id
        BY <1>1 DEF IdsInv
      <3>4. \A j \in DOMAIN s.jobs \cup {u.job_id} : j < Beyond(s.next_available_job_id, u.job_id)
        BY ONLY <3>1, <3>3, BeyondAll
      <3> QED BY <3>2, <3>4
    <2>2. CASE u.type # "create_job"
      BY <2>2 DEF Effect, JobsEffect, IdsInv
    <2> QED BY <2>1, <2>2
  <1>4. \A c \in DOMAIN r.jobs_for_client_ids : c < r.next_available_job_client_id
    <2>1. CASE u.type = "acquire_job_client"
      <3>1. u.job_client_id \in Nat
        BY <2>1, UpdateFields
      <3>2. /\ DOMAIN r.jobs_for_client_ids = DOMAIN s.jobs_for_client_ids \cup {u.job_client_id}
            /\ r.next_available_job_client_id = Beyond(s.next_available_job_client_id, u.job_client_id)
        BY <2>1 DEF Effect, ClientsEffect, Put
      <3>3. DOMAIN s.jobs_for_client_ids \subseteq Nat /\ s.next_available_job_client_id \in Nat /\ \A c \in DOMAIN s.jobs_for_client_ids : c < s.next_available_job_client_id
        BY <1>1 DEF IdsInv
      <3>4. \A c \in DOMAIN s.jobs_for_client_ids \cup {u.job_client_id} : c < Beyond(s.next_available_job_client_id, u.job_client_id)
        BY ONLY <3>1, <3>3, BeyondAll
      <3> QED BY <3>2, <3>4
    <2>2. CASE u.type = "release_job_client"
      <3>1. /\ DOMAIN r.jobs_for_client_ids \subseteq DOMAIN s.jobs_for_client_ids
            /\ r.next_available_job_client_id = s.next_available_job_client_id
        BY <2>2 DEF Effect, ClientsEffect, Erase
      <3> QED BY <3>1 DEF IdsInv
    <2>3. CASE u.type \notin {"acquire_job_client", "release_job_client"}
      BY <2>3 DEF Effect, ClientsEffect, IdsInv
    <2> QED BY <2>1, <2>2, <2>3
  <1>5. \A t \in DOMAIN r.tasks : t < r.next_available_task_id
    <2>1. CASE u.type = "create_task"
      <3>1. u.task_id \in Nat
        BY <2>1, UpdateFields
      <3>2. /\ DOMAIN r.tasks = DOMAIN s.tasks \cup {u.task_id}
            /\ r.next_available_task_id = Beyond(s.next_available_task_id, u.task_id)
        BY <2>1 DEF Effect, TasksEffect
      <3>3. DOMAIN s.tasks \subseteq Nat /\ s.next_available_task_id \in Nat /\ \A t \in DOMAIN s.tasks : t < s.next_available_task_id
        BY <1>1 DEF IdsInv
      <3>4. \A t \in DOMAIN s.tasks \cup {u.task_id} : t < Beyond(s.next_available_task_id, u.task_id)
        BY ONLY <3>1, <3>3, BeyondAll
      <3> QED BY <3>2, <3>4
    <2>2. CASE u.type # "create_task"
      BY <2>2 DEF Effect, TasksEffect, IdsInv
    <2> QED BY <2>1, <2>2
  <1> QED BY <1>2, <1>3, <1>4, <1>5 DEF IdsInv

LEMMA ClientsKept ==
    ASSUME NEW s \in State, ClientsInv(s), NEW u \in Update, Applies(s, u), NEW r, Effect(r, s, u)
    PROVE  ClientsInv(r)
  <1>1. /\ IsFiniteSet(DOMAIN s.jobs_for_client_ids)
        /\ \A c \in DOMAIN s.jobs_for_client_ids : s.jobs_for_client_ids[c] \in DOMAIN s.jobs
        /\ \A j \in DOMAIN s.jobs : /\ s.jobs[j].num_clients = Cardinality(ClientsOf(s, j))
                                    /\ s.jobs[j].num_clients \in Nat
    BY JobNumbers DEF ClientsInv
  <1>2. ASSUME NEW j PROVE IsFiniteSet(ClientsOf(s, j))
    <2>1. ClientsOf(s, j) \subseteq DOMAIN s.jobs_for_client_ids
      BY DEF ClientsOf
    <2> QED BY <1>1, <2>1, FS_Subset
  <1>3. CASE u.type = "acquire_job_client"
    <2>1. /\ u.job_client_id \notin DOMAIN s.jobs_for_client_ids /\ u.job_id \in DOMAIN s.jobs
          /\ DOMAIN r.jobs = DOMAIN s.jobs
      BY <1>3 DEF Applies, Checks, Effect, JobsEffect
    <2>2. /\ DOMAIN r.jobs_for_client_ids = DOMAIN s.jobs_for_client_ids \cup {u.job_client_id}
          /\ r.jobs_for_client_ids[u.job_client_id] = u.job_id
          /\ \A c \in DOMAIN s.jobs_for_client_ids : r.jobs_for_client_ids[c] = s.jobs_for_client_ids[c]
      BY <1>3, <2>1 DEF Effect, ClientsEffect, Put
    <2>3. IsFiniteSet(DOMAIN r.jobs_for_client_ids)
      BY <1>1, <2>2, FS_AddElement
    <2>4. \A c \in DOMAIN r.jobs_for_client_ids : r.jobs_for_client_ids[c] \in DOMAIN r.jobs
      BY <1>1, <2>1, <2>2
    <2>5. ASSUME NEW j \in DOMAIN r.jobs
          PROVE  r.jobs[j].num_clients = Cardinality(ClientsOf(r, j))
      <3>1. r.jobs[j].num_clients = s.jobs[j].num_clients + Joins(s, u, j)
        BY <2>1 DEF Effect, JobsEffect
      <3>2. CASE j = u.job_id
        <4>1. ClientsOf(r, j) = ClientsOf(s, j) \cup {u.job_client_id}
          BY <2>1, <2>2, <3>2 DEF ClientsOf
        <4>2. u.job_client_id \notin ClientsOf(s, j)
          BY <2>1 DEF ClientsOf
        <4>3. Cardinality(ClientsOf(r, j)) = Cardinality(ClientsOf(s, j)) + 1
          BY <1>2, <4>1, <4>2, FS_AddElement
        <4>4. Joins(s, u, j) = 1
          BY <1>3, <3>2 DEF Joins
        <4> QED BY <1>1, <2>1, <3>1, <4>3, <4>4
      <3>3. CASE j # u.job_id
        <4>1. ClientsOf(r, j) = ClientsOf(s, j)
          BY <2>1, <2>2, <3>3 DEF ClientsOf
        <4>2. Joins(s, u, j) = 0
          BY <1>3, <3>3 DEF Joins
        <4> QED BY <1>1, <2>1, <3>1, <4>1, <4>2
      <3> QED BY <3>2, <3>3
    <2> QED BY <2>3, <2>4, <2>5 DEF ClientsInv
  <1>4. CASE u.type = "release_job_client"
    <2>1. u.job_client_id \in DOMAIN s.jobs_for_client_ids /\ DOMAIN r.jobs = DOMAIN s.jobs
      BY <1>4 DEF Applies, Checks, Effect, JobsEffect
    <2>2. /\ DOMAIN r.jobs_for_client_ids = DOMAIN s.jobs_for_client_ids \ {u.job_client_id}
          /\ \A c \in DOMAIN r.jobs_for_client_ids : r.jobs_for_client_ids[c] = s.jobs_for_client_ids[c]
      BY <1>4 DEF Effect, ClientsEffect, Erase
    <2>3. IsFiniteSet(DOMAIN r.jobs_for_client_ids)
      BY <1>1, <2>2, FS_RemoveElement
    <2>4. \A c \in DOMAIN r.jobs_for_client_ids : r.jobs_for_client_ids[c] \in DOMAIN r.jobs
      BY <1>1, <2>1, <2>2
    <2>5. ASSUME NEW j \in DOMAIN r.jobs
          PROVE  r.jobs[j].num_clients = Cardinality(ClientsOf(r, j))
      <3>1. r.jobs[j].num_clients = s.jobs[j].num_clients + Joins(s, u, j)
        BY <2>1 DEF Effect, JobsEffect
      <3>2. CASE j = s.jobs_for_client_ids[u.job_client_id]
        <4>1. ClientsOf(r, j) = ClientsOf(s, j) \ {u.job_client_id}
          BY <2>1, <2>2, <3>2 DEF ClientsOf
        <4>2. u.job_client_id \in ClientsOf(s, j)
          BY <2>1, <3>2 DEF ClientsOf
        <4>3. Cardinality(ClientsOf(r, j)) = Cardinality(ClientsOf(s, j)) - 1
          BY <1>2, <4>1, <4>2, FS_RemoveElement
        <4>4. Joins(s, u, j) = -1
          BY <1>4, <3>2 DEF Joins
        <4> QED BY <1>1, <2>1, <3>1, <4>3, <4>4
      <3>3. CASE j # s.jobs_for_client_ids[u.job_client_id]
        <4>1. ClientsOf(r, j) = ClientsOf(s, j)
          BY <2>1, <2>2, <3>3 DEF ClientsOf
        <4>2. Joins(s, u, j) = 0
          BY <1>4, <3>3 DEF Joins
        <4> QED BY <1>1, <2>1, <3>1, <4>1, <4>2
      <3> QED BY <3>2, <3>3
    <2> QED BY <2>3, <2>4, <2>5 DEF ClientsInv
  <1>5. CASE u.type \notin {"acquire_job_client", "release_job_client"}
    <2>1. r.jobs_for_client_ids = s.jobs_for_client_ids /\ DOMAIN s.jobs \subseteq DOMAIN r.jobs
      BY <1>5 DEF Effect, ClientsEffect, JobsEffect
    <2>2. \A j : ClientsOf(r, j) = ClientsOf(s, j)
      BY <2>1 DEF ClientsOf
    <2>3. ASSUME NEW j \in DOMAIN s.jobs
          PROVE  r.jobs[j].num_clients = Cardinality(ClientsOf(r, j))
      <3>1. r.jobs[j].num_clients = s.jobs[j].num_clients + Joins(s, u, j)
        BY DEF Effect, JobsEffect
      <3>2. Joins(s, u, j) = 0
        BY <1>5 DEF Joins
      <3> QED BY <1>1, <2>2, <3>1, <3>2
    <2>4. ASSUME u.type = "create_job"
          PROVE  r.jobs[u.job_id].num_clients = Cardinality(ClientsOf(r, u.job_id))
      <3>1. u.job_id \notin DOMAIN s.jobs /\ r.jobs[u.job_id].num_clients = 0
        BY <2>4 DEF Applies, Checks, Effect, JobsEffect
      <3>2. ClientsOf(r, u.job_id) = {}
        BY <1>1, <2>1, <3>1 DEF ClientsOf
      <3> QED BY <3>1, <3>2, FS_EmptySet
    <2>5. DOMAIN r.jobs = DOMAIN s.jobs \/ (u.type = "create_job" /\ DOMAIN r.jobs = DOMAIN s.jobs \cup {u.job_id})
      BY DEF Effect, JobsEffect
    <2>6. \A j \in DOMAIN r.jobs : r.jobs[j].num_clients = Cardinality(ClientsOf(r, j))
      BY <2>3, <2>4, <2>5
    <2> QED BY <1>1, <2>1, <2>6 DEF ClientsInv
  <1> QED BY <1>3, <1>4, <1>5

LEMMA UpdateKeeps ==
    ASSUME NEW s, StateInv(s), NEW u \in Update, Applies(s, u), NEW r, r = ApplyUpdate(s, u)
    PROVE  StateInv(r) /\ Effect(r, s, u)
  <1>1. r \in State /\ Effect(r, s, u) /\ TasksInv(r)
    <2>1. CASE u.type = "register_dataset"
      <3>1. r = RegisterDataset(s, u)
        BY <2>1 DEF ApplyUpdate
      <3> QED BY <2>1, <3>1, DatasetEffect
    <2>2. CASE u.type = "register_worker"
      <3>1. r = RegisterWorker(s, u)
        BY <2>2 DEF ApplyUpdate
      <3> QED BY <2>2, <3>1, WorkerEffect
    <2>3. CASE u.type = "create_job"
      <3>1. r = CreateJob(s, u)
        BY <2>3 DEF ApplyUpdate
      <3> QED BY <2>3, <3>1, JobEffect
    <2>4. CASE u.type = "produce_split"
      <3>1. r = ProduceSplit(s, u)
        BY <2>4 DEF ApplyUpdate
      <3> QED BY <2>4, <3>1, SplitEffect
    <2>5. CASE u.type = "acquire_job_client"
      <3>1. r = AcquireJobClient(s, u)
        BY <2>5 DEF ApplyUpdate
      <3> QED BY <2>5, <3>1, AcquireEffect
    <2>6. CASE u.type = "release_job_client"
      <3>1. r = ReleaseJobClient(s, u)
        BY <2>6 DEF ApplyUpdate
      <3> QED BY <2>6, <3>1, ReleaseEffect
    <2>7. CASE u.type = "create_task"
      <3>1. r = CreateTask(s, u)
        BY <2>7 DEF ApplyUpdate
      <3> QED BY <2>7, <3>1, TaskEffect
    <2>8. CASE u.type = "finish_task"
      <3>1. r = FinishTask(s, u)
        BY <2>8 DEF ApplyUpdate
      <3> QED BY <2>8, <3>1, FinishEffect
    <2> QED BY <2>1, <2>2, <2>3, <2>4, <2>5, <2>6, <2>7, <2>8, UpdateFields
  <1>2. IdsInv(r) /\ ClientsInv(r)
    BY <1>1, IdsKept, ClientsKept DEF StateInv
  <1> QED BY <1>1, <1>2 DEF StateInv

-----------------------------------------------------------------------------
(* States that agree accept the same updates and still agree after them.   *)

LEMMA AgreeApplies ==
    ASSUME NEW a, NEW b, Agree(a, b), StateInv(a), NEW u \in Update, Applies(a, u)
    PROVE  Applies(b, u)
  <1>1. Checks(b, u)
    <2>0. Checks(a, u)
      BY DEF Applies
    <2>1. CASE u.type = "register_dataset"
      BY <2>0, <2>1 DEF Checks, Agree
    <2>2. CASE u.type = "register_worker"
      BY <2>0, <2>2 DEF Checks, Agree
    <2>3. CASE u.type = "create_job"
      BY <2>0, <2>3 DEF Checks, Agree
    <2>4. CASE u.type = "produce_split"
      <3>1. u.job_id \in DOMAIN a.jobs
        BY <2>4 DEF Applies
      <3> QED BY <2>0, <2>4, <3>1 DEF Checks, Agree
    <2>5. CASE u.type = "acquire_job_client"
      BY <2>0, <2>5 DEF Checks, Agree
    <2>6. CASE u.type = "release_job_client"
      <3>1. /\ u.job_client_id \in DOMAIN a.jobs_for_client_ids
            /\ a.jobs[a.jobs_for_client_ids[u.job_client_id]].num_clients > 0
        BY <2>0, <2>6 DEF Checks
      <3>2. a.jobs_for_client_ids[u.job_client_id] \in DOMAIN a.jobs
        BY <3>1 DEF StateInv, ClientsInv
      <3> QED BY <2>6, <3>1, <3>2 DEF Checks, Agree
    <2>7. CASE u.type = "create_task"
      BY <2>0, <2>7 DEF Checks, Agree
    <2>8. CASE u.type = "finish_task"
      BY <2>0, <2>8 DEF Checks, Agree
    <2> QED BY <2>1, <2>2, <2>3, <2>4, <2>5, <2>6, <2>7, <2>8, UpdateFields
  <1> QED BY <1>1 DEF Applies, Agree

LEMMA AgreeKept ==
    ASSUME NEW a, NEW b, Agree(a, b), NEW u, NEW c, NEW d, Effect(c, a, u), Effect(d, b, u)
    PROVE  Agree(c, d)
  <1>1. /\ c.datasets_by_id = d.datasets_by_id
        /\ c.next_available_dataset_id = d.next_available_dataset_id
    BY DEF Agree, Effect, DataEffect
  <1>2. /\ c.jobs_for_client_ids = d.jobs_for_client_ids
        /\ c.next_available_job_client_id = d.next_available_job_client_id
    BY DEF Agree, Effect, ClientsEffect
  <1>3. DOMAIN c.jobs = DOMAIN d.jobs /\ c.next_available_job_id = d.next_available_job_id
    BY DEF Agree, Effect, JobsEffect
  <1>4. ASSUME NEW j \in DOMAIN c.jobs
        PROVE  /\ c.jobs[j].processing_mode = d.jobs[j].processing_mode
               /\ c.jobs[j].named_job_key = d.jobs[j].named_job_key
               /\ c.jobs[j].repetition = d.jobs[j].repetition
               /\ c.jobs[j].num_clients = d.jobs[j].num_clients
    <2>1. CASE j \in DOMAIN a.jobs
      <3>1. Joins(a, u, j) = Joins(b, u, j) /\ j \in DOMAIN b.jobs
        BY <2>1 DEF Joins, Agree
      <3>2. /\ c.jobs[j].processing_mode = a.jobs[j].processing_mode
            /\ c.jobs[j].named_job_key = a.jobs[j].named_job_key
            /\ c.jobs[j].repetition = a.jobs[j].repetition + Repeats(u, j)
            /\ c.jobs[j].num_clients = a.jobs[j].num_clients + Joins(a, u, j)
        BY <2>1 DEF Effect, JobsEffect
      <3>3. /\ d.jobs[j].processing_mode = b.jobs[j].processing_mode
            /\ d.jobs[j].named_job_key = b.jobs[j].named_job_key
            /\ d.jobs[j].repetition = b.jobs[j].repetition + Repeats(u, j)
            /\ d.jobs[j].num_clients = b.jobs[j].num_clients + Joins(b, u, j)
        BY <3>1 DEF Effect, JobsEffect
      <3>4. /\ a.jobs[j].processing_mode = b.jobs[j].processing_mode
            /\ a.jobs[j].named_job_key = b.jobs[j].named_job_key
            /\ a.jobs[j].repetition = b.jobs[j].repetition
            /\ a.jobs[j].num_clients = b.jobs[j].num_clients
        BY <2>1 DEF Agree
      <3> QED BY <3>1, <3>2, <3>3, <3>4
    <2>2. CASE j \notin DOMAIN a.jobs
      <3>1. u.type = "create_job" /\ j = u.job_id
        BY <2>2 DEF Effect, JobsEffect
      <3> QED BY <3>1 DEF Effect, JobsEffect
    <2> QED BY <2>1, <2>2
  <1>5. /\ DOMAIN c.tasks_by_worker = DOMAIN d.tasks_by_worker /\ DOMAIN c.tasks = DOMAIN d.tasks
        /\ c.next_available_task_id = d.next_available_task_id
    BY DEF Agree, Effect, TasksEffect
  <1>6. ASSUME NEW t \in DOMAIN c.tasks
        PROVE  /\ c.tasks[t].job_id = d.tasks[t].job_id
               /\ c.tasks[t].worker_address = d.tasks[t].worker_address
    <2>1. CASE t \in DOMAIN a.tasks
      BY <2>1 DEF Agree, Effect, TasksEffect
    <2>2. CASE t \notin DOMAIN a.tasks
      <3>1. u.type = "create_task" /\ t = u.task_id
        BY <2>2 DEF Effect, TasksEffect
      <3> QED BY <3>1 DEF Effect, TasksEffect
    <2> QED BY <2>1, <2>2
  <1> QED BY <1>1, <1>2, <1>3, <1>4, <1>5, <1>6 DEF Agree

LEMMA AgreeFollows ==
    ASSUME NEW a, NEW b, NEW c, Agree(a, b), Agree(b, c)
    PROVE  Agree(a, c)
  BY DEF Agree

LEMMA AgreeSelf == ASSUME NEW a PROVE Agree(a, a)
  BY DEF Agree

(* Garbage collection.                                                     *)
LEMMA CollectKeeps ==
    ASSUME NEW s, StateInv(s), NEW j \in DOMAIN s.jobs,
           NEW r, r = ApplyUpdate(s, [type |-> "garbage_collect_job", job_id |-> j])
    PROVE  StateInv(r) /\ Agree(r, s)
  <1>0. PICK u : u = [type |-> "garbage_collect_job", job_id |-> j]
    OBVIOUS
  <1>1. r = GarbageCollectJob(s, u) /\ j = u.job_id
    BY <1>0 DEF ApplyUpdate
  <1>2. PICK mine : mine = s.tasks_by_job[j]
    OBVIOUS
  <1>3. s \in State /\ IdsInv(s) /\ ClientsInv(s) /\ TasksInv(s)
    BY DEF StateInv
  <1>4. PICK job \in Job : JobCollected(r, s, j, mine, job)
    BY <1>1, <1>2, <1>3, GarbageCollectJobIs
  <1> USE DEF JobCollected
  <1>5. /\ DOMAIN r.jobs = DOMAIN s.jobs /\ r.jobs[j] = job
        /\ \A k \in DOMAIN s.jobs \ {j} : r.jobs[k] = s.jobs[k]
    <2>1. s.jobs \in Map(Nat, Job)
      BY <1>3, Fields
    <2> QED BY <1>4, <2>1, ChangeIs
  <1>6. \A k \in DOMAIN s.jobs : /\ r.jobs[k].processing_mode = s.jobs[k].processing_mode
                                 /\ r.jobs[k].named_job_key = s.jobs[k].named_job_key
                                 /\ r.jobs[k].repetition = s.jobs[k].repetition
                                 /\ r.jobs[k].num_clients = s.jobs[k].num_clients
    BY <1>4, <1>5
  <1>7. Agree(r, s)
    BY <1>4, <1>5, <1>6 DEF Agree, SameData, SameClients
  <1>8. IdsInv(r)
    BY <1>3, <1>4, <1>5 DEF IdsInv, SameData, SameClients
  <1>9. ClientsInv(r)
    <2>1. r.jobs_for_client_ids = s.jobs_for_client_ids
      BY <1>4 DEF SameClients
    <2>2. \A k : ClientsOf(r, k) = ClientsOf(s, k)
      BY <2>1 DEF ClientsOf
    <2> QED BY <1>3, <1>5, <1>6, <2>1, <2>2 DEF ClientsInv
  <1>10. TasksInv(r)
    <2>1. ASSUME NEW t \in DOMAIN r.tasks
          PROVE  /\ r.tasks[t].job_id \in DOMAIN r.jobs
                 /\ r.tasks[t].worker_address \in DOMAIN r.tasks_by_worker
                 /\ r.tasks[t].finished \/ t \in r.tasks_by_worker[r.tasks[t].worker_address]
      <3>1. /\ t \in DOMAIN s.tasks /\ r.tasks[t].job_id = s.tasks[t].job_id
            /\ r.tasks[t].worker_address = s.tasks[t].worker_address
            /\ r.tasks[t].finished = (s.tasks[t].finished \/ t \in mine)
        BY <1>4, <2>1
      <3>2. /\ s.tasks[t].job_id \in DOMAIN s.jobs
            /\ s.tasks[t].worker_address \in DOMAIN s.tasks_by_worker
            /\ s.tasks[t].finished \/ t \in s.tasks_by_worker[s.tasks[t].worker_address]
        BY <1>3, <3>1 DEF TasksInv
      <3>3. /\ DOMAIN r.tasks_by_worker = DOMAIN s.tasks_by_worker
            /\ \A w \in DOMAIN s.tasks_by_worker : r.tasks_by_worker[w] = s.tasks_by_worker[w] \ mine
        BY <1>4
      <3> QED BY <1>5, <3>1, <3>2, <3>3
    <2>2. \A w \in DOMAIN r.tasks_by_worker : \A t \in r.tasks_by_worker[w] :
             t \in DOMAIN r.tasks /\ r.tasks[t].worker_address = w
      BY <1>3, <1>4 DEF TasksInv
    <2>3. DOMAIN r.tasks_by_job = DOMAIN r.jobs
          /\ \A k \in DOMAIN r.tasks_by_job : r.tasks_by_job[k] \subseteq DOMAIN r.tasks
      BY <1>3, <1>4, <1>5 DEF TasksInv
    <2> QED BY <2>1, <2>2, <2>3 DEF TasksInv
  <1> QED BY <1>4, <1>7, <1>8, <1>9, <1>10 DEF StateInv

-----------------------------------------------------------------------------
(* The updates of a handler: the first can be applied, and then the rest   *)
(* are as the state that it leaves needs them.                             *)

LEMMA EmptyTodo == ASSUME NEW s PROVE TodoInv(s, <<>>)
  <1>1. <<>> \in Seq(Update) /\ Len(<<>>) = 0
    BY EmptySeq
  <1> QED BY <1>1 DEF TodoInv

LEMMA FirstOfTodo ==
    ASSUME NEW s, NEW q, q \in Seq(Update), q # <<>>
    PROVE  Len(q) \in Nat /\ 1 \in 1 .. Len(q) /\ q[1] = Head(q) /\ Head(q) \in Update
  OBVIOUS

LEMMA TodoApplies ==
    ASSUME NEW s, NEW q, TodoInv(s, q), q # <<>>
    PROVE  Head(q) \in Update /\ Applies(s, Head(q))
  <1>1. q \in Seq(Update) /\ Checks(s, Head(q)) /\ \A i \in 1 .. Len(q) : UpdateOK(s, q, i)
    BY DEF TodoInv
  <1>2. 1 \in 1 .. Len(q) /\ q[1] = Head(q) /\ Head(q) \in Update
    BY <1>1, FirstOfTodo
  <1>3. UpdateOK(s, q, 1)
    BY <1>1, <1>2
  <1>4. q[1].type = "produce_split" => q[1].job_id \in DOMAIN s.jobs
    BY <1>3 DEF UpdateOK
  <1>5. q[1].type = "create_task" => q[1].worker_address \in DOMAIN s.tasks_by_worker
    BY <1>3 DEF UpdateOK
  <1> QED BY <1>1, <1>2, <1>4, <1>5 DEF Applies

LEMMA LaterChecks ==
    ASSUME NEW s \in State, IdsInv(s), NEW q, q \in Seq(Update), q # <<>>, UpdateOK(s, q, 1),
           Head(q).type \in {"acquire_job_client", "create_task", "finish_task"}
    PROVE  Checks(s, Head(q))
  <1>1. q[1] = Head(q) /\ Head(q) \in Update
    BY FirstOfTodo
  <1>2. CASE Head(q).type = "acquire_job_client"
    <2>1. /\ Head(q).job_client_id >= s.next_available_job_client_id /\ Head(q).job_id \in DOMAIN s.jobs
      BY <1>1, <1>2 DEF UpdateOK
    <2>2. Head(q).job_client_id \in Nat /\ s.next_available_job_client_id \in Nat
          /\ DOMAIN s.jobs_for_client_ids \subseteq Nat
      BY <1>1, <1>2, UpdateFields, Fields, MapIs
    <2>3. Head(q).job_client_id \notin DOMAIN s.jobs_for_client_ids
      BY <2>1, <2>2 DEF IdsInv
    <2> QED BY <1>2, <2>1, <2>3 DEF Checks
  <1>3. CASE Head(q).type = "create_task"
    <2>1. /\ Head(q).task_id >= s.next_available_task_id /\ Head(q).job_id \in DOMAIN s.jobs
      BY <1>1, <1>3 DEF UpdateOK
    <2>2. Head(q).task_id \in Nat /\ s.next_available_task_id \in Nat /\ DOMAIN s.tasks \subseteq Nat
      BY <1>1, <1>3, UpdateFields, Fields, MapIs
    <2>3. Head(q).task_id \notin DOMAIN s.tasks
      BY <2>1, <2>2 DEF IdsInv
    <2> QED BY <1>3, <2>1, <2>3 DEF Checks
  <1>4. CASE Head(q).type = "finish_task"
    BY <1>1, <1>4 DEF Checks, UpdateOK
  <1> QED BY <1>2, <1>3, <1>4

LEMMA TodoTail ==
    ASSUME NEW s, StateInv(s), NEW q, TodoInv(s, q), q # <<>>, NEW r, StateInv(r),
           Effect(r, s, Head(q))
    PROVE  TodoInv(r, Tail(q)) /\ (Tail(q) # <<>> => Head(Tail(q)).type # "register_dataset")
  <1>1. q \in Seq(Update) /\ \A i \in 1 .. Len(q) : UpdateOK(s, q, i)
    BY DEF TodoInv
  <1>2. PICK u \in Update : u = Head(q) /\ u = q[1]
    BY <1>1, FirstOfTodo
  <1>3. PICK p : p = Tail(q)
    OBVIOUS
  <1>4. p \in Seq(Update) /\ Len(p) \in Nat /\ Len(q) = Len(p) + 1
        /\ \A i \in 1 .. Len(p) : p[i] = q[i + 1]
    BY <1>1, <1>3
  <1>5. s \in State /\ r \in State /\ IdsInv(r) /\ Effect(r, s, u)
    BY <1>2 DEF StateInv
  <1>6. ASSUME NEW i \in 1 .. Len(p)
        PROVE  UpdateOK(r, p, i) /\ p[i].type \in {"acquire_job_client", "create_task", "finish_task"}
    <2>1. i + 1 \in 1 .. Len(q) /\ p[i] = q[i + 1] /\ i + 1 # 1 /\ i + 1 > 1
      BY <1>4, <1>6
    <2>2. PICK v \in Update : v = p[i] /\ v = q[i + 1]
      BY <1>4, <2>1
    <2>3. UpdateOK(s, q, i + 1)
      BY <1>1, <2>1
    <2>4. v.type \in {"acquire_job_client", "create_task", "finish_task"}
      BY <2>1, <2>2, <2>3 DEF UpdateOK
    <2>5. ASSUME v.type = "acquire_job_client"
          PROVE  v.job_client_id >= r.next_available_job_client_id /\ i = 1
      <3>1. v.job_client_id >= s.next_available_job_client_id /\ i + 1 = 2 /\ u.type = "create_job"
        BY <1>2, <2>1, <2>2, <2>3, <2>5 DEF UpdateOK
      <3>2. r.next_available_job_client_id = s.next_available_job_client_id
        BY <1>5, <3>1 DEF Effect, ClientsEffect
      <3> QED BY <1>6, <3>1, <3>2
    <2>6. ASSUME v.type \in {"acquire_job_client", "create_task"}
          PROVE  v.job_id \in DOMAIN r.jobs
      <3>1. v.job_id \in DOMAIN s.jobs \/ (u.type = "create_job" /\ u.job_id = v.job_id)
        BY <1>2, <2>2, <2>3, <2>6 DEF UpdateOK
      <3> QED BY <1>5, <3>1 DEF Effect, JobsEffect
    <2>7. ASSUME v.type = "create_task"
          PROVE  /\ v.task_id >= r.next_available_task_id
                 /\ v.worker_address \in DOMAIN r.tasks_by_worker
                 /\ \A k \in 1 .. i - 1 : p[k].type = "create_task" => p[k].task_id < v.task_id
      <3>1. /\ v.task_id >= s.next_available_task_id
            /\ \/ v.worker_address \in DOMAIN s.tasks_by_worker
               \/ u.type = "register_worker" /\ u.worker_address = v.worker_address
            /\ \A k \in 1 .. (i + 1) - 1 : q[k].type = "create_task" => q[k].task_id < v.task_id
        BY ONLY <1>2, <2>2, <2>3, <2>7, Zenon DEF UpdateOK
      <3>2. v.worker_address \in DOMAIN r.tasks_by_worker
        BY <1>5, <3>1 DEF Effect, TasksEffect
      <3>3. v.task_id \in Nat /\ s.next_available_task_id \in Nat
        BY <1>5, <2>7, UpdateFields, Fields
      <3>4. v.task_id >= r.next_available_task_id
        <4>1. CASE u.type = "create_task"
          <5>1. 1 \in 1 .. (i + 1) - 1
            BY <1>6
          <5>2. u.task_id < v.task_id /\ u.task_id \in Nat
            BY <1>2, <3>1, <4>1, <5>1, UpdateFields
          <5>3. r.next_available_task_id = Beyond(s.next_available_task_id, u.task_id)
            BY <1>5, <4>1 DEF Effect, TasksEffect
          <5>4. r.next_available_task_id = s.next_available_task_id
                \/ r.next_available_task_id = u.task_id + 1
            BY <3>3, <5>2, <5>3, BeyondIs
          <5> QED BY <3>1, <3>3, <5>2, <5>4
        <4>2. CASE u.type # "create_task"
          BY <1>5, <3>1, <4>2 DEF Effect, TasksEffect
        <4> QED BY <4>1, <4>2
      <3>5. ASSUME NEW k \in 1 .. i - 1, p[k].type = "create_task" PROVE p[k].task_id < v.task_id
        <4>1. k \in 1 .. Len(p) /\ k + 1 \in 1 .. (i + 1) - 1
          BY <1>4, <1>6
        <4>2. p[k] = q[k + 1]
          BY <1>4, <4>1
        <4> QED BY <3>1, <3>5, <4>1, <4>2
      <3> QED BY <3>2, <3>4, <3>5
    <2>8. ASSUME v.type = "finish_task" PROVE v.task_id \in DOMAIN r.tasks
      <3>1. v.task_id \in DOMAIN s.tasks
        BY <2>2, <2>3, <2>8 DEF UpdateOK
      <3> QED BY <1>5, <3>1 DEF Effect, TasksEffect
    <2>9. UpdateOK(r, p, i)
      BY <2>2, <2>4, <2>5, <2>6, <2>7, <2>8 DEF UpdateOK
    <2> QED BY <2>2, <2>4, <2>9
  <1>7. ASSUME p # <<>>
        PROVE  Checks(r, Head(p)) /\ Head(p).type \in {"acquire_job_client", "create_task", "finish_task"}
    <2>1. 1 \in 1 .. Len(p) /\ p[1] = Head(p)
      BY <1>4, <1>7, FirstOfTodo
    <2>2. UpdateOK(r, p, 1) /\ Head(p).type \in {"acquire_job_client", "create_task", "finish_task"}
      BY <1>6, <2>1
    <2> QED BY <1>4, <1>5, <1>7, <2>2, LaterChecks
  <1>8. TodoInv(r, p)
    BY <1>4, <1>6, <1>7 DEF TodoInv
  <1>9. p # <<>> => Head(p).type # "register_dataset"
    BY <1>7
  <1> QED BY <1>3, <1>8, <1>9

(* What a worker knows of its tasks stays true.                            *)
LEMMA WorkerKept ==
    ASSUME NEW s, StateInv(s), NEW r, NEW u, Effect(r, s, u), NEW w, NEW a, WorkerOK(s, w, a)
    PROVE  /\ WorkerOK(r, w, a)
           /\ \A t \in DOMAIN a.repetition :
                 t \in DOMAIN s.tasks /\ (s.tasks[t].finished => r.tasks[t].finished)
  <1>1. ASSUME NEW t \in DOMAIN a.repetition
        PROVE  /\ t \in DOMAIN r.tasks /\ r.tasks[t].worker_address = w
               /\ a.repetition[t] <= r.jobs[r.tasks[t].job_id].repetition
               /\ t \in DOMAIN s.tasks /\ (s.tasks[t].finished => r.tasks[t].finished)
    <2>1. /\ t \in DOMAIN s.tasks /\ s.tasks[t].worker_address = w
          /\ a.repetition[t] <= s.jobs[s.tasks[t].job_id].repetition
      BY DEF WorkerOK
    <2>2. PICK k \in DOMAIN s.jobs : k = s.tasks[t].job_id
      BY <2>1 DEF StateInv, TasksInv
    <2>3. /\ t \in DOMAIN r.tasks /\ r.tasks[t].worker_address = w /\ r.tasks[t].job_id = k
          /\ s.tasks[t].finished => r.tasks[t].finished
      BY <2>1, <2>2 DEF Effect, TasksEffect
    <2>4. r.jobs[k].repetition = s.jobs[k].repetition + Repeats(u, k)
      BY <2>2 DEF Effect, JobsEffect
    <2>5. s.jobs[k].repetition \in Nat /\ Repeats(u, k) \in {0, 1}
      BY <2>2, JobNumbers DEF StateInv, Repeats
    <2>6. a.repetition[t] \in Nat
      <3>1. a.repetition \in Map(Nat, Nat)
        BY DEF WorkerOK, Worker
      <3> QED BY <3>1, MapIs
    <2>7. a.repetition[t] <= r.jobs[k].repetition
      BY <2>1, <2>2, <2>4, <2>5, <2>6
    <2> QED BY <2>1, <2>3, <2>7
  <1> QED BY <1>1 DEF WorkerOK

-----------------------------------------------------------------------------
(* The handler that runs.                                                  *)

LEMMA IdleHandler ==
    ASSUME NEW s
    PROVE  Idle.todo = <<>> /\ HandlerInv(s, Idle) /\ TodoInv(s, Idle.todo)
  <1>1. Idle.todo = <<>> /\ Idle.handler = "none" /\ DOMAIN Idle = {"handler", "todo"}
    BY DEF Idle
  <1>2. HandlerInv(s, Idle)
    BY <1>1 DEF HandlerInv
  <1> QED BY <1>1, <1>2, EmptyTodo

LEMMA HandlerTail ==
    ASSUME NEW s, StateInv(s), NEW o, HandlerInv(s, o), TodoInv(s, o.todo), o.todo # <<>>,
           NEW r, Effect(r, s, Head(o.todo)), NEW p, p = [o EXCEPT !.todo = Tail(o.todo)]
    PROVE  HandlerInv(r, p) /\ p.todo = Tail(o.todo)
  <1>0. {"handler", "todo"} \subseteq DOMAIN o
    BY DEF HandlerInv
  <1>1. /\ p.todo = Tail(o.todo) /\ DOMAIN p = DOMAIN o /\ p.handler = o.handler
        /\ "worker" \in DOMAIN o => p.worker = o.worker
        /\ "task" \in DOMAIN o => p.task = o.task
        /\ "job" \in DOMAIN o => p.job = o.job
        /\ "repetition" \in DOMAIN o => p.repetition = o.repetition
        /\ "end" \in DOMAIN o => p.end = o.end
    BY <1>0
  <1>2. PICK u \in Update : u = Head(o.todo) /\ u = o.todo[1]
    BY FirstOfTodo DEF TodoInv
  <1>3. s \in State /\ Effect(r, s, u) /\ Applies(s, u) /\ UpdateOK(s, o.todo, 1)
    BY <1>2, TodoApplies, FirstOfTodo DEF StateInv, TodoInv
  <1>4. ASSUME o.handler = "create_job" PROVE r.next_available_job_id - 1 \in DOMAIN r.jobs
    <2>1. CASE u.type = "create_job"
      <3>1. u.job_id = s.next_available_job_id /\ s.next_available_job_id \in Nat
        BY <1>2, <1>3, <2>1, Fields DEF UpdateOK
      <3>2. r.next_available_job_id = Beyond(s.next_available_job_id, u.job_id) /\ u.job_id \in DOMAIN r.jobs
        BY <1>3, <2>1 DEF Effect, JobsEffect
      <3>3. r.next_available_job_id = u.job_id + 1 /\ u.job_id \in Nat
        BY <3>1, <3>2, BeyondIs
      <3>4. r.next_available_job_id - 1 = u.job_id
        BY <3>3
      <3> QED BY <3>2, <3>4
    <2>2. CASE u.type # "create_job"
      <3>1. s.next_available_job_id - 1 \in DOMAIN s.jobs
        BY <1>2, <1>4, <2>2 DEF HandlerInv
      <3> QED BY <1>3, <2>2, <3>1 DEF Effect, JobsEffect
    <2> QED BY <2>1, <2>2
  <1>5. ASSUME o.handler = "worker_heartbeat"
        PROVE  "worker" \in DOMAIN o /\ o.worker \in Workers /\ o.worker \in DOMAIN r.tasks_by_worker
    <2>1. /\ "worker" \in DOMAIN o /\ o.worker \in Workers
          /\ o.worker \in DOMAIN s.tasks_by_worker
             \/ (u.type = "register_worker" /\ u.worker_address = o.worker)
      BY <1>2, <1>5 DEF HandlerInv
    <2> QED BY <1>3, <2>1 DEF Effect, TasksEffect
  <1>6. ASSUME o.handler = "get_split"
        PROVE  /\ {"worker", "task", "job", "repetition", "split", "end", "stale"} \subseteq DOMAIN o
               /\ SplitInv(r, p)
    <2>1. /\ {"worker", "task", "job", "repetition", "split", "end", "stale"} \subseteq DOMAIN o
          /\ SplitInv(s, o)
      BY <1>6 DEF HandlerInv
    <2>2. /\ o.task \in DOMAIN s.tasks /\ o.job = s.tasks[o.task].job_id
          /\ o.worker \in Workers /\ o.repetition \in Nat
          /\ o.todo = <<[type |-> "produce_split", job_id |-> o.job,
                         finished |-> o.end, repetition |-> o.repetition]>>
      BY <2>1 DEF SplitInv
    <2>3. Tail(o.todo) = <<>>
      BY <2>2
    <2>4. u.type = "produce_split" /\ u.job_id = o.job /\ u.finished = o.end /\ u.repetition = o.repetition
      BY <1>2, <2>2
    <2>5. o.job \in DOMAIN s.jobs /\ o.repetition = s.jobs[o.job].repetition
      BY <1>3, <2>4 DEF Applies, Checks
    <2>6. o.task \in DOMAIN r.tasks /\ o.job = r.tasks[o.task].job_id
      BY <1>3, <2>2 DEF Effect, TasksEffect
    <2>7. r.jobs[o.job].repetition = s.jobs[o.job].repetition + Repeats(u, o.job)
      BY <1>3, <2>5 DEF Effect, JobsEffect
    <2>8. o.end => Repeats(u, o.job) = 1
      BY <2>4 DEF Repeats
    <2>9. ASSUME o.end PROVE o.repetition < r.jobs[o.job].repetition
      <3>1. Repeats(u, o.job) = 1 /\ o.repetition \in Nat
        BY <2>2, <2>8, <2>9
      <3>2. r.jobs[o.job].repetition = o.repetition + 1
        BY <2>5, <2>7, <3>1
      <3> QED BY <3>1, <3>2
    <2>10. /\ p.task = o.task /\ p.job = o.job /\ p.repetition = o.repetition /\ p.end = o.end
           /\ p.worker = o.worker /\ p.todo = <<>>
      BY <1>1, <2>1, <2>3
    <2>11. SplitInv(r, p)
      BY <2>2, <2>6, <2>9, <2>10 DEF SplitInv
    <2> QED BY <2>1, <2>11
  <1>7. o.handler = "worker_update" => {"worker", "completed"} \subseteq DOMAIN o /\ o.worker \in Workers
    BY DEF HandlerInv
  <1>8. HandlerInv(r, p)
    BY <1>0, <1>1, <1>4, <1>5, <1>6, <1>7 DEF HandlerInv
  <1> QED BY <1>1, <1>8

LEMMA StoreTail ==
    ASSUME NEW s, NEW store, NEW q, StoreInv(s, store, q), q # <<>>, NEW r, Effect(r, s, Head(q)),
           NEW p, p # <<>> => Head(p).type # "register_dataset"
    PROVE  StoreInv(r, store, p)
  <1>1. PICK u : u = Head(q)
    OBVIOUS
  <1>2. CASE u.type = "register_dataset"
    <2>1. /\ DOMAIN r.datasets_by_id = DOMAIN s.datasets_by_id \cup {u.dataset_id}
          /\ r.datasets_by_id[u.dataset_id] = u.fingerprint
          /\ \A d \in DOMAIN s.datasets_by_id \ {u.dataset_id} : r.datasets_by_id[d] = s.datasets_by_id[d]
      BY <1>1, <1>2 DEF Effect, DataEffect, Put
    <2> QED BY <1>1, <1>2, <2>1 DEF StoreInv
  <1>3. CASE u.type # "register_dataset"
    BY <1>1, <1>3 DEF StoreInv, Effect, DataEffect
  <1> QED BY <1>2, <1>3

(* Apply: the records and the state get the same update.                   *)
LEMMA ApplyKeeps == ASSUME ServiceInv, Apply PROVE ServiceInv'
  <1>1. PICK u : u = Head(op.todo)
    OBVIOUS
  <1>2. /\ started_ /\ op.todo # <<>> /\ acked' = ApplyUpdate(acked, u)
        /\ state_' = ApplyUpdate(state_, u)
        /\ op' = Idle \/ op' = [op EXCEPT !.todo = Tail(op.todo)]
    BY <1>1 DEF Apply, Write
  <1>3. /\ started_' = started_ /\ dataset_store_' = dataset_store_ /\ assigning' = assigning
        /\ worker' = worker /\ faults' = faults
    BY DEF Apply, faultVars, journalVars
  <1>4. /\ StateInv(state_) /\ StateInv(acked) /\ TodoInv(state_, op.todo)
        /\ HandlerInv(state_, op) /\ StoreInv(acked, dataset_store_, op.todo)
        /\ Agree(state_, acked) /\ ("gc" \notin faults => state_ = acked)
        /\ \A T \in assigning : T \subseteq DOMAIN state_.tasks
    BY <1>2 DEF ServiceInv, DispatcherInv
  <1>5. u \in Update /\ Applies(state_, u)
    BY <1>1, <1>2, <1>4, TodoApplies
  <1>6. Applies(acked, u)
    BY <1>4, <1>5, AgreeApplies
  <1>7. StateInv(state_') /\ Effect(state_', state_, u)
    BY <1>2, <1>4, <1>5, UpdateKeeps
  <1>8. StateInv(acked') /\ Effect(acked', acked, u)
    BY <1>2, <1>4, <1>5, <1>6, UpdateKeeps
  <1>9. Agree(state_', acked') /\ ("gc" \notin faults => state_' = acked')
    BY <1>2, <1>4, <1>7, <1>8, AgreeKept
  <1>10. TodoInv(state_', Tail(op.todo)) /\ (Tail(op.todo) # <<>> => Head(Tail(op.todo)).type # "register_dataset")
    BY <1>1, <1>2, <1>4, <1>7, TodoTail
  <1>11. /\ TodoInv(state_', op'.todo) /\ HandlerInv(state_', op')
         /\ op'.todo # <<>> => Head(op'.todo).type # "register_dataset"
    <2>1. CASE op' = Idle
      BY <2>1, IdleHandler
    <2>2. CASE op' = [op EXCEPT !.todo = Tail(op.todo)]
      <3>1. HandlerInv(state_', op') /\ op'.todo = Tail(op.todo)
        BY <1>1, <1>2, <1>4, <1>7, <2>2, HandlerTail
      <3> QED BY <1>10, <3>1
    <2> QED BY <1>2, <2>1, <2>2
  <1>12. StoreInv(acked', dataset_store_', op'.todo)
    BY <1>1, <1>2, <1>3, <1>4, <1>8, <1>11, StoreTail
  <1>13. \A T \in assigning' : T \subseteq DOMAIN state_'.tasks
    <2>1. DOMAIN state_.tasks \subseteq DOMAIN state_'.tasks
      BY <1>7 DEF Effect, TasksEffect
    <2> QED BY <1>3, <1>4, <2>1
  <1>14. DispatcherInv'
    BY <1>2, <1>3, <1>7, <1>8, <1>9, <1>11, <1>12, <1>13 DEF DispatcherInv
  <1>15. ASSUME NEW w \in Workers
         PROVE  /\ WorkerOK(acked', w, worker[w])
                /\ \A t \in DOMAIN worker[w].repetition :
                      t \in DOMAIN acked.tasks /\ (acked.tasks[t].finished => acked'.tasks[t].finished)
    <2>1. WorkerOK(acked, w, worker[w])
      BY DEF ServiceInv, WorkersInv
    <2> QED BY <1>4, <1>8, <2>1, WorkerKept
  <1>16. WorkersInv'
    BY <1>3, <1>15 DEF ServiceInv, WorkersInv
  <1>17. NoTaskDropped'
    BY <1>3, <1>15 DEF ServiceInv, NoTaskDropped
  <1> QED BY <1>14, <1>16, <1>17 DEF ServiceInv

-----------------------------------------------------------------------------
(* The updates that a handler starts with.                                 *)

LEMMA HandlerStarts ==
    ASSUME ServiceInv, started_,
           UNCHANGED <<started_, state_, acked, assigning, worker, faults>>,
           TodoInv(state_, op'.todo), HandlerInv(state_, op'),
           StoreInv(acked, dataset_store_', op'.todo)
    PROVE  ServiceInv'
  <1>1. DispatcherInv'
    BY DEF ServiceInv, DispatcherInv
  <1>2. WorkersInv' /\ NoTaskDropped'
    BY DEF ServiceInv, WorkersInv, NoTaskDropped
  <1> QED BY <1>1, <1>2 DEF ServiceInv

LEMMA StoreStarts ==
    ASSUME NEW s, NEW store, NEW q, StoreInv(s, store, q),
           NEW p, p # <<>> => Head(p).type # "register_dataset"
    PROVE  StoreInv(s, store, p)
  BY DEF StoreInv

LEMMA OneUpdate ==
    ASSUME NEW s, NEW u \in Update, Applies(s, u),
           u.type \in {"register_dataset", "produce_split", "release_job_client", "acquire_job_client"},
           u.type = "acquire_job_client" => u.job_client_id >= s.next_available_job_client_id
    PROVE  TodoInv(s, <<u>>) /\ <<u>> # <<>> /\ Head(<<u>>) = u
  <1>1. <<u>> \in Seq(Update) /\ Len(<<u>>) = 1 /\ <<u>>[1] = u /\ <<u>> # <<>> /\ Head(<<u>>) = u
    OBVIOUS
  <1>2. u.type \in {"acquire_job_client", "produce_split"} => u.job_id \in DOMAIN s.jobs
    BY DEF Applies, Checks
  <1>3. UpdateOK(s, <<u>>, 1)
    BY <1>1, <1>2 DEF UpdateOK
  <1>4. \A i \in 1 .. Len(<<u>>) : UpdateOK(s, <<u>>, i)
    <2>1. 1 .. Len(<<u>>) = {1}
      BY <1>1
    <2> QED BY <1>3, <2>1
  <1>5. Checks(s, Head(<<u>>))
    BY <1>1 DEF Applies
  <1> QED BY <1>1, <1>4, <1>5 DEF TodoInv

LEMMA Orders ==
    ASSUME NEW S, IsFiniteSet(S), NEW order \in SetToSeqs(S)
    PROVE  order \in Seq(S) /\ Len(order) \in Nat /\ \A i \in 1 .. Len(order) : order[i] \in S
  <1>1. order \in [1 .. Cardinality(S) -> S]
    BY DEF SetToSeqs
  <1>2. Cardinality(S) \in Nat
    BY FS_CardinalityType
  <1>3. order \in Seq(S) /\ Len(order) = Cardinality(S)
    BY <1>1, <1>2
  <1> QED BY <1>1, <1>2, <1>3

LEMMA FiniteIds ==
    ASSUME NEW s, StateInv(s)
    PROVE  IsFiniteSet(DOMAIN s.jobs) /\ IsFiniteSet(DOMAIN s.tasks) /\ IsFiniteSet(DOMAIN s.tasks_by_worker)
  <1>1. /\ s.next_available_job_id \in Nat /\ s.next_available_task_id \in Nat
        /\ DOMAIN s.jobs \subseteq Nat /\ DOMAIN s.tasks \subseteq Nat
        /\ DOMAIN s.tasks_by_worker \subseteq Workers
    BY Fields, MapIs DEF StateInv
  <1>2. /\ DOMAIN s.jobs \subseteq 0 .. s.next_available_job_id
        /\ DOMAIN s.tasks \subseteq 0 .. s.next_available_task_id
    BY <1>1 DEF StateInv, IdsInv
  <1>3. IsFiniteSet(0 .. s.next_available_job_id) /\ IsFiniteSet(0 .. s.next_available_task_id)
    <2>1. ASSUME NEW n \in Nat PROVE IsFiniteSet(0 .. n)
      <3>1. 0 \in Int /\ n \in Int
        OBVIOUS
      <3> QED BY <3>1, FS_Interval
    <2> QED BY <1>1, <2>1
  <1> QED BY <1>1, <1>2, <1>3, FS_Subset, WorkersAssumption

LEMMA RegisterKeeps == ASSUME ServiceInv, NEW fp \in Fingerprints, GetOrRegisterDataset(fp) PROVE ServiceInv'
  <1>1. PICK id, u : /\ id = state_.next_available_dataset_id
                     /\ u = [type |-> "register_dataset", fingerprint |-> fp, dataset_id |-> id]
    OBVIOUS
  <1>2. /\ started_ /\ DatasetOf(fp) = {}
        /\ dataset_store_' = dataset_store_ \cup {<<id, fp>>}
        /\ op' = [handler |-> "register_dataset", todo |-> <<u>>]
        /\ UNCHANGED <<started_, state_, acked, assigning, worker, faults>>
    BY <1>1 DEF GetOrRegisterDataset, CanHandle, RegisterDatasetRpc, Handle, faultVars, journalVars
  <1>3. StateInv(state_) /\ StoreInv(acked, dataset_store_, op.todo)
    BY DEF ServiceInv, DispatcherInv
  <1>4. id \in Nat /\ DOMAIN state_.datasets_by_id \subseteq Nat
        /\ \A d \in DOMAIN state_.datasets_by_id : d < id
    BY <1>1, <1>3, Fields, MapIs DEF StateInv, IdsInv
  <1>5. u \in Update /\ u.type = "register_dataset" /\ u.dataset_id = id /\ u.fingerprint = fp
    BY <1>1, <1>4 DEF Update
  <1>6. Checks(state_, u)
    <2>1. id \notin DOMAIN state_.datasets_by_id
      BY <1>4
    <2>2. \A d \in DOMAIN state_.datasets_by_id : state_.datasets_by_id[d] # fp
      BY <1>2 DEF DatasetOf
    <2> QED BY <1>5, <2>1, <2>2 DEF Checks
  <1>7. Applies(state_, u)
    BY <1>5, <1>6 DEF Applies
  <1>8. TodoInv(state_, <<u>>) /\ Head(<<u>>) = u
    BY <1>5, <1>7, OneUpdate
  <1>9. op'.todo = <<u>> /\ op'.handler = "register_dataset" /\ DOMAIN op' = {"handler", "todo"}
    BY <1>2
  <1>10. HandlerInv(state_, op')
    BY <1>9 DEF HandlerInv
  <1>11. StoreInv(acked, dataset_store_', op'.todo)
    BY <1>2, <1>3, <1>5, <1>8, <1>9 DEF StoreInv
  <1> QED BY <1>2, <1>8, <1>9, <1>10, <1>11, HandlerStarts

LEMMA ReleaseKeeps == ASSUME ServiceInv, NEW c, ReleaseJobClientRpc(c) PROVE ServiceInv'
  <1>1. PICK u : u = [type |-> "release_job_client", job_client_id |-> c]
    OBVIOUS
  <1>2. /\ started_ /\ c \in DOMAIN state_.jobs_for_client_ids
        /\ op' = [handler |-> "release_job_client", todo |-> <<u>>]
        /\ UNCHANGED <<started_, state_, acked, assigning, worker, faults, dataset_store_>>
    BY <1>1 DEF ReleaseJobClientRpc, CanHandle, Handle, faultVars, journalVars
  <1>3. StateInv(state_) /\ StoreInv(acked, dataset_store_, op.todo)
    BY DEF ServiceInv, DispatcherInv
  <1>4. c \in Nat
    BY <1>2, <1>3, Fields, MapIs DEF StateInv
  <1>5. u \in Update /\ u.type = "release_job_client" /\ u.job_client_id = c
    BY <1>1, <1>4 DEF Update
  <1>6. PICK j : j = state_.jobs_for_client_ids[c]
    OBVIOUS
  <1>7. /\ j \in DOMAIN state_.jobs /\ state_.jobs[j].num_clients = Cardinality(ClientsOf(state_, j))
        /\ IsFiniteSet(DOMAIN state_.jobs_for_client_ids)
    BY <1>2, <1>3, <1>6 DEF StateInv, ClientsInv
  <1>8. c \in ClientsOf(state_, j) /\ ClientsOf(state_, j) \subseteq DOMAIN state_.jobs_for_client_ids
    BY <1>2, <1>6 DEF ClientsOf
  <1>9. Cardinality(ClientsOf(state_, j)) # 0
    BY <1>7, <1>8, FS_Subset, FS_EmptySet
  <1>10. state_.jobs[j].num_clients \in Nat
    BY <1>3, <1>7, JobNumbers DEF StateInv
  <1>11. state_.jobs[j].num_clients > 0
    BY <1>7, <1>9, <1>10
  <1>12. Applies(state_, u)
    BY <1>2, <1>5, <1>6, <1>11 DEF Applies, Checks
  <1>13. TodoInv(state_, <<u>>) /\ Head(<<u>>) = u
    BY <1>5, <1>12, OneUpdate
  <1>14. op'.todo = <<u>> /\ op'.handler = "release_job_client" /\ DOMAIN op' = {"handler", "todo"}
    BY <1>2
  <1>15. HandlerInv(state_, op')
    BY <1>14 DEF HandlerInv
  <1>16. StoreInv(acked, dataset_store_', op'.todo)
    BY <1>2, <1>3, <1>5, <1>13, <1>14, StoreStarts
  <1> QED BY <1>2, <1>13, <1>14, <1>15, <1>16, HandlerStarts

LEMMA Acquires ==
    ASSUME StateInv(state_), NEW j \in DOMAIN state_.jobs
    PROVE  /\ AcquireUpdate(j) \in Update /\ AcquireUpdate(j).type = "acquire_job_client"
           /\ TodoInv(state_, <<AcquireUpdate(j)>>) /\ Head(<<AcquireUpdate(j)>>) = AcquireUpdate(j)
  <1>1. PICK u, id : u = AcquireUpdate(j) /\ id = state_.next_available_job_client_id
    OBVIOUS
  <1>2. j \in Nat /\ id \in Nat /\ DOMAIN state_.jobs_for_client_ids \subseteq Nat
        /\ \A c \in DOMAIN state_.jobs_for_client_ids : c < id
    BY <1>1, Fields, MapIs DEF StateInv, IdsInv
  <1>3. u \in Update /\ u.type = "acquire_job_client" /\ u.job_id = j /\ u.job_client_id = id
    BY <1>1, <1>2 DEF AcquireUpdate, Update
  <1>4. id \notin DOMAIN state_.jobs_for_client_ids /\ id >= id
    BY <1>2
  <1>5. Applies(state_, u)
    BY <1>3, <1>4 DEF Applies, Checks
  <1>6. TodoInv(state_, <<u>>) /\ Head(<<u>>) = u
    BY <1>1, <1>3, <1>4, <1>5, OneUpdate
  <1> QED BY <1>1, <1>3, <1>6

LEMMA GetJobKeeps == ASSUME ServiceInv, NEW r, GetJob(r) PROVE ServiceInv'
  <1>1. PICK j \in NamedJob(r.key) : op' = [handler |-> "get_job", todo |-> <<AcquireUpdate(j)>>]
    BY DEF GetJob, Handle
  <1>2. started_ /\ UNCHANGED <<started_, state_, acked, assigning, worker, faults, dataset_store_>>
    BY DEF GetJob, CanHandle, faultVars, journalVars
  <1>3. StateInv(state_) /\ StoreInv(acked, dataset_store_, op.todo) /\ j \in DOMAIN state_.jobs
    BY DEF ServiceInv, DispatcherInv, NamedJob
  <1>4. /\ TodoInv(state_, <<AcquireUpdate(j)>>) /\ Head(<<AcquireUpdate(j)>>) = AcquireUpdate(j)
        /\ AcquireUpdate(j).type = "acquire_job_client"
    BY <1>3, Acquires
  <1>5. op'.todo = <<AcquireUpdate(j)>> /\ op'.handler = "get_job" /\ DOMAIN op' = {"handler", "todo"}
    BY <1>1
  <1>6. HandlerInv(state_, op')
    BY <1>5 DEF HandlerInv
  <1>7. StoreInv(acked, dataset_store_', op'.todo)
    BY <1>2, <1>3, <1>4, <1>5, StoreStarts
  <1> QED BY <1>2, <1>4, <1>5, <1>6, <1>7, HandlerStarts

(* CreateTasksForJob and CreateTasksForWorker give their tasks the ids     *)
(* that come next.                                                         *)
TaskUpdates(next, n, jobs, hosts) ==
    [i \in 1 .. n |-> CreateTaskUpdate(next + i - 1, jobs[i], hosts[i])]

LEMMA NewTasks ==
    ASSUME StateInv(state_), NEW n \in Nat, NEW jobs, NEW hosts,
           \A i \in 1 .. n : jobs[i] \in Nat /\ hosts[i] \in Workers, NEW q,
           q = TaskUpdates(state_.next_available_task_id, n, jobs, hosts)
    PROVE  /\ q \in Seq(Update) /\ Len(q) = n
           /\ \A i \in 1 .. n : /\ q[i].type = "create_task" /\ q[i].job_id = jobs[i]
                                /\ q[i].worker_address = hosts[i]
                                /\ q[i].task_id = state_.next_available_task_id + i - 1
  <1>1. PICK next \in Nat : next = state_.next_available_task_id
    BY Fields DEF StateInv
  <1>2. ASSUME NEW i \in 1 .. n
        PROVE  /\ q[i] \in Update
               /\ q[i].type = "create_task" /\ q[i].job_id = jobs[i]
               /\ q[i].worker_address = hosts[i] /\ q[i].task_id = next + i - 1
    <2>1. PICK id \in Nat : id = next + i - 1
      <3>1. next + i - 1 \in Nat
        OBVIOUS
      <3> QED BY <3>1
    <2>2. q[i] = [type |-> "create_task", task_id |-> id, job_id |-> jobs[i], worker_address |-> hosts[i]]
      BY <1>1, <2>1 DEF CreateTaskUpdate, TaskUpdates
    <2>3. jobs[i] \in Nat /\ hosts[i] \in Workers
      OBVIOUS
    <2>4. q[i] \in [type : {"create_task"}, task_id : Nat, job_id : Nat, worker_address : Workers]
      BY <2>2, <2>3
    <2> QED BY <2>1, <2>2, <2>4 DEF Update
  <1>3. q \in [1 .. n -> Update]
    BY <1>2 DEF TaskUpdates
  <1>4. q \in Seq(Update) /\ Len(q) = n
    BY <1>3
  <1> QED BY <1>1, <1>2, <1>4

LEMMA CreateJobKeeps == ASSUME ServiceInv, NEW r \in JobRequests, CreateJobRpc(r) PROVE ServiceInv'
  <1>1. PICK d \in DatasetOf(r.fingerprint), order \in SetToSeqs(DOMAIN state_.tasks_by_worker) :
           op' = [handler |-> "create_job", todo |->
                    <<[type |-> "create_job", job_id |-> state_.next_available_job_id, dataset_id |-> d,
                       processing_mode |-> r.mode, named_job_key |-> r.key],
                      AcquireUpdate(state_.next_available_job_id)>>
                    \o TasksForJob(state_.next_available_job_id, order)]
    BY DEF CreateJobRpc, Handle
  <1>2. /\ started_ /\ NamedJob(r.key) = {}
        /\ UNCHANGED <<started_, state_, acked, assigning, worker, faults, dataset_store_>>
    BY DEF CreateJobRpc, CanHandle, faultVars, journalVars
  <1>3. StateInv(state_) /\ StoreInv(acked, dataset_store_, op.todo)
    BY DEF ServiceInv, DispatcherInv
  <1>4. PICK id \in Nat, next \in Nat, client \in Nat :
           /\ id = state_.next_available_job_id /\ next = state_.next_available_task_id
           /\ client = state_.next_available_job_client_id
    BY <1>3, Fields DEF StateInv
  <1>5. PICK a, b, T :
           /\ a = [type |-> "create_job", job_id |-> id, dataset_id |-> d,
                   processing_mode |-> r.mode, named_job_key |-> r.key]
           /\ b = AcquireUpdate(id) /\ T = TasksForJob(id, order)
    OBVIOUS
  <1>6. PICK q : q = <<a, b>> \o T
    OBVIOUS
  <1>7. op' = [handler |-> "create_job", todo |-> q]
    BY <1>1, <1>4, <1>5, <1>6
  <1>8. /\ a \in Update /\ a.type = "create_job" /\ a.job_id = id /\ a.named_job_key = r.key
    <2>1. d \in Nat
      BY <1>1, <1>3, Fields, MapIs DEF StateInv, DatasetOf
    <2>2. r.mode \in Modes /\ r.key \in Keys
      BY DEF Modes, Keys
    <2>3. a \in [type : {"create_job"}, job_id : Nat, dataset_id : Nat, processing_mode : Modes,
                 named_job_key : Keys]
      BY <1>5, <2>1, <2>2
    <2> QED BY <1>5, <2>3 DEF Update
  <1>9. b \in Update /\ b.type = "acquire_job_client" /\ b.job_id = id /\ b.job_client_id = client
    BY <1>4, <1>5 DEF AcquireUpdate, Update
  <1>10. /\ order \in Seq(DOMAIN state_.tasks_by_worker) /\ Len(order) \in Nat
         /\ \A i \in 1 .. Len(order) : order[i] \in DOMAIN state_.tasks_by_worker
    BY <1>3, FiniteIds, Orders
  <1>11. PICK n \in Nat : n = Len(order)
    BY <1>10
  <1>12. DOMAIN state_.tasks_by_worker \subseteq Workers
    BY <1>3, Fields, MapIs DEF StateInv
  <1>13. /\ T \in Seq(Update) /\ Len(T) = n
         /\ \A i \in 1 .. n : /\ T[i].type = "create_task" /\ T[i].job_id = id
                              /\ T[i].worker_address \in DOMAIN state_.tasks_by_worker
                              /\ T[i].task_id = next + i - 1
    <2>1. PICK jobs : jobs = [i \in 1 .. n |-> id]
      OBVIOUS
    <2>2. T = TaskUpdates(state_.next_available_task_id, n, jobs, order)
      BY <1>5, <1>11, <2>1 DEF TasksForJob, TaskUpdates
    <2>3. \A i \in 1 .. n : jobs[i] \in Nat /\ order[i] \in Workers
      BY <1>10, <1>11, <1>12, <2>1
    <2>4. /\ T \in Seq(Update) /\ Len(T) = n
          /\ \A i \in 1 .. n : /\ T[i].type = "create_task" /\ T[i].job_id = jobs[i]
                               /\ T[i].worker_address = order[i]
                               /\ T[i].task_id = state_.next_available_task_id + i - 1
      BY <1>3, <2>2, <2>3, NewTasks
    <2> QED BY <1>4, <1>10, <1>11, <2>1, <2>4
  <1>14. /\ q \in Seq(Update) /\ Len(q) = n + 2 /\ q[1] = a /\ q[2] = b /\ q # <<>> /\ Head(q) = a
         /\ \A i \in 3 .. (n + 2) : q[i] = T[i - 2]
    BY <1>6, <1>8, <1>9, <1>13
  <1>15. Checks(state_, a)
    <2>1. \A j \in DOMAIN state_.jobs : j < id /\ j \in Nat
      BY <1>3, <1>4, Fields, MapIs DEF StateInv, IdsInv
    <2>2. id \notin DOMAIN state_.jobs
      BY <2>1
    <2>3. r.key # NoKey => \A j \in DOMAIN state_.jobs : state_.jobs[j].named_job_key # r.key
      BY <1>2 DEF NamedJob
    <2> QED BY <1>8, <2>2, <2>3 DEF Checks
  <1>16. UpdateOK(state_, q, 1)
    BY <1>4, <1>8, <1>14 DEF UpdateOK
  <1>17. UpdateOK(state_, q, 2)
    <2>1. client >= client
      OBVIOUS
    <2> QED BY <1>4, <1>8, <1>9, <1>14, <2>1 DEF UpdateOK
  <1>18. ASSUME NEW i \in 3 .. (n + 2) PROVE UpdateOK(state_, q, i)
    <2>1. i - 2 \in 1 .. n /\ i > 1 /\ i \in Nat
      BY <1>18
    <2>2. /\ q[i].type = "create_task" /\ q[i].job_id = id /\ q[i].task_id = next + (i - 2) - 1
          /\ q[i].worker_address \in DOMAIN state_.tasks_by_worker
      BY <1>13, <1>14, <2>1
    <2>3. q[i].task_id >= next
      BY <2>1, <2>2
    <2>4. ASSUME NEW k \in 1 .. i - 1, q[k].type = "create_task" PROVE q[k].task_id < q[i].task_id
      <3>1. k # 1 /\ k # 2
        BY <1>8, <1>9, <1>14, <2>4
      <3>2. k \in 3 .. (n + 2) /\ k - 2 \in 1 .. n /\ k < i
        BY <1>18, <2>4, <3>1
      <3>3. q[k].task_id = next + (k - 2) - 1
        BY <1>13, <1>14, <3>2
      <3> QED BY <2>1, <2>2, <3>2, <3>3
    <2> QED BY <1>4, <1>8, <1>14, <2>1, <2>2, <2>3, <2>4 DEF UpdateOK
  <1>19. TodoInv(state_, q)
    <2>1. ASSUME NEW i \in 1 .. Len(q) PROVE i = 1 \/ i = 2 \/ i \in 3 .. (n + 2)
      BY <1>14
    <2> QED BY <1>14, <1>15, <1>16, <1>17, <1>18, <2>1 DEF TodoInv
  <1>20. op'.todo = q /\ op'.handler = "create_job" /\ DOMAIN op' = {"handler", "todo"}
    BY <1>7
  <1>21. HandlerInv(state_, op')
    BY <1>8, <1>14, <1>20 DEF HandlerInv
  <1>22. StoreInv(acked, dataset_store_', op'.todo)
    BY <1>2, <1>3, <1>8, <1>14, <1>20, StoreStarts
  <1> QED BY <1>2, <1>19, <1>20, <1>21, <1>22, HandlerStarts

LEMMA HeartbeatKeeps == ASSUME ServiceInv, NEW w \in Workers, WorkerHeartbeat(w) PROVE ServiceInv'
  <1>1. started_ /\ UNCHANGED <<started_, state_, acked, assigning, worker, faults, dataset_store_>>
    BY DEF WorkerHeartbeat, CanHandle, faultVars, journalVars
  <1>2. StateInv(state_) /\ StoreInv(acked, dataset_store_, op.todo)
    BY DEF ServiceInv, DispatcherInv
  <1>3. CASE w \in DOMAIN state_.tasks_by_worker
    <2>1. op' = [handler |-> "worker_heartbeat", worker |-> w, todo |-> <<>>]
      BY <1>3 DEF WorkerHeartbeat, Handle
    <2>2. /\ op'.todo = <<>> /\ op'.handler = "worker_heartbeat" /\ op'.worker = w
          /\ DOMAIN op' = {"handler", "worker", "todo"}
      BY <2>1
    <2>3. HandlerInv(state_, op')
      BY <1>3, <2>2 DEF HandlerInv
    <2>4. TodoInv(state_, op'.todo)
      BY <2>2, EmptyTodo
    <2>5. StoreInv(acked, dataset_store_', op'.todo)
      BY <1>1, <1>2, <2>2, StoreStarts
    <2> QED BY <1>1, <2>3, <2>4, <2>5, HandlerStarts
  <1>4. CASE w \notin DOMAIN state_.tasks_by_worker
    <2>1. PICK S : S = {j \in DOMAIN state_.jobs : ~state_.jobs[j].finished}
      OBVIOUS
    <2>2. PICK a : a = [type |-> "register_worker", worker_address |-> w]
      OBVIOUS
    <2>3. PICK order \in SetToSeqs(S) :
             op' = [handler |-> "worker_heartbeat", worker |-> w, todo |-> <<a>> \o TasksForWorker(w, order)]
      BY <1>4, <2>1, <2>2 DEF WorkerHeartbeat, Handle
    <2>4. PICK T, q : T = TasksForWorker(w, order) /\ q = <<a>> \o T
      OBVIOUS
    <2>5. PICK next \in Nat : next = state_.next_available_task_id
      BY <1>2, Fields DEF StateInv
    <2>6. a \in Update /\ a.type = "register_worker" /\ a.worker_address = w
      BY <2>2 DEF Update
    <2>7. IsFiniteSet(S) /\ S \subseteq DOMAIN state_.jobs /\ DOMAIN state_.jobs \subseteq Nat
      <3>1. IsFiniteSet(DOMAIN state_.jobs) /\ S \subseteq DOMAIN state_.jobs
        BY <1>2, <2>1, FiniteIds
      <3>2. DOMAIN state_.jobs \subseteq Nat
        BY <1>2, Fields, MapIs DEF StateInv
      <3> QED BY <3>1, <3>2, FS_Subset
    <2>8. Len(order) \in Nat /\ \A i \in 1 .. Len(order) : order[i] \in S
      BY <2>7, Orders
    <2>9. PICK n \in Nat : n = Len(order)
      BY <2>8
    <2>10. /\ T \in Seq(Update) /\ Len(T) = n
           /\ \A i \in 1 .. n : /\ T[i].type = "create_task" /\ T[i].job_id \in DOMAIN state_.jobs
                                /\ T[i].worker_address = w
                                /\ T[i].task_id = next + i - 1
      <3>1. PICK hosts : hosts = [i \in 1 .. n |-> w]
        OBVIOUS
      <3>2. T = TaskUpdates(state_.next_available_task_id, n, order, hosts)
        BY <2>4, <2>9, <3>1 DEF TasksForWorker, TaskUpdates
      <3>3. \A i \in 1 .. n : order[i] \in Nat /\ hosts[i] \in Workers
        BY <2>7, <2>8, <2>9, <3>1
      <3>4. /\ T \in Seq(Update) /\ Len(T) = n
            /\ \A i \in 1 .. n : /\ T[i].type = "create_task" /\ T[i].job_id = order[i]
                                 /\ T[i].worker_address = hosts[i]
                                 /\ T[i].task_id = state_.next_available_task_id + i - 1
        BY <1>2, <3>2, <3>3, NewTasks
      <3> QED BY <2>5, <2>7, <2>8, <2>9, <3>1, <3>4
    <2>11. /\ q \in Seq(Update) /\ Len(q) = n + 1 /\ q[1] = a /\ q # <<>> /\ Head(q) = a
           /\ \A i \in 2 .. (n + 1) : q[i] = T[i - 1]
      BY <2>4, <2>6, <2>10
    <2>12. Checks(state_, a)
      BY <1>4, <2>6 DEF Checks
    <2>13. UpdateOK(state_, q, 1)
      BY <2>6, <2>11 DEF UpdateOK
    <2>14. ASSUME NEW i \in 2 .. (n + 1) PROVE UpdateOK(state_, q, i)
      <3>1. i - 1 \in 1 .. n /\ i > 1 /\ i \in Nat
        BY <2>14
      <3>2. /\ q[i].type = "create_task" /\ q[i].task_id = next + (i - 1) - 1
            /\ q[i].job_id \in DOMAIN state_.jobs /\ q[i].worker_address = w
        BY <2>10, <2>11, <3>1
      <3>3. q[i].task_id >= next
        BY <3>1, <3>2
      <3>4. ASSUME NEW k \in 1 .. i - 1, q[k].type = "create_task" PROVE q[k].task_id < q[i].task_id
        <4>1. k # 1
          BY <2>6, <2>11, <3>4
        <4>2. k \in 2 .. (n + 1) /\ k - 1 \in 1 .. n /\ k < i
          BY <2>14, <3>4, <4>1
        <4>3. q[k].task_id = next + (k - 1) - 1
          BY <2>10, <2>11, <4>2
        <4> QED BY <3>1, <3>2, <4>2, <4>3
      <3> QED BY <2>5, <2>6, <2>11, <3>1, <3>2, <3>3, <3>4 DEF UpdateOK
    <2>15. TodoInv(state_, q)
      <3>1. ASSUME NEW i \in 1 .. Len(q) PROVE i = 1 \/ i \in 2 .. (n + 1)
        BY <2>11
      <3> QED BY <2>11, <2>12, <2>13, <2>14, <3>1 DEF TodoInv
    <2>16. /\ op'.todo = q /\ op'.handler = "worker_heartbeat" /\ op'.worker = w
           /\ DOMAIN op' = {"handler", "worker", "todo"}
      BY <2>3, <2>4
    <2>17. HandlerInv(state_, op')
      BY <2>6, <2>11, <2>16 DEF HandlerInv
    <2>18. StoreInv(acked, dataset_store_', op'.todo)
      BY <1>1, <1>2, <2>6, <2>11, <2>16, StoreStarts
    <2> QED BY <1>1, <2>15, <2>16, <2>17, <2>18, HandlerStarts
  <1> QED BY <1>3, <1>4

LEMMA WorkerUpdateKeeps == ASSUME ServiceInv, NEW w \in Workers, WorkerUpdate(w) PROVE ServiceInv'
  <1>1. started_ /\ UNCHANGED <<started_, state_, acked, assigning, worker, faults, dataset_store_>>
    BY DEF WorkerUpdate, CanHandle, faultVars, journalVars
  <1>2. StateInv(state_) /\ StoreInv(acked, dataset_store_, op.todo)
    BY DEF ServiceInv, DispatcherInv
  <1>3. PICK completed, S : /\ completed = worker[w].pending_completed
                            /\ S = {t \in completed : ~state_.tasks[t].finished}
    OBVIOUS
  <1>4. completed \subseteq DOMAIN state_.tasks
    BY <1>3 DEF WorkerUpdate
  <1>5. PICK order \in SetToSeqs(S) :
           op' = [handler |-> "worker_update", worker |-> w, completed |-> completed, todo |->
                    [i \in 1 .. Len(order) |-> [type |-> "finish_task", task_id |-> order[i]]]]
    BY <1>3 DEF WorkerUpdate, Handle
  <1>6. PICK q : q = [i \in 1 .. Len(order) |-> [type |-> "finish_task", task_id |-> order[i]]]
    OBVIOUS
  <1>7. IsFiniteSet(S) /\ S \subseteq DOMAIN state_.tasks /\ DOMAIN state_.tasks \subseteq Nat
    <2>1. IsFiniteSet(DOMAIN state_.tasks) /\ S \subseteq DOMAIN state_.tasks
      BY <1>2, <1>3, <1>4, FiniteIds
    <2>2. DOMAIN state_.tasks \subseteq Nat
      BY <1>2, Fields, MapIs DEF StateInv
    <2> QED BY <2>1, <2>2, FS_Subset
  <1>8. Len(order) \in Nat /\ \A i \in 1 .. Len(order) : order[i] \in S
    BY <1>7, Orders
  <1>9. PICK n \in Nat : n = Len(order)
    BY <1>8
  <1>10. ASSUME NEW i \in 1 .. n
         PROVE  q[i] \in Update /\ q[i].type = "finish_task" /\ q[i].task_id \in DOMAIN state_.tasks
    <2>1. PICK t \in DOMAIN state_.tasks : t = order[i] /\ t \in Nat
      BY <1>7, <1>8, <1>9
    <2>2. q[i] = [type |-> "finish_task", task_id |-> t]
      BY <1>6, <1>9, <2>1
    <2> QED BY <2>1, <2>2 DEF Update
  <1>11. q \in Seq(Update) /\ Len(q) = n
    <2>1. q \in [1 .. n -> Update]
      BY <1>6, <1>9, <1>10
    <2> QED BY <2>1
  <1>12. \A i \in 1 .. Len(q) : UpdateOK(state_, q, i)
    BY <1>10, <1>11 DEF UpdateOK
  <1>13. ASSUME q # <<>> PROVE Checks(state_, Head(q)) /\ Head(q).type = "finish_task"
    <2>1. 1 \in 1 .. n /\ q[1] = Head(q)
      BY <1>11, <1>13, FirstOfTodo
    <2> QED BY <1>10, <2>1 DEF Checks
  <1>14. TodoInv(state_, q)
    BY <1>11, <1>12, <1>13 DEF TodoInv
  <1>15. /\ op'.todo = q /\ op'.handler = "worker_update" /\ op'.worker = w
         /\ DOMAIN op' = {"handler", "worker", "completed", "todo"}
    BY <1>5, <1>6
  <1>16. HandlerInv(state_, op')
    BY <1>15 DEF HandlerInv
  <1>17. StoreInv(acked, dataset_store_', op'.todo)
    BY <1>1, <1>2, <1>13, <1>15, StoreStarts
  <1> QED BY <1>1, <1>14, <1>15, <1>16, <1>17, HandlerStarts

(* The repetition that a worker asks for is over, or it is the current one. *)
LEMMA GetSplitKeeps == ASSUME ServiceInv, NEW w \in Workers, NEW t, GetSplit(w, t) PROVE ServiceInv'
  <1>1. started_ /\ UNCHANGED <<started_, state_, acked, assigning, worker, faults, dataset_store_>>
    BY DEF GetSplit, CanHandle, faultVars, journalVars
  <1>2. /\ StateInv(state_) /\ StoreInv(acked, dataset_store_, op.todo) /\ Agree(state_, acked)
        /\ WorkerOK(acked, w, worker[w])
    BY <1>1 DEF ServiceInv, DispatcherInv, WorkersInv
  <1>3. PICK j, requested : j = state_.tasks[t].job_id /\ requested = worker[w].repetition[t]
    OBVIOUS
  <1>4. PICK stale, end : /\ stale = (requested < state_.jobs[j].repetition)
                          /\ end = (split_providers_[j] = NumSplits)
    OBVIOUS
  <1>. stale \in BOOLEAN /\ end \in BOOLEAN
    BY <1>4
  <1>5. /\ t \in worker[w].tasks /\ t \in DOMAIN state_.tasks
        /\ state_.jobs[j].processing_mode = "DISTRIBUTED_EPOCH"
    BY <1>3 DEF GetSplit
  <1>6. PICK e \in BOOLEAN : e = (stale \/ end)
    OBVIOUS
  <1>7. PICK u, q : /\ u = [type |-> "produce_split", job_id |-> j, finished |-> end, repetition |-> requested]
                    /\ q = IF stale THEN <<>> ELSE <<u>>
    OBVIOUS
  <1>8. op' = [handler |-> "get_split", worker |-> w, task |-> t, job |-> j,
               repetition |-> requested, split |-> split_providers_[j],
               end |-> e, stale |-> stale, todo |-> q]
    BY ONLY GetSplit(w, t), <1>3, <1>4, <1>6, <1>7 DEF GetSplit, Handle, StaleRepetition
  <1>9. j \in DOMAIN state_.jobs /\ j \in Nat
    BY <1>2, <1>3, <1>5, Fields, MapIs DEF StateInv, TasksInv
  <1>10. requested \in Nat /\ requested <= state_.jobs[j].repetition /\ state_.jobs[j].repetition \in Nat
    <2>1. t \in DOMAIN worker[w].repetition /\ worker[w].repetition \in Map(Nat, Nat)
      BY <1>2, <1>5 DEF WorkerOK, Worker
    <2>2. requested \in Nat
      BY <1>3, <2>1, MapIs
    <2>3. requested <= acked.jobs[acked.tasks[t].job_id].repetition
      BY <1>2, <1>3, <2>1 DEF WorkerOK
    <2>4. acked.tasks[t].job_id = j /\ acked.jobs[j].repetition = state_.jobs[j].repetition
      BY <1>2, <1>3, <1>5, <1>9 DEF Agree
    <2>5. state_.jobs[j].repetition \in Nat
      BY <1>2, <1>9, JobNumbers DEF StateInv
    <2> QED BY <2>2, <2>3, <2>4, <2>5
  <1>11. /\ op'.todo = q /\ op'.handler = "get_split" /\ op'.worker = w /\ op'.task = t /\ op'.job = j
         /\ op'.repetition = requested /\ op'.end = e
         /\ DOMAIN op' = {"handler", "worker", "task", "job", "repetition", "split", "end", "stale", "todo"}
    BY <1>8
  <1>12. CASE stale
    <2>1. q = <<>>
      BY <1>7, <1>12
    <2>2. requested < state_.jobs[j].repetition
      BY <1>4, <1>12
    <2>3. SplitInv(state_, op')
      BY <1>3, <1>5, <1>10, <1>11, <2>1, <2>2 DEF SplitInv
    <2>4. HandlerInv(state_, op')
      BY <1>11, <2>3 DEF HandlerInv
    <2>5. TodoInv(state_, op'.todo)
      BY <1>11, <2>1, EmptyTodo
    <2>6. StoreInv(acked, dataset_store_', op'.todo)
      BY <1>1, <1>2, <1>11, <2>1, StoreStarts
    <2> QED BY <1>1, <2>4, <2>5, <2>6, HandlerStarts
  <1>13. CASE ~stale
    <2>1. q = <<u>> /\ e = end
      BY <1>6, <1>7, <1>13
    <2>2. ~(requested < state_.jobs[j].repetition)
      BY <1>4, <1>13
    <2>3. requested = state_.jobs[j].repetition
      BY <1>10, <2>2
    <2>4. u \in Update /\ u.type = "produce_split" /\ u.job_id = j /\ u.repetition = requested
      BY <1>7, <1>9, <1>10 DEF Update
    <2>5. Applies(state_, u)
      BY <1>5, <1>9, <2>3, <2>4 DEF Applies, Checks
    <2>6. TodoInv(state_, <<u>>) /\ <<u>> # <<>> /\ Head(<<u>>) = u
      BY <2>4, <2>5, OneUpdate
    <2>7. SplitInv(state_, op')
      <3>1. op'.todo # <<>>
        BY <1>11, <2>1, <2>6
      <3>2. op'.todo = <<[type |-> "produce_split", job_id |-> op'.job,
                          finished |-> op'.end, repetition |-> op'.repetition]>>
        BY <1>7, <1>11, <2>1
      <3> QED BY <1>3, <1>5, <1>10, <1>11, <3>1, <3>2 DEF SplitInv
    <2>8. HandlerInv(state_, op')
      BY <1>11, <2>7 DEF HandlerInv
    <2>9. StoreInv(acked, dataset_store_', op'.todo)
      BY <1>1, <1>2, <1>11, <2>1, <2>4, <2>6, StoreStarts
    <2> QED BY <1>1, <1>11, <2>1, <2>6, <2>8, <2>9, HandlerStarts
  <1> QED BY <1>12, <1>13

-----------------------------------------------------------------------------
(* The workers.                                                            *)

(* Worker a, at address w, has dropped only tasks that are finished in s.  *)
DropsFinished(s, a) == \A t \in DOMAIN a.repetition \ a.tasks : s.tasks[t].finished

LEMMA WorkerChanges ==
    ASSUME ServiceInv, acked' = acked, NEW w \in Workers, NEW a, WorkerOK(acked, w, a),
           worker' = [worker EXCEPT ![w] = a], "gc" \notin faults' => "gc" \notin faults,
           "gc" \notin faults => DropsFinished(acked, a)
    PROVE  WorkersInv' /\ NoTaskDropped'
  <1>1. worker \in [Workers -> Worker] /\ a \in Worker
    BY DEF ServiceInv, WorkersInv, WorkerOK
  <1>2. /\ worker' \in [Workers -> Worker] /\ worker'[w] = a
        /\ \A v \in Workers : v # w => worker'[v] = worker[v]
    BY <1>1
  <1>3. \A v \in Workers : WorkerOK(acked', v, worker'[v])
    BY <1>2 DEF ServiceInv, WorkersInv
  <1>4. ASSUME "gc" \notin faults' PROVE \A v \in Workers : DropsFinished(acked', worker'[v])
    BY <1>2, <1>4 DEF ServiceInv, NoTaskDropped, DropsFinished
  <1>5. NoTaskDropped'
    BY <1>4 DEF NoTaskDropped, DropsFinished
  <1> QED BY <1>2, <1>3, <1>5 DEF WorkersInv

LEMMA WorkersSame ==
    ASSUME ServiceInv, UNCHANGED <<acked, worker>>, "gc" \notin faults' => "gc" \notin faults
    PROVE  WorkersInv' /\ NoTaskDropped'
  BY DEF ServiceInv, WorkersInv, NoTaskDropped

LEMMA WorkerIs ==
    ASSUME NEW w \in Workers, ServiceInv
    PROVE  /\ worker \in [Workers -> Worker] /\ WorkerOK(acked, w, worker[w])
           /\ "gc" \notin faults => DropsFinished(acked, worker[w])
  BY DEF ServiceInv, WorkersInv, NoTaskDropped, DropsFinished

LEMMA WorkerFields ==
    ASSUME NEW a \in Worker
    PROVE  /\ a.tasks \in SUBSET Nat /\ a.repetition \in Map(Nat, Nat) /\ a.parallel \in SUBSET Nat
           /\ a.ended \in SUBSET Nat /\ a.pending_completed \in SUBSET Nat
           /\ a.heartbeat \in {Idle} \cup [current : SUBSET Nat]
  BY DEF Worker

(* A worker starts the tasks T, which s has for it.                        *)
LEMMA TasksStart ==
    ASSUME NEW s, StateInv(s), NEW w, NEW a, WorkerOK(s, w, a), NEW T, NEW P \in SUBSET Nat,
           \A t \in T : t \in DOMAIN s.tasks /\ s.tasks[t].worker_address = w,
           NEW b, b = StartTasks(a, T, P)
    PROVE  /\ WorkerOK(s, w, b) /\ b.tasks = a.tasks \cup T
           /\ DOMAIN b.repetition = DOMAIN a.repetition \cup T
  <1>1. /\ a \in Worker /\ a.tasks \subseteq DOMAIN a.repetition
        /\ DOMAIN a.repetition \subseteq Nat /\ \A t \in DOMAIN a.repetition : a.repetition[t] \in Nat
    BY WorkerFields, MapIs DEF WorkerOK
  <1>2. PICK fresh : fresh = T \ a.tasks
    OBVIOUS
  <1>3. T \subseteq Nat
    BY Fields, MapIs DEF StateInv
  <1>4. PICK m : m = [t \in DOMAIN a.repetition \cup fresh |-> IF t \in fresh THEN 0 ELSE a.repetition[t]]
    OBVIOUS
  <1>5. m \in Map(Nat, Nat) /\ DOMAIN m = DOMAIN a.repetition \cup fresh
    <2>1. m \in [DOMAIN a.repetition \cup fresh -> Nat]
      BY <1>1, <1>4
    <2>2. DOMAIN a.repetition \cup fresh \in SUBSET Nat
      BY <1>1, <1>2, <1>3
    <2> QED BY <2>1, <2>2, MapMake
  <1>6. b = [a EXCEPT !.tasks = a.tasks \cup T, !.parallel = a.parallel \cup P,
                      !.repetition = m, !.ended = a.ended \ fresh]
    BY <1>2, <1>4 DEF StartTasks
  <1>7. /\ b \in Worker /\ b.tasks = a.tasks \cup T /\ b.repetition = m /\ b.heartbeat = a.heartbeat
    <2>1. PICK tasks \in SUBSET Nat, parallel \in SUBSET Nat, ended \in SUBSET Nat :
             tasks = a.tasks \cup T /\ parallel = a.parallel \cup P /\ ended = a.ended \ fresh
      BY <1>1, <1>3, WorkerFields
    <2>2. b = [a EXCEPT !.tasks = tasks, !.parallel = parallel, !.repetition = m, !.ended = ended]
      BY <1>6, <2>1
    <2>3. /\ b \in Worker /\ b.tasks = tasks /\ b.repetition = m /\ b.heartbeat = a.heartbeat
      BY <1>1, <1>5, <2>2 DEF Worker
    <2> QED BY <2>1, <2>3
  <1>8. DOMAIN a.repetition \cup fresh = DOMAIN a.repetition \cup T
    BY <1>1, <1>2
  <1>9. ASSUME NEW t \in DOMAIN b.repetition
        PROVE  /\ t \in DOMAIN s.tasks /\ s.tasks[t].worker_address = w
               /\ b.repetition[t] <= s.jobs[s.tasks[t].job_id].repetition
    <2>1. CASE t \in fresh
      <3>1. t \in DOMAIN s.tasks /\ s.tasks[t].worker_address = w /\ b.repetition[t] = 0
        BY <1>2, <1>4, <1>5, <1>7, <2>1
      <3>2. s.tasks[t].job_id \in DOMAIN s.jobs
        BY <3>1 DEF StateInv, TasksInv
      <3>3. s.jobs[s.tasks[t].job_id].repetition \in Nat
        BY <3>2, JobNumbers DEF StateInv
      <3> QED BY <3>1, <3>3
    <2>2. CASE t \notin fresh
      <3>1. t \in DOMAIN a.repetition /\ b.repetition[t] = a.repetition[t]
        BY <1>4, <1>5, <1>7, <1>9, <2>2
      <3> QED BY <3>1 DEF WorkerOK
    <2> QED BY <2>1, <2>2
  <1>10. a.heartbeat # Idle => a.heartbeat.current \subseteq DOMAIN a.repetition
    BY DEF WorkerOK
  <1>11. WorkerOK(s, w, b)
    BY <1>1, <1>5, <1>7, <1>8, <1>9, <1>10 DEF WorkerOK
  <1> QED BY <1>5, <1>7, <1>8, <1>11

(* A change of a worker that leaves its tasks and repetitions alone.       *)
LEMMA WorkerSame ==
    ASSUME NEW s, NEW w, NEW a, WorkerOK(s, w, a), NEW b \in Worker, b.tasks = a.tasks,
           b.repetition = a.repetition, b.heartbeat = a.heartbeat \/ b.heartbeat = Idle
    PROVE  WorkerOK(s, w, b) /\ (DropsFinished(s, a) => DropsFinished(s, b))
  BY DEF WorkerOK, DropsFinished

-----------------------------------------------------------------------------
(* The responses, and what happens outside of the handlers.                *)

LEMMA HandlerEnds ==
    ASSUME ServiceInv, started_, op' = Idle, UNCHANGED <<started_, state_, acked, dataset_store_>>,
           "gc" \notin faults' => "gc" \notin faults,
           \A T \in assigning' : T \subseteq DOMAIN state_.tasks
    PROVE  DispatcherInv'
  <1>1. Idle.todo = <<>> /\ HandlerInv(state_, Idle) /\ TodoInv(state_, Idle.todo)
    BY IdleHandler
  <1>2. StoreInv(acked, dataset_store_, Idle.todo)
    BY <1>1, StoreStarts DEF ServiceInv, DispatcherInv
  <1> QED BY <1>1, <1>2 DEF ServiceInv, DispatcherInv

LEMMA DispatcherSame ==
    ASSUME ServiceInv, UNCHANGED <<started_, state_, acked, dataset_store_, op, faults>>,
           ~started_ => assigning' = {}, \A T \in assigning' : T \subseteq DOMAIN state_.tasks
    PROVE  DispatcherInv'
  BY DEF ServiceInv, DispatcherInv

LEMMA FailureKeeps == ASSUME ServiceInv, ApplyFails PROVE ServiceInv'
  <1>1. /\ started_ /\ op' = Idle /\ UNCHANGED <<started_, state_, acked, dataset_store_, assigning>>
        /\ faults \cup {"write"} \cup Cut \subseteq faults'
    BY DEF ApplyFails
  <1>2. "gc" \notin faults' => "gc" \notin faults
    BY <1>1
  <1>3. DispatcherInv'
    BY <1>1, <1>2, HandlerEnds DEF ServiceInv, DispatcherInv
  <1>4. WorkersInv' /\ NoTaskDropped'
    <2>1. CASE op.handler = "worker_heartbeat"
      <3>1. PICK w \in Workers : w = op.worker
        BY <2>1 DEF ServiceInv, DispatcherInv, HandlerInv
      <3>2. PICK a \in Worker : a = worker[w]
        BY DEF ServiceInv, WorkersInv
      <3>3. PICK b : b = [a EXCEPT !.heartbeat = Idle]
        OBVIOUS
      <3>4. b \in Worker /\ b.tasks = a.tasks /\ b.repetition = a.repetition /\ b.heartbeat = Idle
        BY <3>3 DEF Worker
      <3>5. worker' = [worker EXCEPT ![w] = b]
        BY <2>1, <3>1, <3>2, <3>3 DEF ApplyFails
      <3>6. WorkerOK(acked, w, a) /\ ("gc" \notin faults => DropsFinished(acked, a))
        BY <3>2, WorkerIs
      <3>7. WorkerOK(acked, w, b) /\ ("gc" \notin faults => DropsFinished(acked, b))
        BY <3>4, <3>6, WorkerSame
      <3> QED BY <1>1, <1>2, <3>5, <3>7, WorkerChanges
    <2>2. CASE op.handler # "worker_heartbeat"
      <3>1. worker' = worker
        BY <2>2 DEF ApplyFails
      <3> QED BY <1>1, <1>2, <3>1, WorkersSame
    <2> QED BY <2>1, <2>2
  <1> QED BY <1>3, <1>4 DEF ServiceInv

LEMMA JobResponseKeeps == ASSUME ServiceInv, RespondCreateJob PROVE ServiceInv'
  <1>1. /\ started_ /\ op' = Idle /\ op.handler = "create_job" /\ op.todo = <<>>
        /\ UNCHANGED <<started_, state_, acked, dataset_store_, worker, faults>>
    BY DEF RespondCreateJob, Respond, faultVars, journalVars
  <1>2. PICK j : j = state_.next_available_job_id - 1
    OBVIOUS
  <1>3. \A T \in assigning' : T \in assigning \/ T = state_.tasks_by_job[j]
    BY <1>2 DEF RespondCreateJob
  <1>4. j \in DOMAIN state_.jobs /\ StateInv(state_)
    BY <1>1, <1>2 DEF ServiceInv, DispatcherInv, HandlerInv
  <1>5. state_.tasks_by_job[j] \subseteq DOMAIN state_.tasks
    BY <1>4 DEF StateInv, TasksInv
  <1>6. \A T \in assigning' : T \subseteq DOMAIN state_.tasks
    BY <1>3, <1>5 DEF ServiceInv, DispatcherInv
  <1>7. DispatcherInv'
    BY <1>1, <1>6, HandlerEnds
  <1>8. WorkersInv' /\ NoTaskDropped'
    BY <1>1, WorkersSame
  <1> QED BY <1>7, <1>8 DEF ServiceInv

(* A task that the dispatcher does not list for a worker is finished.      *)
LEMMA HeartbeatResponseKeeps == ASSUME ServiceInv, RespondHeartbeat PROVE ServiceInv'
  <1>1. /\ started_ /\ op' = Idle /\ op.handler = "worker_heartbeat" /\ op.todo = <<>>
        /\ UNCHANGED <<started_, state_, acked, dataset_store_, assigning, faults>>
    BY DEF RespondHeartbeat, Respond, faultVars, journalVars
  <1>2. DispatcherInv'
    BY <1>1, HandlerEnds DEF ServiceInv, DispatcherInv
  <1>3. /\ StateInv(state_) /\ StateInv(acked) /\ Agree(state_, acked)
        /\ "gc" \notin faults => state_ = acked
    BY <1>1 DEF ServiceInv, DispatcherInv
  <1>4. PICK w \in Workers : w = op.worker /\ w \in DOMAIN state_.tasks_by_worker
    BY <1>1 DEF ServiceInv, DispatcherInv, HandlerInv
  <1>5. PICK a, current, assigned, new :
           /\ a = worker[w] /\ current = worker[w].heartbeat.current
           /\ assigned = state_.tasks_by_worker[w] /\ new = assigned \ current
    OBVIOUS
  <1>6. PICK P, b, c : /\ P = Parallel(new) /\ b = StartTasks(a, new, P)
                       /\ c = [b EXCEPT !.tasks = b.tasks \ (current \ assigned), !.heartbeat = Idle]
    OBVIOUS
  <1>7. worker' = [worker EXCEPT ![w] = c]
    BY <1>4, <1>5, <1>6 DEF RespondHeartbeat
  <1>8. \A t \in assigned : /\ t \in DOMAIN acked.tasks /\ acked.tasks[t].worker_address = w
                            /\ t \in Nat
    <2>1. \A t \in assigned : t \in DOMAIN state_.tasks /\ state_.tasks[t].worker_address = w
      BY <1>3, <1>4, <1>5 DEF StateInv, TasksInv
    <2>2. DOMAIN state_.tasks \subseteq Nat
      BY <1>3, Fields, MapIs DEF StateInv
    <2> QED BY <1>3, <2>1, <2>2 DEF Agree
  <1>9. P \in SUBSET Nat /\ \A t \in new : t \in DOMAIN acked.tasks /\ acked.tasks[t].worker_address = w
    BY <1>5, <1>6, <1>8 DEF Parallel
  <1>10. WorkerOK(acked, w, a) /\ ("gc" \notin faults => DropsFinished(acked, a))
    BY <1>5, WorkerIs
  <1>11. /\ WorkerOK(acked, w, b) /\ b.tasks = a.tasks \cup new
         /\ DOMAIN b.repetition = DOMAIN a.repetition \cup new
    BY <1>3, <1>6, <1>9, <1>10, TasksStart
  <1>12. b \in Worker
    BY <1>11 DEF WorkerOK
  <1>13. /\ c \in Worker /\ c.tasks = b.tasks \ (current \ assigned) /\ c.repetition = b.repetition
         /\ c.heartbeat = Idle
    BY <1>6, <1>12 DEF Worker
  <1>14. WorkerOK(acked, w, c)
    BY <1>11, <1>13 DEF WorkerOK
  <1>15. ASSUME "gc" \notin faults PROVE DropsFinished(acked, c)
    <2>1. ASSUME NEW t \in DOMAIN c.repetition, t \notin c.tasks PROVE acked.tasks[t].finished
      <3>1. t \notin new
        BY <1>5, <1>11, <1>13, <2>1
      <3>2. t \in DOMAIN a.repetition
        BY <1>11, <1>13, <2>1, <3>1
      <3>3. CASE t \notin a.tasks
        BY <1>10, <1>15, <3>2, <3>3 DEF DropsFinished
      <3>4. CASE t \in a.tasks
        <4>1. t \notin assigned
          BY <1>11, <1>13, <2>1, <3>4
        <4>2. t \in DOMAIN state_.tasks /\ state_.tasks[t].worker_address = w /\ state_ = acked
          BY <1>3, <1>10, <1>15, <3>2 DEF WorkerOK
        <4> QED BY <1>3, <1>5, <4>1, <4>2 DEF StateInv, TasksInv
      <3> QED BY <3>3, <3>4
    <2> QED BY <2>1 DEF DropsFinished
  <1>16. WorkersInv' /\ NoTaskDropped'
    BY <1>1, <1>7, <1>14, <1>15, WorkerChanges
  <1> QED BY <1>2, <1>16 DEF ServiceInv

LEMMA UpdateResponseKeeps == ASSUME ServiceInv, RespondUpdate PROVE ServiceInv'
  <1>1. /\ started_ /\ op' = Idle /\ op.handler = "worker_update"
        /\ UNCHANGED <<started_, state_, acked, dataset_store_, assigning, faults>>
    BY DEF RespondUpdate, Respond, faultVars, journalVars
  <1>2. DispatcherInv'
    BY <1>1, HandlerEnds DEF ServiceInv, DispatcherInv
  <1>3. PICK w \in Workers : w = op.worker
    BY <1>1 DEF ServiceInv, DispatcherInv, HandlerInv
  <1>4. PICK a \in Worker : a = worker[w]
    BY DEF ServiceInv, WorkersInv
  <1>5. PICK b : b = [a EXCEPT !.pending_completed = a.pending_completed \ op.completed]
    OBVIOUS
  <1>6. b \in Worker /\ b.tasks = a.tasks /\ b.repetition = a.repetition /\ b.heartbeat = a.heartbeat
    BY <1>5 DEF Worker
  <1>7. worker' = [worker EXCEPT ![w] = b]
    BY <1>3, <1>4, <1>5 DEF RespondUpdate
  <1>8. WorkerOK(acked, w, a) /\ ("gc" \notin faults => DropsFinished(acked, a))
    BY <1>4, WorkerIs
  <1>9. WorkerOK(acked, w, b) /\ ("gc" \notin faults => DropsFinished(acked, b))
    BY <1>6, <1>8, WorkerSame
  <1>10. WorkersInv' /\ NoTaskDropped'
    BY <1>1, <1>7, <1>9, WorkerChanges
  <1> QED BY <1>2, <1>10 DEF ServiceInv

LEMMA SplitResponseKeeps == ASSUME ServiceInv, RespondSplit PROVE ServiceInv'
  <1>1. /\ started_ /\ op' = Idle
        /\ UNCHANGED <<started_, state_, acked, dataset_store_, assigning, worker, faults>>
    BY DEF RespondSplit, Respond, faultVars, journalVars
  <1>2. DispatcherInv'
    BY <1>1, HandlerEnds DEF ServiceInv, DispatcherInv
  <1>3. WorkersInv' /\ NoTaskDropped'
    BY <1>1, WorkersSame
  <1> QED BY <1>2, <1>3 DEF ServiceInv

(* The worker repeats once the repetition is over.                         *)
LEMMA EndOfSplitsKeeps == ASSUME ServiceInv, RespondEndOfSplits PROVE ServiceInv'
  <1>1. /\ started_ /\ op' = Idle /\ op.handler = "get_split" /\ op.todo = <<>> /\ op.end
        /\ UNCHANGED <<started_, state_, acked, dataset_store_, assigning, faults>>
    BY DEF RespondEndOfSplits, Respond, faultVars, journalVars
  <1>2. DispatcherInv'
    BY <1>1, HandlerEnds DEF ServiceInv, DispatcherInv
  <1>3. SplitInv(state_, op) /\ StateInv(state_) /\ StateInv(acked) /\ Agree(state_, acked)
    BY <1>1 DEF ServiceInv, DispatcherInv, HandlerInv
  <1>4. PICK w \in Workers, t \in DOMAIN state_.tasks, n \in Nat :
           w = op.worker /\ t = op.task /\ n = op.repetition
    BY <1>3 DEF SplitInv
  <1>. PICK j : j = op.job /\ j = state_.tasks[t].job_id
    BY <1>3, <1>4 DEF SplitInv
  <1>5. j \in DOMAIN state_.jobs /\ t \in Nat
    BY <1>3, <1>4, Fields, MapIs DEF StateInv, TasksInv
  <1>6. /\ n < state_.jobs[j].repetition /\ t \in DOMAIN acked.tasks
        /\ acked.tasks[t].job_id = j /\ acked.jobs[j].repetition = state_.jobs[j].repetition
    <2>1. n < state_.jobs[j].repetition
      BY <1>1, <1>3, <1>4 DEF SplitInv
    <2> QED BY <1>3, <1>4, <1>5, <2>1 DEF Agree
  <1>7. PICK a \in Worker : a = worker[w]
    BY DEF ServiceInv, WorkersInv
  <1>8. WorkerOK(acked, w, a) /\ ("gc" \notin faults => DropsFinished(acked, a))
    BY <1>7, WorkerIs
  <1>9. CASE t \notin a.tasks
    <2>1. worker' = worker
      BY <1>4, <1>7, <1>9 DEF RespondEndOfSplits
    <2>2. WorkersInv' /\ NoTaskDropped'
      BY <1>1, <2>1, WorkersSame
    <2> QED BY <1>2, <2>2 DEF ServiceInv
  <1>10. CASE t \in a.tasks /\ n + 1 < Repetitions
    <2>1. PICK m : m = [a.repetition EXCEPT ![t] = n + 1]
      OBVIOUS
    <2>2. t \in DOMAIN a.repetition /\ a.repetition \in Map(Nat, Nat) /\ n + 1 \in Nat
      BY <1>8, <1>10, WorkerFields DEF WorkerOK
    <2>3. /\ m \in Map(Nat, Nat) /\ DOMAIN m = DOMAIN a.repetition /\ m[t] = n + 1
          /\ \A k \in DOMAIN a.repetition \ {t} : m[k] = a.repetition[k]
      BY <2>1, <2>2, ChangeIs
    <2>4. PICK b : b = [a EXCEPT !.repetition = m]
      OBVIOUS
    <2>5. b \in Worker /\ b.tasks = a.tasks /\ b.repetition = m /\ b.heartbeat = a.heartbeat
      BY <2>3, <2>4 DEF Worker
    <2>6. worker' = [worker EXCEPT ![w] = b]
      <3>1. worker' = [worker EXCEPT ![w].repetition[t] = n + 1]
        BY <1>4, <1>7, <1>10 DEF RespondEndOfSplits
      <3> QED BY <1>7, <2>1, <2>4, <3>1
    <2>7. n + 1 <= acked.jobs[j].repetition
      <3>1. state_.jobs[j].repetition \in Nat
        BY <1>3, <1>5, JobNumbers DEF StateInv
      <3> QED BY <1>6, <3>1
    <2>8. ASSUME NEW k \in DOMAIN b.repetition
          PROVE  /\ k \in DOMAIN acked.tasks /\ acked.tasks[k].worker_address = w
                 /\ b.repetition[k] <= acked.jobs[acked.tasks[k].job_id].repetition
      <3>1. /\ k \in DOMAIN acked.tasks /\ acked.tasks[k].worker_address = w
            /\ a.repetition[k] <= acked.jobs[acked.tasks[k].job_id].repetition
        BY <1>8, <2>3, <2>5, <2>8 DEF WorkerOK
      <3>2. CASE k = t
        BY <1>6, <2>3, <2>5, <2>7, <3>1, <3>2
      <3>3. CASE k # t
        BY <2>3, <2>5, <3>1, <3>3
      <3> QED BY <3>2, <3>3
    <2>9. WorkerOK(acked, w, b)
      BY <1>8, <2>3, <2>5, <2>8 DEF WorkerOK
    <2>10. "gc" \notin faults => DropsFinished(acked, b)
      BY <1>8, <2>3, <2>5 DEF DropsFinished
    <2>11. WorkersInv' /\ NoTaskDropped'
      BY <1>1, <2>6, <2>9, <2>10, WorkerChanges
    <2> QED BY <1>2, <2>11 DEF ServiceInv
  <1>11. CASE t \in a.tasks /\ ~(n + 1 < Repetitions)
    <2>1. PICK b : b = [a EXCEPT !.ended = a.ended \cup {t}]
      OBVIOUS
    <2>2. b \in Worker /\ b.tasks = a.tasks /\ b.repetition = a.repetition /\ b.heartbeat = a.heartbeat
      BY <1>5, <2>1 DEF Worker
    <2>3. worker' = [worker EXCEPT ![w] = b]
      <3>1. worker' = [worker EXCEPT ![w].ended = @ \cup {t}]
        BY <1>4, <1>7, <1>11 DEF RespondEndOfSplits
      <3> QED BY <1>7, <2>1, <3>1
    <2>4. WorkerOK(acked, w, b) /\ ("gc" \notin faults => DropsFinished(acked, b))
      BY <1>8, <2>2, WorkerSame
    <2>5. WorkersInv' /\ NoTaskDropped'
      BY <1>1, <2>3, <2>4, WorkerChanges
    <2> QED BY <1>2, <2>5 DEF ServiceInv
  <1> QED BY <1>9, <1>10, <1>11

LEMMA AssignKeeps == ASSUME ServiceInv, AssignTask PROVE ServiceInv'
  <1>1. started_ /\ UNCHANGED <<started_, state_, acked, dataset_store_, op, faults>>
    BY DEF AssignTask, faultVars, journalVars
  <1>2. PICK tasks \in assigning : \E t \in tasks :
           LET w == state_.tasks[t].worker_address
           IN /\ worker' = [worker EXCEPT ![w] = StartTasks(@, {t}, Parallel({t}))]
              /\ assigning' = (assigning \ {tasks}) \cup ({tasks \ {t}} \ {{}})
    BY DEF AssignTask
  <1>3. PICK t, w :
           /\ t \in tasks /\ w = state_.tasks[t].worker_address
           /\ worker' = [worker EXCEPT ![w] = StartTasks(worker[w], {t}, Parallel({t}))]
           /\ assigning' = (assigning \ {tasks}) \cup ({tasks \ {t}} \ {{}})
    BY <1>2
  <1>4. /\ StateInv(state_) /\ StateInv(acked) /\ Agree(state_, acked)
        /\ \A T \in assigning : T \subseteq DOMAIN state_.tasks
    BY <1>1 DEF ServiceInv, DispatcherInv
  <1>5. t \in DOMAIN state_.tasks
    BY <1>2, <1>3, <1>4
  <1>6. w \in Workers /\ t \in Nat
    <2>1. DOMAIN state_.tasks_by_worker \subseteq Workers /\ DOMAIN state_.tasks \subseteq Nat
      BY <1>4, Fields, MapIs DEF StateInv
    <2> QED BY <1>3, <1>4, <1>5, <2>1 DEF StateInv, TasksInv
  <1>7. \A T \in assigning' : T \subseteq DOMAIN state_.tasks
    BY <1>2, <1>3, <1>4
  <1>8. DispatcherInv'
    BY <1>1, <1>7, DispatcherSame
  <1>9. PICK a, b, T, P : /\ a = worker[w] /\ T = {t}
                          /\ P = Parallel(T) /\ b = StartTasks(a, T, P)
    OBVIOUS
  <1>10. P \in SUBSET Nat /\ worker' = [worker EXCEPT ![w] = b]
    BY <1>3, <1>6, <1>9 DEF Parallel
  <1>11. \A k \in T : k \in DOMAIN acked.tasks /\ acked.tasks[k].worker_address = w
    BY <1>3, <1>4, <1>5, <1>9 DEF Agree
  <1>12. WorkerOK(acked, w, a) /\ ("gc" \notin faults => DropsFinished(acked, a))
    BY <1>6, <1>9, WorkerIs
  <1>13. /\ WorkerOK(acked, w, b) /\ b.tasks = a.tasks \cup T
         /\ DOMAIN b.repetition = DOMAIN a.repetition \cup T
    <2>1. /\ StateInv(acked) /\ WorkerOK(acked, w, a) /\ P \in SUBSET Nat
          /\ b = StartTasks(a, T, P)
      BY <1>4, <1>9, <1>10, <1>12
    <2> QED BY ONLY <1>11, <2>1, TasksStart
  <1>14. "gc" \notin faults => DropsFinished(acked, b)
    BY <1>12, <1>13 DEF DropsFinished
  <1>15. WorkersInv' /\ NoTaskDropped'
    BY <1>1, <1>6, <1>10, <1>13, <1>14, WorkerChanges
  <1> QED BY <1>8, <1>15 DEF ServiceInv

LEMMA AssignFailsKeeps == ASSUME ServiceInv, AssignFails PROVE ServiceInv'
  <1>1. started_ /\ UNCHANGED <<started_, state_, acked, dataset_store_, op, worker, faults>>
    BY DEF AssignFails, faultVars, journalVars
  <1>2. assigning' \subseteq assigning
    BY DEF AssignFails
  <1>3. DispatcherInv'
    BY <1>1, <1>2, DispatcherSame DEF ServiceInv, DispatcherInv
  <1>4. WorkersInv' /\ NoTaskDropped'
    BY <1>1, WorkersSame
  <1> QED BY <1>3, <1>4 DEF ServiceInv

LEMMA SendHeartbeatKeeps == ASSUME ServiceInv, NEW w \in Workers, SendHeartbeat(w) PROVE ServiceInv'
  <1>1. UNCHANGED <<started_, state_, acked, dataset_store_, op, assigning, faults>>
    BY DEF SendHeartbeat, dispatcherVars, journalVars, faultVars
  <1>2. DispatcherInv'
    BY <1>1, DispatcherSame DEF ServiceInv, DispatcherInv
  <1>3. PICK a \in Worker : a = worker[w]
    BY DEF ServiceInv, WorkersInv
  <1>4. PICK h : h = [current |-> a.tasks]
    OBVIOUS
  <1>5. h.current = a.tasks /\ h \in [current : SUBSET Nat]
    BY <1>4, WorkerFields
  <1>6. PICK b : b = [a EXCEPT !.heartbeat = h]
    OBVIOUS
  <1>7. b \in Worker /\ b.tasks = a.tasks /\ b.repetition = a.repetition /\ b.heartbeat = h
    BY <1>5, <1>6 DEF Worker
  <1>8. worker' = [worker EXCEPT ![w] = b]
    BY <1>3, <1>4, <1>6 DEF SendHeartbeat
  <1>9. WorkerOK(acked, w, a) /\ ("gc" \notin faults => DropsFinished(acked, a))
    BY <1>3, WorkerIs
  <1>10. WorkerOK(acked, w, b) /\ ("gc" \notin faults => DropsFinished(acked, b))
    BY <1>5, <1>7, <1>9 DEF WorkerOK, DropsFinished
  <1>11. WorkersInv' /\ NoTaskDropped'
    BY <1>1, <1>8, <1>10, WorkerChanges
  <1> QED BY <1>2, <1>11 DEF ServiceInv

LEMMA ReachEndKeeps == ASSUME ServiceInv, NEW w \in Workers, NEW t, ReachEnd(w, t) PROVE ServiceInv'
  <1>1. UNCHANGED <<started_, state_, acked, dataset_store_, op, assigning, faults>>
    BY DEF ReachEnd, dispatcherVars, journalVars, faultVars
  <1>2. DispatcherInv'
    BY <1>1, DispatcherSame DEF ServiceInv, DispatcherInv
  <1>3. PICK a \in Worker : a = worker[w]
    BY DEF ServiceInv, WorkersInv
  <1>4. t \in a.tasks /\ t \in Nat
    BY <1>3, WorkerFields DEF ReachEnd
  <1>5. PICK b : b = [a EXCEPT !.ended = a.ended \cup {t},
                               !.pending_completed = a.pending_completed \cup {t}]
    OBVIOUS
  <1>6. b \in Worker /\ b.tasks = a.tasks /\ b.repetition = a.repetition /\ b.heartbeat = a.heartbeat
    BY <1>4, <1>5 DEF Worker
  <1>7. worker' = [worker EXCEPT ![w] = b]
    BY <1>3, <1>5 DEF ReachEnd
  <1>8. WorkerOK(acked, w, a) /\ ("gc" \notin faults => DropsFinished(acked, a))
    BY <1>3, WorkerIs
  <1>9. WorkerOK(acked, w, b) /\ ("gc" \notin faults => DropsFinished(acked, b))
    BY <1>6, <1>8, WorkerSame
  <1>10. WorkersInv' /\ NoTaskDropped'
    BY <1>1, <1>7, <1>9, WorkerChanges
  <1> QED BY <1>2, <1>10 DEF ServiceInv

-----------------------------------------------------------------------------
(* Crash, restart and garbage collection.                                  *)

LEMMA EmptyStateInv == StateInv(EmptyState)
  <1>1. PICK s : s = EmptyState
    OBVIOUS
  <1>2. PICK e : e = <<>>
    OBVIOUS
  <1>3. DOMAIN e = {} /\ \A K, V : e \in Map(K, V)
    BY <1>2, EmptyMap
  <1>4. s = [datasets_by_id |-> e, jobs |-> e, tasks |-> e, tasks_by_worker |-> e, tasks_by_job |-> e,
             jobs_for_client_ids |-> e, next_available_dataset_id |-> 1, next_available_job_id |-> 1,
             next_available_job_client_id |-> 1, next_available_task_id |-> 1]
    BY <1>1, <1>2 DEF EmptyState
  <1>5. /\ e \in Map(Nat, Fingerprints) /\ e \in Map(Nat, Job) /\ e \in Map(Nat, Task)
        /\ e \in Map(Workers, SUBSET Nat) /\ e \in Map(Nat, SUBSET Nat) /\ e \in Map(Nat, Nat)
    BY <1>3
  <1>6. s \in State
    BY <1>4, <1>5 DEF State
  <1>7. IdsInv(s) /\ TasksInv(s)
    BY <1>3, <1>4 DEF IdsInv, TasksInv
  <1>8. ClientsInv(s)
    BY <1>3, <1>4, FS_EmptySet DEF ClientsInv
  <1> QED BY <1>1, <1>6, <1>7, <1>8 DEF StateInv

(* A crash leaves what the journal has, which covers what was recorded.    *)
LEMMA WithinSelf == ASSUME NEW s, StateInv(s) PROVE Covers(s, s)
  <1>1. \A j \in DOMAIN s.jobs : s.jobs[j].repetition <= s.jobs[j].repetition
    BY JobNumbers DEF StateInv
  <1> QED BY <1>1 DEF Covers, Within

LEMMA CoversWorker ==
    ASSUME NEW s, StateInv(s), NEW r, StateInv(r), Covers(s, r), NEW w, NEW a, WorkerOK(s, w, a)
    PROVE  WorkerOK(r, w, a) /\ (DropsFinished(s, a) => DropsFinished(r, a))
  <1>1. ASSUME NEW t \in DOMAIN a.repetition
        PROVE  /\ t \in DOMAIN s.tasks /\ (s.tasks[t].finished => r.tasks[t].finished)
               /\ t \in DOMAIN r.tasks /\ r.tasks[t].worker_address = w
               /\ a.repetition[t] <= r.jobs[r.tasks[t].job_id].repetition
    <2>1. /\ t \in DOMAIN s.tasks /\ s.tasks[t].worker_address = w
          /\ a.repetition[t] <= s.jobs[s.tasks[t].job_id].repetition
      BY DEF WorkerOK
    <2>2. PICK k \in DOMAIN s.jobs : k = s.tasks[t].job_id
      BY <2>1 DEF StateInv, TasksInv
    <2>3. /\ t \in DOMAIN r.tasks /\ r.tasks[t].worker_address = w /\ r.tasks[t].job_id = k
          /\ s.tasks[t].finished => r.tasks[t].finished
          /\ k \in DOMAIN r.jobs /\ s.jobs[k].repetition <= r.jobs[k].repetition
      BY <2>1, <2>2 DEF Covers, Within
    <2>4. s.jobs[k].repetition \in Nat /\ r.jobs[k].repetition \in Nat
      BY <2>2, <2>3, JobNumbers DEF StateInv
    <2>5. a.repetition[t] \in Nat
      <3>1. a.repetition \in Map(Nat, Nat)
        BY DEF WorkerOK, Worker
      <3> QED BY <3>1, MapIs
    <2>6. a.repetition[t] <= r.jobs[k].repetition
      BY <2>1, <2>2, <2>3, <2>4, <2>5
    <2> QED BY <2>1, <2>3, <2>6
  <1>2. DropsFinished(s, a) => DropsFinished(r, a)
    BY <1>1 DEF DropsFinished
  <1> QED BY <1>1, <1>2 DEF WorkerOK

LEMMA CrashKeeps == ASSUME ServiceInv, JournalInv, Crash PROVE ServiceInv'
  <1>1. /\ started_' = FALSE /\ state_' = EmptyState /\ op' = Idle /\ assigning' = {}
        /\ worker' = [w \in Workers |-> [worker[w] EXCEPT !.heartbeat = Idle]]
        /\ faults' = faults \cup {"crash"} \cup Cut
        /\ acked' = (IF readable THEN journal ELSE acked) /\ dataset_store_' = dataset_store_
    BY DEF Crash
  <1>2. /\ StateInv(state_') /\ StateInv(acked) /\ StateInv(acked') /\ Covers(acked, acked')
        /\ \A d \in DOMAIN acked'.datasets_by_id : <<d, acked'.datasets_by_id[d]>> \in dataset_store_
    <2>1. StateInv(state_') /\ StateInv(acked) /\ StoreInv(acked, dataset_store_, op.todo)
      BY <1>1, EmptyStateInv DEF ServiceInv, DispatcherInv
    <2>2. CASE readable
      BY <1>1, <2>1, <2>2 DEF JournalInv
    <2>3. CASE ~readable
      BY <1>1, <2>1, <2>3, WithinSelf DEF StoreInv
    <2> QED BY <2>1, <2>2, <2>3
  <1>3. op'.todo = <<>> /\ HandlerInv(state_', op') /\ TodoInv(state_', op'.todo)
    BY <1>1, IdleHandler
  <1>4. StoreInv(acked', dataset_store_', op'.todo)
    BY <1>1, <1>2, <1>3 DEF StoreInv
  <1>5. DispatcherInv'
    BY <1>1, <1>2, <1>3, <1>4 DEF DispatcherInv
  <1>6. ASSUME NEW w \in Workers
        PROVE  /\ worker'[w] \in Worker /\ WorkerOK(acked', w, worker'[w])
               /\ "gc" \notin faults => DropsFinished(acked', worker'[w])
    <2>1. PICK a \in Worker : a = worker[w]
      BY DEF ServiceInv, WorkersInv
    <2>2. PICK b : b = [a EXCEPT !.heartbeat = Idle]
      OBVIOUS
    <2>3. b \in Worker /\ b.tasks = a.tasks /\ b.repetition = a.repetition /\ b.heartbeat = Idle
      BY <2>2 DEF Worker
    <2>4. worker'[w] = b
      BY <1>1, <2>1, <2>2
    <2>5. WorkerOK(acked, w, a) /\ ("gc" \notin faults => DropsFinished(acked, a))
      BY <2>1, WorkerIs
    <2>6. WorkerOK(acked, w, b) /\ ("gc" \notin faults => DropsFinished(acked, b))
      BY <2>3, <2>5, WorkerSame
    <2>7. WorkerOK(acked', w, b) /\ ("gc" \notin faults => DropsFinished(acked', b))
      BY <1>2, <2>6, CoversWorker
    <2> QED BY <2>3, <2>4, <2>7
  <1>7. worker' \in [Workers -> Worker]
    BY <1>1, <1>6
  <1>8. WorkersInv'
    BY <1>6, <1>7 DEF WorkersInv
  <1>9. NoTaskDropped'
    <2>1. "gc" \notin faults' => "gc" \notin faults
      BY <1>1
    <2> QED BY <1>6, <2>1 DEF NoTaskDropped, DropsFinished
  <1> QED BY <1>5, <1>8, <1>9 DEF ServiceInv

LEMMA StartKeeps == ASSUME ServiceInv, JournalInv, Start PROVE ServiceInv'
  <1>1. /\ ~started_ /\ started_' = TRUE /\ state_' = acked
        /\ UNCHANGED <<acked, dataset_store_, op, assigning, worker, faults>>
    BY DEF Start, faultVars, journalVars, JournalInv
  <1>2. op = Idle /\ assigning = {} /\ StateInv(acked) /\ StoreInv(acked, dataset_store_, op.todo)
    BY <1>1 DEF ServiceInv, DispatcherInv
  <1>3. HandlerInv(acked, op) /\ TodoInv(acked, op.todo)
    BY <1>2, IdleHandler
  <1>4. DispatcherInv'
    BY <1>1, <1>2, <1>3, AgreeSelf DEF DispatcherInv
  <1>5. WorkersInv' /\ NoTaskDropped'
    BY <1>1, WorkersSame
  <1> QED BY <1>4, <1>5 DEF ServiceInv

LEMMA CollectJobKeeps == ASSUME ServiceInv, NEW j, GcOldJobs(j) PROVE ServiceInv'
  <1>1. /\ started_ /\ op = Idle /\ j \in DOMAIN state_.jobs
        /\ state_' = ApplyUpdate(state_, [type |-> "garbage_collect_job", job_id |-> j])
        /\ faults' = faults \cup {"gc"}
        /\ UNCHANGED <<started_, acked, dataset_store_, op, assigning, worker>>
    BY DEF GcOldJobs, CanHandle, journalVars
  <1>2. /\ StateInv(state_) /\ StateInv(acked) /\ Agree(state_, acked)
        /\ StoreInv(acked, dataset_store_, op.todo)
        /\ \A T \in assigning : T \subseteq DOMAIN state_.tasks
    BY <1>1 DEF ServiceInv, DispatcherInv
  <1>3. StateInv(state_') /\ Agree(state_', state_)
    BY <1>1, <1>2, CollectKeeps
  <1>4. Agree(state_', acked)
    BY <1>2, <1>3, AgreeFollows
  <1>5. DOMAIN state_'.tasks = DOMAIN state_.tasks
    BY <1>3 DEF Agree
  <1>6. HandlerInv(state_', op') /\ TodoInv(state_', op'.todo)
    BY <1>1, IdleHandler
  <1>7. DispatcherInv'
    BY <1>1, <1>2, <1>3, <1>4, <1>5, <1>6 DEF DispatcherInv
  <1>8. WorkersInv' /\ NoTaskDropped'
    BY <1>1 DEF ServiceInv, WorkersInv, NoTaskDropped
  <1> QED BY <1>7, <1>8 DEF ServiceInv

-----------------------------------------------------------------------------
(* What an update does to the progress of the jobs: how many splits of the *)
(* repetition have been recorded, and which jobs are finished.             *)

Indexed(s, u, j) == IF u.type = "produce_split" /\ j = u.job_id
                    THEN (IF u.finished THEN 0 ELSE s.jobs[j].index + 1) ELSE s.jobs[j].index

Ends(s, u, j) == u.type = "finish_task" /\ j = s.tasks[u.task_id].job_id

Progress(r, s, u) ==
    /\ \A j \in DOMAIN s.jobs :
          /\ r.jobs[j].index = Indexed(s, u, j)
          /\ ~Ends(s, u, j) => r.jobs[j].finished = s.jobs[j].finished
          /\ Ends(s, u, j) => r.jobs[j].finished =
                                 \A k \in s.tasks_by_job[j] \ {u.task_id} : s.tasks[k].finished
    /\ u.type = "create_job" => r.jobs[u.job_id].index = 0 /\ ~r.jobs[u.job_id].finished

(* The tasks that an update lists for a job.                               *)
Listed(r, s, u) ==
    /\ \A j \in DOMAIN s.jobs :
          r.tasks_by_job[j] = s.tasks_by_job[j] \cup
                                 (IF u.type = "create_task" /\ j = u.job_id THEN {u.task_id} ELSE {})
    /\ u.type = "create_job" => r.tasks_by_job[u.job_id] = {}
    /\ u.type = "finish_task" => r.tasks[u.task_id].finished

(* Only the task that the update finishes becomes finished.                *)
Finishes(r, s, u) ==
    \A t \in DOMAIN r.tasks : r.tasks[t].finished =>
       (t \in DOMAIN s.tasks /\ s.tasks[t].finished) \/ (u.type = "finish_task" /\ t = u.task_id)

(* The jobs stay as they are, or one of them changes.                      *)
LEMMA ProgressKept ==
    ASSUME NEW s, NEW r, NEW u, r.jobs = s.jobs,
           u.type \notin {"create_job", "produce_split", "finish_task"}
    PROVE  Progress(r, s, u)
  BY DEF Progress, Indexed, Ends

LEMMA ProgressOf ==
    ASSUME NEW s \in State, NEW r, NEW u, NEW k \in DOMAIN s.jobs, NEW job \in Job,
           r.jobs = [s.jobs EXCEPT ![k] = job], job.index = Indexed(s, u, k),
           job.finished = s.jobs[k].finished, u.type \notin {"create_job", "finish_task"},
           u.type = "produce_split" => k = u.job_id
    PROVE  Progress(r, s, u)
  <1>1. r.jobs[k] = job /\ \A j \in DOMAIN s.jobs \ {k} : r.jobs[j] = s.jobs[j]
    BY Fields, ChangeIs
  <1>2. ASSUME NEW j \in DOMAIN s.jobs
        PROVE  /\ r.jobs[j].index = Indexed(s, u, j)
               /\ r.jobs[j].finished = s.jobs[j].finished
    <2>1. CASE j = k
      BY <1>1, <2>1
    <2>2. CASE j # k
      BY <1>1, <2>2 DEF Indexed
    <2> QED BY <2>1, <2>2
  <1> QED BY <1>2 DEF Progress, Ends

LEMMA ListedKept ==
    ASSUME NEW s, NEW r, NEW u, r.tasks_by_job = s.tasks_by_job,
           u.type \notin {"create_job", "create_task", "finish_task"}
    PROVE  Listed(r, s, u)
  BY DEF Listed

LEMMA FinishesKept ==
    ASSUME NEW s, NEW r, NEW u, r.tasks = s.tasks
    PROVE  Finishes(r, s, u)
  BY DEF Finishes

LEMMA UpdateProgress ==
    ASSUME NEW s, StateInv(s), NEW u \in Update, Applies(s, u), NEW r, r = ApplyUpdate(s, u)
    PROVE  Progress(r, s, u) /\ Listed(r, s, u) /\ Finishes(r, s, u)
  <1>0. s \in State /\ TasksInv(s) /\ DOMAIN s.tasks_by_job = DOMAIN s.jobs
    BY DEF StateInv, TasksInv
  <1>1. CASE u.type = "register_dataset"
    <2>1. r = RegisterDataset(s, u) /\ u.dataset_id \in Nat /\ u.fingerprint \in Fingerprints
      BY <1>1, UpdateFields DEF ApplyUpdate
    <2>2. SameJobs(r, s) /\ SameTasks(r, s)
      BY <1>0, <2>1, RegisterDatasetIs
    <2> QED BY <1>1, <2>2, ProgressKept, ListedKept, FinishesKept DEF SameJobs, SameTasks
  <1>2. CASE u.type = "register_worker"
    <2>1. r = RegisterWorker(s, u) /\ u.worker_address \in Workers
      BY <1>2, UpdateFields DEF ApplyUpdate
    <2>2. SameJobs(r, s) /\ r.tasks_by_job = s.tasks_by_job /\ r.tasks = s.tasks
      BY <1>0, <2>1, RegisterWorkerIs
    <2> QED BY <1>2, <2>2, ProgressKept, ListedKept, FinishesKept DEF SameJobs
  <1>3. CASE u.type = "create_job"
    <2>1. /\ r = CreateJob(s, u) /\ u.job_id \in Nat /\ u.dataset_id \in Nat
          /\ u.processing_mode \in Modes /\ u.named_job_key \in Keys
      BY <1>3, UpdateFields DEF ApplyUpdate
    <2>2. u.job_id \notin DOMAIN s.jobs
      BY <1>3 DEF Applies, Checks
    <2>3. PICK job \in Job : /\ job.index = 0 /\ ~job.finished
                             /\ r.jobs = Put(s.jobs, u.job_id, job)
                             /\ r.tasks_by_job = Put(s.tasks_by_job, u.job_id, {})
                             /\ r.tasks = s.tasks
      BY <1>0, <2>1, CreateJobIs
    <2>4. /\ r.jobs[u.job_id] = job /\ r.tasks_by_job[u.job_id] = {}
          /\ \A j \in DOMAIN s.jobs : r.jobs[j] = s.jobs[j] /\ r.tasks_by_job[j] = s.tasks_by_job[j]
      BY <1>0, <2>2, <2>3 DEF Put
    <2>5. Progress(r, s, u)
      BY <1>3, <2>3, <2>4 DEF Progress, Indexed, Ends
    <2>6. Listed(r, s, u)
      BY <1>3, <2>4 DEF Listed
    <2> QED BY <2>3, <2>5, <2>6, FinishesKept
  <1>4. CASE u.type = "produce_split"
    <2>1. r = ProduceSplit(s, u) /\ u.job_id \in DOMAIN s.jobs /\ u.finished \in BOOLEAN
      BY <1>4, UpdateFields DEF ApplyUpdate, Applies
    <2>2. PICK job \in Job : SplitProduced(r, s, u, job)
      BY <1>0, <2>1, ProduceSplitIs
    <2>3. job.index = Indexed(s, u, u.job_id) /\ job.finished = s.jobs[u.job_id].finished
      BY <1>4, <2>2 DEF SplitProduced, Indexed
    <2>4. Progress(r, s, u)
      BY <1>0, <1>4, <2>1, <2>2, <2>3, ProgressOf DEF SplitProduced
    <2> QED BY <1>4, <2>2, <2>4, ListedKept, FinishesKept DEF SplitProduced, SameTasks
  <1>5. CASE u.type = "acquire_job_client"
    <2>1. r = AcquireJobClient(s, u) /\ u.job_id \in DOMAIN s.jobs /\ u.job_client_id \in Nat
      BY <1>5, UpdateFields DEF ApplyUpdate, Applies, Checks
    <2>2. PICK job \in Job : ClientAcquired(r, s, u, job)
      BY <1>0, <2>1, AcquireJobClientIs
    <2>3. job.index = Indexed(s, u, u.job_id) /\ job.finished = s.jobs[u.job_id].finished
      BY <1>5, <2>2 DEF ClientAcquired, Indexed
    <2>4. Progress(r, s, u)
      BY <1>0, <1>5, <2>1, <2>2, <2>3, ProgressOf DEF ClientAcquired
    <2> QED BY <1>5, <2>2, <2>4, ListedKept, FinishesKept DEF ClientAcquired, SameTasks
  <1>6. CASE u.type = "release_job_client"
    <2>1. r = ReleaseJobClient(s, u) /\ u.job_client_id \in DOMAIN s.jobs_for_client_ids
      BY <1>6, UpdateFields DEF ApplyUpdate, Applies, Checks
    <2>2. PICK k : k = s.jobs_for_client_ids[u.job_client_id]
      OBVIOUS
    <2>3. k \in DOMAIN s.jobs /\ s.jobs[k].num_clients > 0
      BY <1>6, <2>1, <2>2 DEF StateInv, ClientsInv, Applies, Checks
    <2>4. PICK job \in Job : ClientReleased(r, s, u, k, job)
      BY <1>0, <2>1, <2>2, <2>3, ReleaseJobClientIs
    <2>5. job.index = Indexed(s, u, k) /\ job.finished = s.jobs[k].finished
      BY <1>6, <2>4 DEF ClientReleased, Indexed
    <2>6. Progress(r, s, u)
      BY <1>0, <1>6, <2>3, <2>4, <2>5, ProgressOf DEF ClientReleased
    <2> QED BY <1>6, <2>4, <2>6, ListedKept, FinishesKept DEF ClientReleased, SameTasks
  <1>7. CASE u.type = "create_task"
    <2>1. /\ r = CreateTask(s, u) /\ u.task_id \in Nat /\ u.job_id \in DOMAIN s.tasks_by_job
          /\ u.worker_address \in DOMAIN s.tasks_by_worker
      BY <1>0, <1>7, UpdateFields DEF ApplyUpdate, Applies, Checks
    <2>2. PICK task \in Task :
             /\ task.job_id = u.job_id /\ task.worker_address = u.worker_address /\ ~task.finished
             /\ r \in State /\ SameData(r, s) /\ SameJobs(r, s) /\ SameClients(r, s)
             /\ r.tasks = Put(s.tasks, u.task_id, task)
             /\ r.tasks_by_job = [s.tasks_by_job EXCEPT ![u.job_id] = s.tasks_by_job[u.job_id] \cup {u.task_id}]
             /\ r.tasks_by_worker = [s.tasks_by_worker EXCEPT ![u.worker_address] =
                                        s.tasks_by_worker[u.worker_address] \cup {u.task_id}]
             /\ r.next_available_task_id = Beyond(s.next_available_task_id, u.task_id)
      BY <1>0, <2>1, CreateTaskIs
    <2>3. Progress(r, s, u)
      BY <1>7, <2>2, ProgressKept DEF SameJobs
    <2>4. s.tasks_by_job \in [DOMAIN s.tasks_by_job -> SUBSET Nat]
      BY <1>0, Fields, MapIs
    <2>5. Listed(r, s, u)
      BY <1>0, <1>7, <2>1, <2>2, <2>4 DEF Listed
    <2>6. Finishes(r, s, u)
      BY <2>2 DEF Finishes, Put
    <2> QED BY <2>3, <2>5, <2>6
  <1>8. CASE u.type = "finish_task"
    <2>1. r = FinishTask(s, u) /\ u.task_id \in DOMAIN s.tasks
      BY <1>8 DEF ApplyUpdate, Applies, Checks
    <2>2. PICK t \in DOMAIN s.tasks : t = u.task_id
      BY <2>1
    <2>3. PICK w \in DOMAIN s.tasks_by_worker, k \in DOMAIN s.jobs :
             w = s.tasks[t].worker_address /\ k = s.tasks[t].job_id
      BY <1>0 DEF TasksInv
    <2>4. PICK task \in Task, job \in Job : TaskFinished(r, s, t, w, k, task, job)
      BY <1>0, <2>1, <2>2, <2>3, FinishTaskIs
    <2>5. /\ r.jobs[k] = job /\ \A j \in DOMAIN s.jobs \ {k} : r.jobs[j] = s.jobs[j]
      BY <1>0, <2>4, Fields, ChangeIs DEF TaskFinished
    <2>6. r.tasks[t] = task /\ task.finished /\ r.tasks_by_job = s.tasks_by_job
      BY <1>0, <2>4, Fields, ChangeIs DEF TaskFinished
    <2>7. Listed(r, s, u)
      BY <1>8, <2>2, <2>6 DEF Listed
    <2>8. job.index = s.jobs[k].index
          /\ job.finished = \A i \in s.tasks_by_job[k] \ {t} : s.tasks[i].finished
      BY <2>4 DEF TaskFinished
    <2>9. ASSUME NEW j \in DOMAIN s.jobs
          PROVE  /\ r.jobs[j].index = Indexed(s, u, j)
                 /\ ~Ends(s, u, j) => r.jobs[j].finished = s.jobs[j].finished
                 /\ Ends(s, u, j) => r.jobs[j].finished =
                                        \A i \in s.tasks_by_job[j] \ {u.task_id} : s.tasks[i].finished
      <3>1. CASE j = k
        BY <1>8, <2>2, <2>3, <2>5, <2>8, <3>1 DEF Indexed, Ends
      <3>2. CASE j # k
        BY <1>8, <2>2, <2>3, <2>5, <3>2 DEF Indexed, Ends
      <3> QED BY <3>1, <3>2
    <2>10. Progress(r, s, u)
      BY <1>8, <2>9 DEF Progress
    <2>11. DOMAIN r.tasks = DOMAIN s.tasks /\ \A i \in DOMAIN s.tasks \ {t} : r.tasks[i] = s.tasks[i]
      BY <1>0, <2>4, Fields, ChangeIs DEF TaskFinished
    <2>12. Finishes(r, s, u)
      BY <1>8, <2>2, <2>11 DEF Finishes
    <2> QED BY <2>7, <2>10, <2>12
  <1> QED BY <1>1, <1>2, <1>3, <1>4, <1>5, <1>6, <1>7, <1>8, UpdateFields

-----------------------------------------------------------------------------
(* The journal.                                                            *)

LEMMA CoversApplies ==
    ASSUME NEW a, NEW b, Covers(a, b), NEW u, Applies(a, u), Checks(b, u)
    PROVE  Applies(b, u)
  BY DEF Covers, Within, Applies

(* A record that state_ does not get.                                      *)
LEMMA CoversMore ==
    ASSUME NEW a, StateInv(a), NEW b, StateInv(b), Covers(a, b), NEW u, NEW d, StateInv(d), Effect(d, b, u)
    PROVE  Covers(a, d)
  <1>1. /\ DOMAIN b.tasks_by_worker \subseteq DOMAIN d.tasks_by_worker
        /\ DOMAIN b.jobs \subseteq DOMAIN d.jobs
    BY DEF Effect, TasksEffect, JobsEffect
  <1>2. \A x \in DOMAIN b.datasets_by_id : x \in DOMAIN d.datasets_by_id
    BY DEF Effect, DataEffect, Put
  <1>3. ASSUME NEW j \in DOMAIN a.jobs
        PROVE  j \in DOMAIN d.jobs /\ a.jobs[j].repetition <= d.jobs[j].repetition
    <2>1. j \in DOMAIN b.jobs /\ a.jobs[j].repetition <= b.jobs[j].repetition
      BY DEF Covers, Within
    <2>2. d.jobs[j].repetition = b.jobs[j].repetition + Repeats(u, j)
      BY <2>1 DEF Effect, JobsEffect
    <2>3. a.jobs[j].repetition \in Nat /\ b.jobs[j].repetition \in Nat /\ Repeats(u, j) \in {0, 1}
      BY <2>1, JobNumbers DEF StateInv, Repeats
    <2> QED BY <1>1, <2>1, <2>2, <2>3
  <1>4. ASSUME NEW t \in DOMAIN a.tasks
        PROVE  /\ t \in DOMAIN d.tasks /\ d.tasks[t].job_id = a.tasks[t].job_id
               /\ d.tasks[t].worker_address = a.tasks[t].worker_address
               /\ a.tasks[t].finished => d.tasks[t].finished
    <2>1. /\ t \in DOMAIN b.tasks /\ b.tasks[t].job_id = a.tasks[t].job_id
          /\ b.tasks[t].worker_address = a.tasks[t].worker_address
          /\ a.tasks[t].finished => b.tasks[t].finished
      BY DEF Covers, Within
    <2> QED BY <2>1 DEF Effect, TasksEffect
  <1> QED BY <1>1, <1>2, <1>3, <1>4 DEF Covers, Within

(* A record that both get.                                                 *)
LEMMA CoversBoth ==
    ASSUME NEW a, StateInv(a), NEW b, StateInv(b), Covers(a, b), NEW u,
           NEW c, StateInv(c), Effect(c, a, u), Finishes(c, a, u),
           NEW d, StateInv(d), Effect(d, b, u), Listed(d, b, u)
    PROVE  Covers(c, d)
  <1>1. DOMAIN c.tasks_by_worker \subseteq DOMAIN d.tasks_by_worker
    BY DEF Effect, TasksEffect, Covers, Within
  <1>2. \A x \in DOMAIN c.datasets_by_id : x \in DOMAIN d.datasets_by_id
    BY DEF Effect, DataEffect, Put, Covers, Within
  <1>3. ASSUME NEW j \in DOMAIN c.jobs
        PROVE  j \in DOMAIN d.jobs /\ c.jobs[j].repetition <= d.jobs[j].repetition
    <2>1. CASE j \in DOMAIN a.jobs
      <3>1. j \in DOMAIN b.jobs /\ a.jobs[j].repetition <= b.jobs[j].repetition
        BY <2>1 DEF Covers, Within
      <3>2. /\ d.jobs[j].repetition = b.jobs[j].repetition + Repeats(u, j)
            /\ c.jobs[j].repetition = a.jobs[j].repetition + Repeats(u, j)
            /\ j \in DOMAIN d.jobs
        BY <2>1, <3>1 DEF Effect, JobsEffect
      <3>3. a.jobs[j].repetition \in Nat /\ b.jobs[j].repetition \in Nat /\ Repeats(u, j) \in {0, 1}
        BY <2>1, <3>1, JobNumbers DEF StateInv, Repeats
      <3> QED BY <3>1, <3>2, <3>3
    <2>2. CASE j \notin DOMAIN a.jobs
      <3>1. u.type = "create_job" /\ j = u.job_id
        BY <2>2 DEF Effect, JobsEffect
      <3>2. j \in DOMAIN d.jobs /\ c.jobs[j].repetition = 0 /\ d.jobs[j].repetition = 0
        BY <3>1 DEF Effect, JobsEffect
      <3> QED BY <3>2
    <2> QED BY <2>1, <2>2
  <1>4. ASSUME NEW t \in DOMAIN c.tasks
        PROVE  /\ t \in DOMAIN d.tasks /\ d.tasks[t].job_id = c.tasks[t].job_id
               /\ d.tasks[t].worker_address = c.tasks[t].worker_address
               /\ c.tasks[t].finished => d.tasks[t].finished
    <2>1. CASE t \in DOMAIN a.tasks
      <3>1. /\ t \in DOMAIN b.tasks /\ b.tasks[t].job_id = a.tasks[t].job_id
            /\ b.tasks[t].worker_address = a.tasks[t].worker_address
            /\ a.tasks[t].finished => b.tasks[t].finished
        BY <2>1 DEF Covers, Within
      <3>2. /\ t \in DOMAIN d.tasks /\ d.tasks[t].job_id = b.tasks[t].job_id
            /\ d.tasks[t].worker_address = b.tasks[t].worker_address
            /\ b.tasks[t].finished => d.tasks[t].finished
            /\ c.tasks[t].job_id = a.tasks[t].job_id /\ c.tasks[t].worker_address = a.tasks[t].worker_address
        BY <2>1, <3>1 DEF Effect, TasksEffect
      <3>3. c.tasks[t].finished => a.tasks[t].finished \/ (u.type = "finish_task" /\ t = u.task_id)
        BY DEF Finishes
      <3>4. u.type = "finish_task" => d.tasks[u.task_id].finished
        BY DEF Listed
      <3> QED BY <3>1, <3>2, <3>3, <3>4
    <2>2. CASE t \notin DOMAIN a.tasks
      <3>1. u.type = "create_task" /\ t = u.task_id
        BY <2>2 DEF Effect, TasksEffect
      <3>2. ~c.tasks[t].finished
        BY <2>2, <3>1 DEF Finishes
      <3> QED BY <3>1, <3>2 DEF Effect, TasksEffect
    <2> QED BY <2>1, <2>2
  <1> QED BY <1>1, <1>2, <1>3, <1>4 DEF Covers, Within

(* What Write does with the update of the handler, whether Apply goes on   *)
(* to state_ or not.                                                       *)
LEMMA WriteIs ==
    ASSUME ServiceInv, JournalInv, started_, op.todo # <<>>, Write(Head(op.todo)),
           dataset_store_' = dataset_store_
    PROVE  \E u \in Update :
              /\ u = Head(op.todo) /\ readable' = Replays(u) /\ Applies(acked, u)
              /\ Replays(u) => /\ journal' = ApplyUpdate(journal, u) /\ Applies(journal, u)
                               /\ Effect(journal', journal, u) /\ Listed(journal', journal, u)
              /\ ~Replays(u) => journal' = journal
              /\ readable' \in BOOLEAN /\ StateInv(journal')
              /\ \A d \in DOMAIN journal'.datasets_by_id :
                    <<d, journal'.datasets_by_id[d]>> \in dataset_store_'
  <1>1. PICK u : u = Head(op.todo)
    OBVIOUS
  <1>2. readable' = Replays(u) /\ journal' = IF Replays(u) THEN ApplyUpdate(journal, u) ELSE journal
    BY <1>1 DEF Write
  <1>3. /\ StateInv(state_) /\ StateInv(acked) /\ TodoInv(state_, op.todo) /\ Agree(state_, acked)
        /\ StoreInv(acked, dataset_store_, op.todo)
    BY DEF ServiceInv, DispatcherInv
  <1>4. u \in Update /\ Applies(state_, u)
    BY <1>1, <1>3, TodoApplies
  <1>5. Applies(acked, u)
    BY <1>3, <1>4, AgreeApplies
  <1>6. Replays(u) \in BOOLEAN /\ (Replays(u) => readable /\ Checks(journal, u))
    BY DEF Replays
  <1>7. StateInv(journal) /\ \A d \in DOMAIN journal.datasets_by_id : <<d, journal.datasets_by_id[d]>> \in dataset_store_
    BY DEF JournalInv
  <1>8. CASE Replays(u)
    <2>1. Applies(journal, u)
      BY <1>5, <1>6, <1>8, CoversApplies DEF JournalInv
    <2>2. journal' = ApplyUpdate(journal, u)
      BY <1>2, <1>8
    <2>3. StateInv(journal') /\ Effect(journal', journal, u) /\ Listed(journal', journal, u)
      BY <1>4, <1>7, <2>1, <2>2, UpdateKeeps, UpdateProgress
    <2>4. \A d \in DOMAIN journal'.datasets_by_id : <<d, journal'.datasets_by_id[d]>> \in dataset_store_
      <3>1. CASE u.type = "register_dataset"
        <4>1. <<u.dataset_id, u.fingerprint>> \in dataset_store_
          BY <1>1, <1>3, <3>1 DEF StoreInv
        <4>2. journal'.datasets_by_id = Put(journal.datasets_by_id, u.dataset_id, u.fingerprint)
          BY <2>3, <3>1 DEF Effect, DataEffect
        <4> QED BY <1>7, <4>1, <4>2 DEF Put
      <3>2. CASE u.type # "register_dataset"
        BY <1>7, <2>3, <3>2 DEF Effect, DataEffect
      <3> QED BY <3>1, <3>2
    <2> QED BY <1>1, <1>2, <1>4, <1>5, <1>6, <1>8, <2>1, <2>2, <2>3, <2>4
  <1>9. CASE ~Replays(u)
    <2>1. journal' = journal
      BY <1>2, <1>9
    <2> QED BY <1>1, <1>2, <1>4, <1>5, <1>6, <1>7, <1>9, <2>1
  <1> QED BY <1>8, <1>9

LEMMA JournalApply == ASSUME ServiceInv, JournalInv, Apply PROVE JournalInv'
  <1>1. /\ started_ /\ op.todo # <<>> /\ Write(Head(op.todo)) /\ acked' = ApplyUpdate(acked, Head(op.todo))
        /\ UNCHANGED <<started_, dataset_store_, faults>>
    BY DEF Apply, faultVars
  <1>2. PICK u \in Update :
              /\ u = Head(op.todo) /\ readable' = Replays(u) /\ Applies(acked, u)
              /\ Replays(u) => /\ journal' = ApplyUpdate(journal, u) /\ Applies(journal, u)
                               /\ Effect(journal', journal, u) /\ Listed(journal', journal, u)
              /\ ~Replays(u) => journal' = journal
              /\ readable' \in BOOLEAN /\ StateInv(journal')
              /\ \A d \in DOMAIN journal'.datasets_by_id :
                    <<d, journal'.datasets_by_id[d]>> \in dataset_store_'
    BY <1>1, WriteIs
  <1>3. acked' = ApplyUpdate(acked, u) /\ StateInv(acked)
    BY <1>1, <1>2 DEF ServiceInv, DispatcherInv
  <1>4. StateInv(acked') /\ Effect(acked', acked, u) /\ Finishes(acked', acked, u)
    BY <1>2, <1>3, UpdateKeeps, UpdateProgress
  <1>5. readable' => Covers(acked', journal')
    <2>1. SUFFICES ASSUME Replays(u) PROVE Covers(acked', journal')
      BY <1>2
    <2>2. Covers(acked, journal) /\ StateInv(journal)
      BY <2>1 DEF JournalInv, Replays
    <2> QED BY <1>2, <1>3, <1>4, <2>1, <2>2, CoversBoth
  <1>6. "kept" \notin faults' => readable' /\ journal' = acked'
    <2>1. SUFFICES ASSUME "kept" \notin faults PROVE readable' /\ journal' = acked'
      BY <1>1
    <2>2. readable /\ journal = acked
      BY <2>1 DEF JournalInv
    <2>3. Replays(u)
      BY <1>2, <2>2 DEF Replays, Applies
    <2> QED BY <1>2, <1>3, <2>2, <2>3
  <1> QED BY <1>1, <1>2, <1>5, <1>6 DEF JournalInv

LEMMA JournalFails == ASSUME ServiceInv, JournalInv, ApplyFails PROVE JournalInv'
  <1>1. /\ started_ /\ op.todo # <<>> /\ UNCHANGED <<started_, acked, dataset_store_>>
        /\ \/ UNCHANGED <<journal, readable>> /\ faults \subseteq faults'
           \/ Write(Head(op.todo)) /\ "kept" \in faults'
        /\ "write" \in faults'
    BY DEF ApplyFails
  <1>2. CASE UNCHANGED <<journal, readable>> /\ faults \subseteq faults'
    BY <1>1, <1>2 DEF JournalInv
  <1>3. CASE Write(Head(op.todo)) /\ "kept" \in faults'
    <2>1. PICK u \in Update :
              /\ u = Head(op.todo) /\ readable' = Replays(u) /\ Applies(acked, u)
              /\ Replays(u) => /\ journal' = ApplyUpdate(journal, u) /\ Applies(journal, u)
                               /\ Effect(journal', journal, u) /\ Listed(journal', journal, u)
              /\ ~Replays(u) => journal' = journal
              /\ readable' \in BOOLEAN /\ StateInv(journal')
              /\ \A d \in DOMAIN journal'.datasets_by_id :
                    <<d, journal'.datasets_by_id[d]>> \in dataset_store_'
      BY <1>1, <1>3, WriteIs
    <2>2. readable' => Covers(acked, journal')
      <3>1. SUFFICES ASSUME Replays(u) PROVE Covers(acked, journal')
        BY <2>1
      <3>2. Covers(acked, journal) /\ StateInv(journal) /\ StateInv(acked)
        BY <3>1 DEF JournalInv, Replays, ServiceInv, DispatcherInv
      <3> QED BY <2>1, <3>1, <3>2, CoversMore
    <2> QED BY <1>1, <1>3, <2>1, <2>2 DEF JournalInv
  <1> QED BY <1>1, <1>2, <1>3

LEMMA JournalCrash == ASSUME ServiceInv, JournalInv, Crash PROVE JournalInv'
  <1>1. /\ started_' = FALSE /\ acked' = (IF readable THEN journal ELSE acked)
        /\ UNCHANGED <<journal, readable, dataset_store_>> /\ faults \subseteq faults'
        /\ "kept" \in faults' => "kept" \in faults
    BY DEF Crash, Cut
  <1>2. Covers(journal, journal)
    BY WithinSelf DEF JournalInv
  <1> QED BY <1>1, <1>2 DEF JournalInv

(* The steps that neither write nor crash.                                 *)
LEMMA JournalSame ==
    ASSUME JournalInv, UNCHANGED <<started_, journal, readable, acked>>,
           dataset_store_ \subseteq dataset_store_', faults \subseteq faults',
           "kept" \in faults' => "kept" \in faults
    PROVE  JournalInv'
  BY DEF JournalInv

LEMMA JournalNext == ASSUME ServiceInv, JournalInv, [Next]_vars PROVE JournalInv'
  <1>1. CASE UNCHANGED vars
    BY <1>1, JournalSame DEF vars, dispatcherVars, journalVars, faultVars
  <1>2. CASE ClientNext
    <2>1. ASSUME NEW fp, GetOrRegisterDataset(fp) PROVE JournalInv'
      BY <2>1, JournalSame DEF GetOrRegisterDataset, RegisterDatasetRpc, journalVars, faultVars
    <2>2. ASSUME NEW r, GetJob(r) \/ CreateJobRpc(r) PROVE JournalInv'
      BY <2>2, JournalSame DEF GetJob, CreateJobRpc, journalVars, faultVars
    <2>3. ASSUME NEW c, ReleaseJobClientRpc(c) PROVE JournalInv'
      BY <2>3, JournalSame DEF ReleaseJobClientRpc, journalVars, faultVars
    <2> QED BY <1>2, <2>1, <2>2, <2>3 DEF ClientNext
  <1>3. CASE DispatcherNext
    <2>1. ASSUME RespondCreateJob \/ RespondHeartbeat \/ RespondUpdate \/ RespondSplit \/ RespondEndOfSplits
          PROVE  JournalInv'
      BY <2>1, JournalSame DEF RespondCreateJob, RespondHeartbeat, RespondUpdate, RespondSplit,
                               RespondEndOfSplits, journalVars, faultVars
    <2> QED BY <1>3, <2>1, JournalApply DEF DispatcherNext
  <1>4. CASE FaultNext
    <2>1. ASSUME AssignFails PROVE JournalInv'
      BY <2>1, JournalSame DEF AssignFails, journalVars, faultVars
    <2>2. ASSUME NEW j, GcOldJobs(j) PROVE JournalInv'
      BY <2>2, JournalSame DEF GcOldJobs, journalVars
    <2> QED BY <1>4, <2>1, <2>2, JournalFails, JournalCrash DEF FaultNext
  <1>5. CASE AssignTask
    BY <1>5, JournalSame DEF AssignTask, journalVars, faultVars
  <1>6. CASE Start
    BY <1>6 DEF Start, JournalInv, journalVars, faultVars
  <1>7. ASSUME NEW w \in Workers, WorkerNext(w) PROVE JournalInv'
    <2>1. ASSUME SendHeartbeat(w) \/ WorkerHeartbeat(w) \/ WorkerUpdate(w) PROVE JournalInv'
      BY <2>1, JournalSame DEF SendHeartbeat, WorkerHeartbeat, WorkerUpdate, dispatcherVars, journalVars, faultVars
    <2>2. ASSUME NEW t, GetSplit(w, t) \/ ReachEnd(w, t) PROVE JournalInv'
      BY <2>2, JournalSame DEF GetSplit, ReachEnd, dispatcherVars, journalVars, faultVars
    <2> QED BY <1>7, <2>1, <2>2 DEF WorkerNext
  <1> QED BY <1>1, <1>2, <1>3, <1>4, <1>5, <1>6, <1>7 DEF Next

LEMMA JournalStarts == ASSUME Init PROVE JournalInv
  <1>1. /\ journal = EmptyState /\ acked = EmptyState /\ readable = TRUE /\ started_ = TRUE /\ faults = {}
        /\ StateInv(EmptyState) /\ Covers(EmptyState, EmptyState)
    BY EmptyStateInv, WithinSelf DEF Init
  <1>2. DOMAIN journal.datasets_by_id = {}
    <2>1. EmptyState.datasets_by_id = <<>>
      BY DEF EmptyState
    <2> QED BY <1>1, <2>1, EmptyMap
  <1> QED BY <1>1, <1>2 DEF JournalInv

-----------------------------------------------------------------------------
LEMMA ServiceStarts == ASSUME Init PROVE ServiceInv
  <1>1. /\ started_ = TRUE /\ state_ = EmptyState /\ acked = EmptyState /\ op = Idle
        /\ assigning = {} /\ dataset_store_ = {}
    BY DEF Init
  <1>2. StateInv(state_) /\ StateInv(acked) /\ DOMAIN acked.datasets_by_id = {}
    <2>1. EmptyState.datasets_by_id = <<>>
      BY DEF EmptyState
    <2> QED BY <1>1, <2>1, EmptyStateInv, EmptyMap
  <1>3. op.todo = <<>> /\ HandlerInv(state_, op) /\ TodoInv(state_, op.todo)
    BY <1>1, IdleHandler
  <1>4. StoreInv(acked, dataset_store_, op.todo)
    BY <1>2, <1>3 DEF StoreInv
  <1>5. DispatcherInv
    BY <1>1, <1>2, <1>3, <1>4, AgreeSelf DEF DispatcherInv
  <1>6. PICK e, a : /\ e = <<>>
                    /\ a = [tasks |-> {}, repetition |-> e, parallel |-> {},
                            ended |-> {}, pending_completed |-> {}, heartbeat |-> Idle]
    OBVIOUS
  <1>7. e \in Map(Nat, Nat) /\ DOMAIN e = {}
    BY <1>6, EmptyMap
  <1>8. a \in Worker /\ a.tasks = {} /\ a.repetition = e /\ a.heartbeat = Idle
    BY <1>6, <1>7 DEF Worker
  <1>9. worker = [w \in Workers |-> a]
    BY <1>6 DEF Init
  <1>10. ASSUME NEW w PROVE WorkerOK(acked, w, a)
    BY <1>7, <1>8 DEF WorkerOK
  <1>11. WorkersInv /\ NoTaskDropped
    BY <1>7, <1>8, <1>9, <1>10 DEF WorkersInv, NoTaskDropped
  <1> QED BY <1>5, <1>11 DEF ServiceInv

(* The state of the dispatcher and the records that it had written agree,  *)
(* in every state of the service: their ids, counts and indices are        *)
(* consistent, the updates that the running handler has still to apply can *)
(* be applied to both, and what the workers know of their tasks is in the  *)
(* records.  The journal has these records, and others only when a write   *)
(* failed that left its own: then a replay gives more than state_, or      *)
(* breaks a DCHECK (dispatcher_impl.cc, dispatcher_state.cc, journal.cc,   *)
(* worker_impl.cc).                                                        *)
THEOREM ServiceInvariant == Spec => [](ServiceInv /\ JournalInv)
  <1>1. Init => ServiceInv /\ JournalInv
    BY ServiceStarts, JournalStarts
  <1>2. ServiceInv /\ JournalInv /\ [Next]_vars => (ServiceInv /\ JournalInv)'
    <2> SUFFICES ASSUME ServiceInv, JournalInv, [Next]_vars PROVE ServiceInv'
      BY JournalNext
    <2>1. CASE ClientNext
      <3>1. ASSUME NEW fp \in Fingerprints, GetOrRegisterDataset(fp) PROVE ServiceInv'
        BY <3>1, RegisterKeeps
      <3>2. ASSUME NEW r \in JobRequests, GetJob(r) PROVE ServiceInv'
        BY <3>2, GetJobKeeps
      <3>3. ASSUME NEW r \in JobRequests, CreateJobRpc(r) PROVE ServiceInv'
        BY <3>3, CreateJobKeeps
      <3>4. ASSUME NEW c \in Clients, ReleaseJobClientRpc(c) PROVE ServiceInv'
        BY <3>4, ReleaseKeeps
      <3> QED BY <2>1, <3>1, <3>2, <3>3, <3>4 DEF ClientNext
    <2>2. CASE DispatcherNext
      BY <2>2, ApplyKeeps, JobResponseKeeps, HeartbeatResponseKeeps, UpdateResponseKeeps,
         SplitResponseKeeps, EndOfSplitsKeeps DEF DispatcherNext
    <2>3. CASE AssignTask
      BY <2>3, AssignKeeps
    <2>4. CASE Start
      BY <2>4, StartKeeps
    <2>5. CASE FaultNext
      <3>1. ASSUME NEW j \in Jobs, GcOldJobs(j) PROVE ServiceInv'
        BY <3>1, CollectJobKeeps
      <3> QED BY <2>5, <3>1, FailureKeeps, AssignFailsKeeps, CrashKeeps DEF FaultNext
    <2>6. ASSUME NEW w \in Workers, WorkerNext(w) PROVE ServiceInv'
      <3>1. ASSUME NEW t \in Tasks, GetSplit(w, t) PROVE ServiceInv'
        BY <3>1, GetSplitKeeps
      <3>2. ASSUME NEW t \in Tasks, ReachEnd(w, t) PROVE ServiceInv'
        BY <3>2, ReachEndKeeps
      <3> QED BY <2>6, <3>1, <3>2, SendHeartbeatKeeps, HeartbeatKeeps, WorkerUpdateKeeps DEF WorkerNext
    <2>7. CASE UNCHANGED vars
      BY <2>7 DEF vars, dispatcherVars, journalVars, faultVars, ServiceInv, DispatcherInv, WorkersInv, NoTaskDropped
    <2> QED BY <2>1, <2>2, <2>3, <2>4, <2>5, <2>6, <2>7 DEF Next
  <1> QED BY <1>1, <1>2, PTL DEF Spec

(* What a crash leaves is all there was: whatever crashes and failed       *)
(* writes come between the steps of handlers, the next update passes the   *)
(* checks of DispatcherState::Apply and the definition of every dataset in *)
(* the journal is stored.  Without garbage collection, and as long as no   *)
(* failed write left its record, the journal replays to the exact state;   *)
(* with such a record it replays to at least that or not at all            *)
(* (dispatcher_impl.cc:918).                                               *)
THEOREM DataRecoverable == Spec => []Recoverable
  <1>1. ASSUME ServiceInv, JournalInv PROVE Recoverable
    <2>1. ChecksHold
      BY <1>1 DEF ServiceInv, DispatcherInv, TodoInv, ChecksHold
    <2>2. faults \cap {"gc", "kept"} = {} => ExactState
      BY <1>1 DEF ServiceInv, DispatcherInv, JournalInv, ExactState
    <2>3. ASSUME readable, started_ PROVE Within(state_, journal)
      <3>1. Agree(state_, acked) /\ Within(acked, journal)
        BY <1>1, <2>3 DEF ServiceInv, DispatcherInv, JournalInv, Covers
      <3> QED BY <3>1 DEF Agree, Within
    <2> QED BY <1>1, <2>1, <2>2, <2>3 DEF JournalInv, Recoverable
  <1> QED BY <1>1, ServiceInvariant, PTL

(* A worker drops only finished tasks, although it acts on an answer to    *)
(* what it had when it asked and the dispatcher may have restarted         *)
(* (worker_impl.cc:433).                                                   *)
THEOREM DataNoTaskDropped == Spec => []NoTaskDropped
  <1>1. ServiceInv => NoTaskDropped
    BY DEF ServiceInv
  <1> QED BY <1>1, ServiceInvariant, PTL

-----------------------------------------------------------------------------
(* The updates of the handlers that make several: every worker, or every   *)
(* job, comes once in the order in which the tasks are created.            *)

LEMMA OrderIsOnto ==
    ASSUME NEW S, IsFiniteSet(S), NEW order \in SetToSeqs(S), NEW x \in S
    PROVE  \E k \in 1 .. Len(order) : order[k] = x /\ \A i \in 1 .. Len(order) : order[i] = x => i = k
  <1>1. PICK n \in Nat : n = Cardinality(S)
    BY FS_CardinalityType
  <1>2. order \in [1 .. n -> S] /\ \A i, k \in 1 .. n : i # k => order[i] # order[k]
    BY <1>1 DEF SetToSeqs
  <1>3. order \in Seq(S) /\ Len(order) = n
    BY <1>2
  <1>4. PICK T : T = {order[i] : i \in 1 .. n}
    OBVIOUS
  <1>5. T \subseteq S
    BY <1>2, <1>4
  <1>6. order \in Bijection(1 .. n, T)
    BY <1>2, <1>4 DEF Bijection, Injection, Surjection, IsInjective
  <1>7. Cardinality(T) = n
    BY <1>6, FS_CountingElements DEF ExistsBijection
  <1>8. T = S
    BY <1>1, <1>5, <1>7, FS_Subset
  <1>9. PICK k \in 1 .. n : order[k] = x
    BY <1>4, <1>8
  <1> QED BY <1>2, <1>3, <1>9

(* WorkerUpdate.                                                           *)
LEMMA FinishTodo ==
    ASSUME ServiceInv, NEW w \in Workers, WorkerUpdate(w)
    PROVE  op'.handler = "worker_update" /\ \A i \in 1 .. Len(op'.todo) : op'.todo[i].type = "finish_task"
  <1>1. PICK completed, S : /\ completed = worker[w].pending_completed
                            /\ S = {t \in completed : ~state_.tasks[t].finished}
    OBVIOUS
  <1>2. PICK order \in SetToSeqs(S) :
           op' = [handler |-> "worker_update", worker |-> w, completed |-> completed, todo |->
                    [i \in 1 .. Len(order) |-> [type |-> "finish_task", task_id |-> order[i]]]]
    BY <1>1 DEF WorkerUpdate, Handle
  <1>3. StateInv(state_) /\ S \subseteq DOMAIN state_.tasks
    BY <1>1 DEF ServiceInv, DispatcherInv, WorkerUpdate
  <1>4. IsFiniteSet(S)
    BY <1>3, FiniteIds, FS_Subset
  <1>5. PICK n \in Nat : n = Len(order)
    BY <1>4, Orders
  <1>6. PICK q : q = [i \in 1 .. n |-> [type |-> "finish_task", task_id |-> order[i]]]
    OBVIOUS
  <1>7. op'.handler = "worker_update" /\ op'.todo = q
    BY <1>2, <1>5, <1>6
  <1>8. q \in Seq(Update)
    BY <1>7, WorkerUpdateKeeps DEF ServiceInv, DispatcherInv, TodoInv
  <1>9. DOMAIN q = 1 .. n /\ DOMAIN q = 1 .. Len(q)
    BY <1>6, <1>8, LenProperties
  <1> QED BY <1>6, <1>7, <1>9

(* WorkerHeartbeat of a worker that is not known: CreateTasksForWorker.    *)
LEMMA HeartbeatTodo ==
    ASSUME ServiceInv, NEW w \in Workers, WorkerHeartbeat(w), w \notin DOMAIN state_.tasks_by_worker
    PROVE  \E order \in SetToSeqs({j \in DOMAIN state_.jobs : ~state_.jobs[j].finished}) :
              /\ op'.handler = "worker_heartbeat" /\ Len(op'.todo) = Len(order) + 1 /\ Len(order) \in Nat
              /\ op'.todo[1].type = "register_worker" /\ op'.todo[1].worker_address = w
              /\ \A i \in 1 .. Len(order) : /\ op'.todo[i + 1].type = "create_task"
                                            /\ op'.todo[i + 1].job_id = order[i]
                                            /\ op'.todo[i + 1].worker_address = w
  <1>1. PICK S, a : /\ S = {j \in DOMAIN state_.jobs : ~state_.jobs[j].finished}
                    /\ a = [type |-> "register_worker", worker_address |-> w]
    OBVIOUS
  <1>2. PICK order \in SetToSeqs(S) :
           op' = [handler |-> "worker_heartbeat", worker |-> w, todo |-> <<a>> \o TasksForWorker(w, order)]
    BY <1>1 DEF WorkerHeartbeat, Handle
  <1>3. StateInv(state_) /\ S \subseteq DOMAIN state_.jobs /\ DOMAIN state_.jobs \subseteq Nat
    BY <1>1, Fields, MapIs DEF ServiceInv, DispatcherInv, StateInv
  <1>4. IsFiniteSet(S)
    BY <1>3, FiniteIds, FS_Subset
  <1>5. PICK n \in Nat : n = Len(order) /\ \A i \in 1 .. n : order[i] \in S
    BY <1>4, Orders
  <1>6. PICK T, hosts : T = TasksForWorker(w, order) /\ hosts = [i \in 1 .. n |-> w]
    OBVIOUS
  <1>7. T = TaskUpdates(state_.next_available_task_id, n, order, hosts)
    BY <1>5, <1>6 DEF TasksForWorker, TaskUpdates
  <1>8. \A i \in 1 .. n : order[i] \in Nat /\ hosts[i] \in Workers
    BY <1>3, <1>5, <1>6
  <1>9. /\ T \in Seq(Update) /\ Len(T) = n
        /\ \A i \in 1 .. n : /\ T[i].type = "create_task" /\ T[i].job_id = order[i]
                             /\ T[i].worker_address = hosts[i]
    BY <1>3, <1>7, <1>8, NewTasks
  <1>10. a \in Update /\ a.type = "register_worker" /\ a.worker_address = w
    BY <1>1 DEF Update
  <1>11. PICK q : q = <<a>> \o T
    OBVIOUS
  <1>12. Len(q) = n + 1 /\ q[1] = a /\ \A i \in 1 .. n : q[i + 1] = T[i]
    BY <1>9, <1>10, <1>11
  <1>13. op'.handler = "worker_heartbeat" /\ op'.todo = q
    BY <1>2, <1>6, <1>11
  <1>14. \A i \in 1 .. n : /\ q[i + 1].type = "create_task" /\ q[i + 1].job_id = order[i]
                           /\ q[i + 1].worker_address = w
    BY <1>6, <1>9, <1>12
  <1> QED BY <1>1, <1>5, <1>10, <1>12, <1>13, <1>14

(* CreateJob: CreateTasksForJob.                                           *)
LEMMA CreateJobTodo ==
    ASSUME ServiceInv, NEW r \in JobRequests, CreateJobRpc(r)
    PROVE  \E order \in SetToSeqs(DOMAIN state_.tasks_by_worker) :
              /\ op'.handler = "create_job" /\ Len(op'.todo) = Len(order) + 2 /\ Len(order) \in Nat
              /\ op'.todo[1].type = "create_job" /\ op'.todo[1].job_id = state_.next_available_job_id
              /\ op'.todo[1].processing_mode = r.mode /\ op'.todo[2].type = "acquire_job_client"
              /\ \A i \in 1 .. Len(order) : /\ op'.todo[i + 2].type = "create_task"
                                            /\ op'.todo[i + 2].job_id = state_.next_available_job_id
                                            /\ op'.todo[i + 2].worker_address = order[i]
  <1>1. PICK id : id = state_.next_available_job_id
    OBVIOUS
  <1>2. PICK d \in DatasetOf(r.fingerprint), order \in SetToSeqs(DOMAIN state_.tasks_by_worker) :
           op' = [handler |-> "create_job", todo |->
                    <<[type |-> "create_job", job_id |-> id, dataset_id |-> d,
                       processing_mode |-> r.mode, named_job_key |-> r.key], AcquireUpdate(id)>>
                    \o TasksForJob(id, order)]
    BY <1>1 DEF CreateJobRpc, Handle
  <1>3. /\ StateInv(state_) /\ id \in Nat /\ state_.next_available_job_client_id \in Nat
        /\ DOMAIN state_.tasks_by_worker \subseteq Workers
    BY <1>1, Fields, MapIs DEF ServiceInv, DispatcherInv, StateInv
  <1>4. PICK n \in Nat : n = Len(order) /\ \A i \in 1 .. n : order[i] \in DOMAIN state_.tasks_by_worker
    BY <1>3, FiniteIds, Orders
  <1>5. PICK T, jobs : T = TasksForJob(id, order) /\ jobs = [i \in 1 .. n |-> id]
    OBVIOUS
  <1>6. T = TaskUpdates(state_.next_available_task_id, n, jobs, order)
    BY <1>4, <1>5 DEF TasksForJob, TaskUpdates
  <1>7. \A i \in 1 .. n : jobs[i] \in Nat /\ order[i] \in Workers
    BY <1>3, <1>4, <1>5
  <1>8. /\ T \in Seq(Update) /\ Len(T) = n
        /\ \A i \in 1 .. n : /\ T[i].type = "create_task" /\ T[i].job_id = jobs[i]
                             /\ T[i].worker_address = order[i]
    BY <1>3, <1>6, <1>7, NewTasks
  <1>9. PICK a, b : /\ a = [type |-> "create_job", job_id |-> id, dataset_id |-> d,
                            processing_mode |-> r.mode, named_job_key |-> r.key]
                    /\ b = AcquireUpdate(id)
    OBVIOUS
  <1>10. a.type = "create_job" /\ a.job_id = id /\ a.processing_mode = r.mode
         /\ b.type = "acquire_job_client"
    BY <1>9 DEF AcquireUpdate
  <1>11. PICK q : q = <<a, b>> \o T
    OBVIOUS
  <1>12. Len(q) = n + 2 /\ q[1] = a /\ q[2] = b /\ \A i \in 1 .. n : q[i + 2] = T[i]
    BY <1>8, <1>11
  <1>13. op'.handler = "create_job" /\ op'.todo = q
    BY <1>2, <1>5, <1>9, <1>11
  <1>14. \A i \in 1 .. n : /\ q[i + 2].type = "create_task" /\ q[i + 2].job_id = id
                           /\ q[i + 2].worker_address = order[i]
    BY <1>5, <1>8, <1>12
  <1> QED BY <1>1, <1>4, <1>10, <1>12, <1>13, <1>14

-----------------------------------------------------------------------------
(* The splits that are given.  A split is taken from the provider, recorded *)
(* in the journal and sent to the worker, in this order, and a crash or a  *)
(* failed write may come between any two of these.                         *)

Distributed == {j \in DOMAIN acked.jobs : acked.jobs[j].processing_mode = "DISTRIBUTED_EPOCH"}

(* Of job j only splits before the n-th of repetition rep are given,       *)
(* and all of these are.                                                   *)
OnlyBefore(j, rep, n) == \A g \in Range(given) : g[1] = j => g[2] <= rep /\ (g[2] = rep => g[3] < n)
AllBefore(j, rep, n) ==
    /\ \A r \in 0 .. (rep - 1), i \in 0 .. (NumSplits - 1) : <<j, r, i>> \in Range(given)
    /\ \A i \in 0 .. (n - 1) : <<j, rep, i>> \in Range(given)

(* The split of job j that is given next is the n-th: it is among the      *)
(* records (recorded is 1) or not, unless a write failed.                  *)
SplitsOf(j, n, recorded) ==
    /\ ~({"write", "crash"} \subseteq faults) => OnlyBefore(j, acked.jobs[j].repetition, n)
    /\ "write" \notin faults => acked.jobs[j].index = n + recorded
    /\ faults = {} => AllBefore(j, acked.jobs[j].repetition, n)

Giving(j) == op.handler = "get_split" /\ op.job = j

(* After a restart the provider starts where the journal says; a split     *)
(* that is being given has left the provider, and one repetition ends when *)
(* that is recorded, before the provider is reset.                         *)
NextSplit(j) ==
    IF ~started_ THEN acked.jobs[j].index
    ELSE IF Giving(j) /\ ~op.end THEN op.split
    ELSE IF Giving(j) /\ ~op.stale /\ op.todo = <<>> THEN 0
    ELSE split_providers_[j]

Recorded(j) == IF Giving(j) /\ ~op.end /\ op.todo = <<>> THEN 1 ELSE 0

GivenInv ==
    /\ given \in Seq(Nat \X Nat \X Nat)
    /\ \A g \in Range(given) : g[1] \in DOMAIN acked.jobs
    /\ ~({"write", "crash"} \subseteq faults) => IsInjective(given)

GivingInv ==
    op.handler = "get_split" =>
        /\ op.job \in Distributed /\ op.split \in Nat
        /\ op.stale => op.end /\ op.todo = <<>>
        /\ ~op.end => /\ split_providers_[op.job] = op.split + 1
                      /\ op.repetition = acked.jobs[op.job].repetition
        /\ op.end /\ op.todo # <<>> => split_providers_[op.job] = NumSplits

(* Only GetSplit records splits.                                           *)
RecordingInv == op.todo # <<>> /\ Head(op.todo).type = "produce_split" => op.handler = "get_split"

(* Jobs that distribute their splits have a provider, the one that is      *)
(* being created included; one that a failed attempt to create a job has   *)
(* left is at its first split; the other jobs never repeat.                *)
ProvidersInv ==
    /\ started_ => \A j \in Distributed : j \in DOMAIN split_providers_ /\ split_providers_[j] \in Nat
    /\ op.todo # <<>> /\ Head(op.todo).type = "create_job" /\ Head(op.todo).processing_mode = "DISTRIBUTED_EPOCH"
          => Head(op.todo).job_id \in DOMAIN split_providers_ /\ split_providers_[Head(op.todo).job_id] = 0
    /\ started_ => \A j \in DOMAIN split_providers_ \ DOMAIN acked.jobs : split_providers_[j] = 0
    /\ ~started_ => "crash" \in faults
    /\ faults = {} => \A j \in DOMAIN acked.jobs \ Distributed : acked.jobs[j].repetition = 0

SplitsInv ==
    /\ GivenInv /\ GivingInv /\ RecordingInv /\ ProvidersInv
    /\ \A j \in Distributed : SplitsOf(j, NextSplit(j), Recorded(j))

LEMMA SplitsOfKept ==
    ASSUME NEW j, NEW n, NEW recorded, SplitsOf(j, n, recorded), given' = given, faults \subseteq faults',
           acked'.jobs[j].repetition = acked.jobs[j].repetition,
           acked'.jobs[j].index = acked.jobs[j].index
    PROVE  SplitsOf(j, n, recorded)'
  <1>1. ~({"write", "crash"} \subseteq faults') => ~({"write", "crash"} \subseteq faults)
    OBVIOUS
  <1>2. ("write" \notin faults' => "write" \notin faults) /\ (faults' = {} => faults = {})
    OBVIOUS
  <1> QED BY <1>1, <1>2 DEF SplitsOf, OnlyBefore, AllBefore

LEMMA GivenKept ==
    ASSUME GivenInv, given' = given, faults \subseteq faults', DOMAIN acked.jobs \subseteq DOMAIN acked'.jobs
    PROVE  GivenInv'
  <1>1. ~({"write", "crash"} \subseteq faults') => ~({"write", "crash"} \subseteq faults)
    OBVIOUS
  <1> QED BY <1>1 DEF GivenInv

(* A step that neither gives a split nor creates a job.                    *)
LEMMA SplitsKept ==
    ASSUME SplitsInv, UNCHANGED <<started_, acked, split_providers_, given>>, faults \subseteq faults',
           \/ op' = op
           \/ /\ op.handler # "get_split" /\ op'.handler # "get_split"
              /\ op'.todo # <<>> => Head(op'.todo).type \notin {"create_job", "produce_split"}
    PROVE  SplitsInv'
  <1>1. GivenInv'
    BY GivenKept DEF SplitsInv
  <1>2. Distributed' = Distributed
    BY DEF Distributed
  <1>3. GivingInv'
    BY <1>2 DEF SplitsInv, GivingInv
  <1>4. ProvidersInv' /\ RecordingInv'
    BY <1>2 DEF SplitsInv, ProvidersInv, RecordingInv
  <1>5. ASSUME NEW j \in Distributed'
        PROVE  SplitsOf(j, NextSplit(j), Recorded(j))'
    <2>1. NextSplit(j)' = NextSplit(j) /\ Recorded(j)' = Recorded(j)
      BY DEF NextSplit, Recorded, Giving
    <2>2. SplitsOf(j, NextSplit(j), Recorded(j))
      BY <1>2 DEF SplitsInv
    <2>3. PICK n, x : n = NextSplit(j) /\ x = Recorded(j)
      OBVIOUS
    <2>4. SplitsOf(j, n, x)'
      BY <2>2, <2>3, SplitsOfKept
    <2> QED BY <2>1, <2>3, <2>4
  <1> QED BY <1>1, <1>3, <1>4, <1>5 DEF SplitsInv

LEMMA IdleNow == Idle.handler = "none" /\ Idle.todo = <<>>
  BY DEF Idle

(* The handlers that have nothing to do with splits.                       *)
LEMMA SplitsQuiet ==
    ASSUME ServiceInv, SplitsInv,
           \/ \E fp \in Fingerprints : GetOrRegisterDataset(fp)
           \/ \E r \in JobRequests : GetJob(r)
           \/ \E c \in Clients : ReleaseJobClientRpc(c)
           \/ \E w \in Workers : \/ SendHeartbeat(w) \/ WorkerHeartbeat(w) \/ WorkerUpdate(w)
                                 \/ \E t \in Tasks : ReachEnd(w, t)
           \/ RespondCreateJob \/ RespondHeartbeat \/ RespondUpdate \/ AssignTask \/ AssignFails
           \/ \E j \in Jobs : GcOldJobs(j)
    PROVE  SplitsInv'
  <1>1. ASSUME NEW fp \in Fingerprints, GetOrRegisterDataset(fp) PROVE SplitsInv'
    <2>1. op' = [handler |-> "register_dataset", todo |->
                   <<[type |-> "register_dataset", fingerprint |-> fp,
                      dataset_id |-> state_.next_available_dataset_id]>>]
      BY <1>1 DEF GetOrRegisterDataset, RegisterDatasetRpc, Handle
    <2>2. op'.handler # "get_split" /\ Head(op'.todo).type \notin {"create_job", "produce_split"}
      BY <2>1
    <2>3. op.handler # "get_split" /\ UNCHANGED <<started_, acked, split_providers_, given, faults>>
      BY <1>1, IdleNow DEF GetOrRegisterDataset, CanHandle, faultVars, journalVars
    <2> QED BY <2>2, <2>3, SplitsKept
  <1>2. ASSUME NEW r, GetJob(r) PROVE SplitsInv'
    <2>1. PICK j : op' = [handler |-> "get_job", todo |-> <<AcquireUpdate(j)>>]
      BY <1>2 DEF GetJob, Handle
    <2>2. AcquireUpdate(j).type = "acquire_job_client"
      BY DEF AcquireUpdate
    <2>3. op'.handler # "get_split" /\ Head(op'.todo).type \notin {"create_job", "produce_split"}
      BY <2>1, <2>2
    <2>4. op.handler # "get_split" /\ UNCHANGED <<started_, acked, split_providers_, given, faults>>
      BY <1>2, IdleNow DEF GetJob, CanHandle, faultVars, journalVars
    <2> QED BY <2>3, <2>4, SplitsKept
  <1>3. ASSUME NEW c, ReleaseJobClientRpc(c) PROVE SplitsInv'
    <2>1. op' = [handler |-> "release_job_client",
                 todo |-> <<[type |-> "release_job_client", job_client_id |-> c]>>]
      BY <1>3 DEF ReleaseJobClientRpc, Handle
    <2>2. op'.handler # "get_split" /\ Head(op'.todo).type \notin {"create_job", "produce_split"}
      BY <2>1
    <2>3. op.handler # "get_split" /\ UNCHANGED <<started_, acked, split_providers_, given, faults>>
      BY <1>3, IdleNow DEF ReleaseJobClientRpc, CanHandle, faultVars, journalVars
    <2> QED BY <2>2, <2>3, SplitsKept
  <1>4. ASSUME NEW w \in Workers, WorkerHeartbeat(w) PROVE SplitsInv'
    <2>1. op.handler # "get_split" /\ UNCHANGED <<started_, acked, split_providers_, given, faults>>
      BY <1>4, IdleNow DEF WorkerHeartbeat, CanHandle, faultVars, journalVars
    <2>2. CASE w \in DOMAIN state_.tasks_by_worker
      <3>1. op' = [handler |-> "worker_heartbeat", worker |-> w, todo |-> <<>>]
        BY <1>4, <2>2 DEF WorkerHeartbeat, Handle
      <3>2. op'.handler # "get_split" /\ op'.todo = <<>>
        BY <3>1
      <3> QED BY <2>1, <3>2, SplitsKept
    <2>3. CASE w \notin DOMAIN state_.tasks_by_worker
      <3>1. op'.handler = "worker_heartbeat" /\ op'.todo[1].type = "register_worker"
        BY <1>4, <2>3, HeartbeatTodo
      <3>2. op'.todo # <<>> => Head(op'.todo).type \notin {"create_job", "produce_split"}
        BY <3>1, <1>4, HeartbeatKeeps, FirstOfTodo DEF ServiceInv, DispatcherInv, TodoInv
      <3> QED BY <2>1, <3>1, <3>2, SplitsKept
    <2> QED BY <2>2, <2>3
  <1>5. ASSUME NEW w \in Workers, WorkerUpdate(w) PROVE SplitsInv'
    <2>1. op.handler # "get_split" /\ UNCHANGED <<started_, acked, split_providers_, given, faults>>
      BY <1>5, IdleNow DEF WorkerUpdate, CanHandle, faultVars, journalVars
    <2>2. op'.handler # "get_split" /\ \A i \in 1 .. Len(op'.todo) : op'.todo[i].type = "finish_task"
      BY <1>5, FinishTodo
    <2>3. op'.todo # <<>> => Head(op'.todo).type \notin {"create_job", "produce_split"}
      BY <1>5, <2>2, WorkerUpdateKeeps, FirstOfTodo DEF ServiceInv, DispatcherInv, TodoInv
    <2> QED BY <2>1, <2>2, <2>3, SplitsKept
  <1>6. ASSUME RespondCreateJob \/ RespondHeartbeat \/ RespondUpdate PROVE SplitsInv'
    <2>1. /\ op.handler # "get_split" /\ op' = Idle
          /\ UNCHANGED <<started_, acked, split_providers_, given, faults>>
      BY <1>6 DEF RespondCreateJob, RespondHeartbeat, RespondUpdate, Respond, faultVars, journalVars
    <2> QED BY <2>1, IdleNow, SplitsKept
  <1>7. ASSUME NEW w, NEW t, SendHeartbeat(w) \/ ReachEnd(w, t) \/ AssignTask \/ AssignFails PROVE SplitsInv'
    <2>1. UNCHANGED <<started_, acked, split_providers_, given, op, faults>>
      BY <1>7 DEF SendHeartbeat, ReachEnd, AssignTask, AssignFails, dispatcherVars, journalVars, faultVars
    <2> QED BY <2>1, SplitsKept
  <1>8. ASSUME NEW j, GcOldJobs(j) PROVE SplitsInv'
    <2>1. UNCHANGED <<started_, acked, split_providers_, given, op>> /\ faults \subseteq faults'
      BY <1>8 DEF GcOldJobs, journalVars
    <2> QED BY <2>1, SplitsKept
  <1> QED BY <1>1, <1>2, <1>3, <1>4, <1>5, <1>6, <1>7, <1>8

(* CreateJob: the provider of the new job is at its first split.           *)
LEMMA CreateJobSplits == ASSUME ServiceInv, SplitsInv, NEW r \in JobRequests, CreateJobRpc(r) PROVE SplitsInv'
  <1>1. PICK id : id = state_.next_available_job_id
    OBVIOUS
  <1>2. /\ started_ /\ op = Idle /\ UNCHANGED <<started_, acked, given, faults>>
        /\ split_providers_' = IF r.mode = "DISTRIBUTED_EPOCH" /\ id \notin DOMAIN split_providers_
                               THEN Put(split_providers_, id, 0) ELSE split_providers_
    BY <1>1 DEF CreateJobRpc, WithProvider, CanHandle, faultVars, journalVars
  <1>3. /\ op'.handler = "create_job" /\ op'.todo[1].type = "create_job" /\ op'.todo[1].job_id = id
        /\ op'.todo[1].processing_mode = r.mode /\ op'.todo # <<>> /\ Head(op'.todo) = op'.todo[1]
    <2>1. /\ op'.handler = "create_job" /\ op'.todo[1].type = "create_job" /\ op'.todo[1].job_id = id
          /\ op'.todo[1].processing_mode = r.mode /\ Len(op'.todo) # 0
      <3>1. ASSUME NEW n \in Nat PROVE n + 2 # 0
        OBVIOUS
      <3> QED BY <1>1, <3>1, CreateJobTodo
    <2>2. op'.todo \in Seq(Update)
      BY CreateJobKeeps DEF ServiceInv, DispatcherInv, TodoInv
    <2>3. op'.todo # <<>>
      BY <2>1, <2>2
    <2> QED BY <2>1, <2>2, <2>3, FirstOfTodo
  <1>4. StateInv(state_) /\ Agree(state_, acked)
    BY <1>2 DEF ServiceInv, DispatcherInv
  <1>5. id \notin DOMAIN acked.jobs
    <2>1. id \in Nat /\ DOMAIN state_.jobs \subseteq Nat /\ \A j \in DOMAIN state_.jobs : j < id
      BY <1>1, <1>4, Fields, MapIs DEF StateInv, IdsInv
    <2> QED BY <1>4, <2>1 DEF Agree
  <1>6. Distributed' = Distributed /\ Distributed \subseteq DOMAIN acked.jobs
    BY <1>2 DEF Distributed
  <1>7. \A j \in Distributed : /\ j \in DOMAIN split_providers_ /\ split_providers_[j] \in Nat
                               /\ j \in DOMAIN split_providers_' /\ split_providers_'[j] = split_providers_[j]
    <2>1. \A j \in Distributed : j \in DOMAIN split_providers_ /\ split_providers_[j] \in Nat
      BY <1>2 DEF SplitsInv, ProvidersInv
    <2>2. CASE r.mode = "DISTRIBUTED_EPOCH" /\ id \notin DOMAIN split_providers_
      BY <1>2, <1>5, <1>6, <2>1, <2>2 DEF Put
    <2>3. CASE ~(r.mode = "DISTRIBUTED_EPOCH" /\ id \notin DOMAIN split_providers_)
      BY <1>2, <2>1, <2>3
    <2> QED BY <2>2, <2>3
  <1>8. /\ r.mode = "DISTRIBUTED_EPOCH" => id \in DOMAIN split_providers_' /\ split_providers_'[id] = 0
        /\ \A j \in DOMAIN split_providers_' \ DOMAIN acked.jobs : split_providers_'[j] = 0
    <2>1. \A j \in DOMAIN split_providers_ \ DOMAIN acked.jobs : split_providers_[j] = 0
      BY <1>2 DEF SplitsInv, ProvidersInv
    <2>2. CASE r.mode = "DISTRIBUTED_EPOCH" /\ id \notin DOMAIN split_providers_
      BY <1>2, <2>1, <2>2 DEF Put
    <2>3. CASE ~(r.mode = "DISTRIBUTED_EPOCH" /\ id \notin DOMAIN split_providers_)
      BY <1>2, <1>5, <2>1, <2>3
    <2> QED BY <2>2, <2>3
  <1>9. ProvidersInv' /\ RecordingInv'
    BY <1>2, <1>3, <1>6, <1>7, <1>8 DEF SplitsInv, ProvidersInv, RecordingInv
  <1>10. GivenInv' /\ GivingInv'
    BY <1>2, <1>3, GivenKept DEF SplitsInv, GivingInv
  <1>11. ASSUME NEW j \in Distributed' PROVE SplitsOf(j, NextSplit(j), Recorded(j))'
    <2>1. NextSplit(j)' = split_providers_[j] /\ Recorded(j)' = 0
      BY <1>2, <1>3, <1>6, <1>7 DEF NextSplit, Recorded, Giving
    <2>2. NextSplit(j) = split_providers_[j] /\ Recorded(j) = 0
      BY <1>2, IdleNow DEF NextSplit, Recorded, Giving
    <2>3. SplitsOf(j, split_providers_[j], 0)
      BY <1>6, <2>2 DEF SplitsInv
    <2>4. PICK n : n = split_providers_[j]
      OBVIOUS
    <2>5. SplitsOf(j, n, 0)'
      BY <1>2, <2>3, <2>4, SplitsOfKept
    <2> QED BY <2>1, <2>4, <2>5
  <1> QED BY <1>9, <1>10, <1>11 DEF SplitsInv

(* GetSplit: the provider has moved on, and the split is not recorded yet. *)
LEMMA GetSplitSplits == ASSUME ServiceInv, SplitsInv, NEW w \in Workers, NEW t, GetSplit(w, t) PROVE SplitsInv'
  <1>1. PICK j, requested : j = state_.tasks[t].job_id /\ requested = worker[w].repetition[t]
    OBVIOUS
  <1>2. PICK stale, end : /\ stale = (requested < state_.jobs[j].repetition)
                          /\ end = (split_providers_[j] = NumSplits)
    OBVIOUS
  <1>. stale \in BOOLEAN /\ end \in BOOLEAN
    BY <1>2
  <1>3. PICK e \in BOOLEAN : e = (stale \/ end)
    OBVIOUS
  <1>4. PICK u, q : /\ u = [type |-> "produce_split", job_id |-> j, finished |-> end, repetition |-> requested]
                     /\ q = IF stale THEN <<>> ELSE <<u>>
    OBVIOUS
  <1>5. op' = [handler |-> "get_split", worker |-> w, task |-> t, job |-> j,
               repetition |-> requested, split |-> split_providers_[j],
               end |-> e, stale |-> stale, todo |-> q]
    BY ONLY GetSplit(w, t), <1>1, <1>2, <1>3, <1>4 DEF GetSplit, Handle, StaleRepetition
  <1>6. PICK p : p = split_providers_[j]
    OBVIOUS
  <1>7. /\ op'.handler = "get_split" /\ op'.job = j /\ op'.repetition = requested /\ op'.split = p
        /\ op'.end = e /\ op'.stale = stale /\ op'.todo = q
    BY <1>5, <1>6
  <1>8. /\ started_ /\ op = Idle /\ UNCHANGED <<started_, acked, given, faults>>
        /\ t \in DOMAIN state_.tasks /\ state_.jobs[j].processing_mode = "DISTRIBUTED_EPOCH"
        /\ t \in worker[w].tasks
    BY <1>1 DEF GetSplit, CanHandle, faultVars, journalVars
  <1>9. split_providers_' = IF e THEN split_providers_ ELSE [split_providers_ EXCEPT ![j] = p + 1]
    <2>1. split_providers_' = IF requested < state_.jobs[j].repetition \/ split_providers_[j] = NumSplits
                              THEN split_providers_
                              ELSE [split_providers_ EXCEPT ![j] = split_providers_[j] + 1]
      BY ONLY GetSplit(w, t), <1>1 DEF GetSplit, StaleRepetition
    <2>2. e <=> requested < state_.jobs[j].repetition \/ split_providers_[j] = NumSplits
      BY <1>2, <1>3
    <2> QED BY <1>6, <2>1, <2>2
  <1>10. StateInv(state_) /\ Agree(state_, acked) /\ WorkerOK(acked, w, worker[w])
    BY <1>8 DEF ServiceInv, DispatcherInv, WorkersInv
  <1>11. j \in DOMAIN state_.jobs /\ j \in Distributed /\ Distributed' = Distributed
    <2>1. j \in DOMAIN state_.jobs
      BY <1>1, <1>8, <1>10 DEF StateInv, TasksInv
    <2> QED BY <1>8, <1>10, <2>1 DEF Agree, Distributed
  <1>12. j \in DOMAIN split_providers_ /\ p \in Nat
    BY <1>8, <1>11, <1>6 DEF SplitsInv, ProvidersInv
  <1>13. ~stale => requested = acked.jobs[j].repetition
    <2>1. t \in DOMAIN worker[w].repetition /\ worker[w].repetition \in Map(Nat, Nat)
      BY <1>8, <1>10 DEF WorkerOK, Worker
    <2>2. requested \in Nat
      BY <1>1, <2>1, MapIs
    <2>3. requested <= acked.jobs[acked.tasks[t].job_id].repetition
      BY <1>1, <1>10, <2>1 DEF WorkerOK
    <2>4. acked.tasks[t].job_id = j /\ acked.jobs[j].repetition = state_.jobs[j].repetition
      BY <1>1, <1>8, <1>10, <1>11 DEF Agree
    <2>5. state_.jobs[j].repetition \in Nat
      BY <1>10, <1>11, JobNumbers DEF StateInv
    <2>6. ~stale => ~(requested < state_.jobs[j].repetition)
      BY <1>2
    <2> QED BY <2>2, <2>3, <2>4, <2>5, <2>6
  <1>14. /\ \A k \in Distributed : k \in DOMAIN split_providers_' /\ split_providers_'[k] \in Nat
         /\ \A k \in Distributed \ {j} : split_providers_'[k] = split_providers_[k]
         /\ split_providers_'[j] = IF e THEN p ELSE p + 1
    <2>1. \A k \in Distributed : k \in DOMAIN split_providers_ /\ split_providers_[k] \in Nat
      BY <1>8 DEF SplitsInv, ProvidersInv
    <2>2. CASE e
      BY <1>9, <1>6, <2>1, <2>2
    <2>3. CASE ~e
      BY <1>9, <1>12, <2>1, <2>3
    <2> QED BY <2>2, <2>3
  <1>15. ProvidersInv'
    <2>1. q # <<>> => Head(q).type # "create_job"
      BY <1>4
    <2>2. \A k \in DOMAIN split_providers_' \ DOMAIN acked.jobs : split_providers_'[k] = 0
      <3>1. j \in DOMAIN acked.jobs
        BY <1>11 DEF Distributed
      <3>2. \A k \in DOMAIN split_providers_ \ DOMAIN acked.jobs : split_providers_[k] = 0
        BY <1>8 DEF SplitsInv, ProvidersInv
      <3>3. CASE e
        BY <1>9, <3>2, <3>3
      <3>4. CASE ~e
        BY <1>9, <3>1, <3>2, <3>4
      <3> QED BY <3>3, <3>4
    <2> QED BY <1>7, <1>8, <1>11, <1>14, <2>1, <2>2 DEF SplitsInv, ProvidersInv
  <1>16. GivingInv'
    <2>1. stale => q = <<>> /\ e
      BY <1>3, <1>4
    <2>2. ~e => ~stale
      BY <1>3
    <2>3. e /\ q # <<>> => p = NumSplits
      BY <1>2, <1>3, <1>4, <1>6
    <2> QED BY <1>7, <1>8, <1>11, <1>12, <1>13, <1>14, <2>1, <2>2, <2>3 DEF GivingInv
  <1>17. GivenInv' /\ RecordingInv'
    BY <1>7, <1>8, GivenKept DEF SplitsInv, RecordingInv
  <1>18. ASSUME NEW k \in Distributed' PROVE SplitsOf(k, NextSplit(k), Recorded(k))'
    <2>1. NextSplit(k) = split_providers_[k] /\ Recorded(k) = 0
      BY <1>8, IdleNow DEF NextSplit, Recorded, Giving
    <2>2. SplitsOf(k, split_providers_[k], 0)
      BY <1>11, <2>1 DEF SplitsInv
    <2>3. NextSplit(k)' = split_providers_[k] /\ Recorded(k)' = 0
      <3>1. CASE k # j
        BY <1>7, <1>8, <1>11, <1>14, <3>1 DEF NextSplit, Recorded, Giving
      <3>2. CASE k = j /\ ~e
        <4>1. q # <<>>
          BY <1>3, <1>4, <3>2
        <4> QED BY <1>6, <1>7, <1>8, <3>2, <4>1 DEF NextSplit, Recorded, Giving
      <3>3. CASE k = j /\ e
        <4>1. ~stale => q # <<>>
          BY <1>4
        <4> QED BY <1>6, <1>7, <1>8, <1>14, <3>3, <4>1 DEF NextSplit, Recorded, Giving
      <3> QED BY <3>1, <3>2, <3>3
    <2>4. PICK n : n = split_providers_[k]
      OBVIOUS
    <2>5. SplitsOf(k, n, 0)'
      BY <1>8, <2>2, <2>4, SplitsOfKept
    <2> QED BY <2>3, <2>4, <2>5
  <1> QED BY <1>15, <1>16, <1>17, <1>18 DEF SplitsInv

LEMMA OnlyBeforeMore ==
    ASSUME GivenInv, NEW j, NEW rep \in Nat, NEW n \in Nat, NEW m \in Nat, n <= m, OnlyBefore(j, rep, n)
    PROVE  OnlyBefore(j, rep, m)
  <1>1. \A g \in Range(given) : g[3] \in Nat
    <2>1. \A i \in DOMAIN given : given[i] \in Nat \X Nat \X Nat
      BY DEF GivenInv
    <2> QED BY <2>1 DEF Range
  <1> QED BY <1>1 DEF OnlyBefore

LEMMA JobIndex ==
    ASSUME ServiceInv, NEW j \in DOMAIN acked.jobs
    PROVE  j \in Nat /\ acked.jobs[j].repetition \in Nat /\ acked.jobs[j].index \in Nat
  <1>1. acked \in State
    BY DEF ServiceInv, DispatcherInv, StateInv
  <1>2. PICK job \in Job : job = acked.jobs[j]
    BY <1>1, Fields, MapIs
  <1>3. j \in Nat
    BY <1>1, Fields, MapIs
  <1> QED BY <1>2, <1>3 DEF Job

LEMMA NextIs ==
    ASSUME ServiceInv, SplitsInv, NEW j \in Distributed
    PROVE  /\ NextSplit(j) \in Nat /\ Recorded(j) \in {0, 1} /\ SplitsOf(j, NextSplit(j), Recorded(j))
           /\ j \in DOMAIN acked.jobs /\ acked.jobs[j].repetition \in Nat /\ acked.jobs[j].index \in Nat
           /\ started_ => split_providers_[j] \in Nat
  <1>1. j \in DOMAIN acked.jobs
    BY DEF Distributed
  <1>2. acked.jobs[j].repetition \in Nat /\ acked.jobs[j].index \in Nat
    BY <1>1, JobIndex
  <1>3. started_ => split_providers_[j] \in Nat
    BY DEF SplitsInv, ProvidersInv
  <1>4. Giving(j) => op.split \in Nat
    BY DEF SplitsInv, GivingInv, Giving
  <1> QED BY <1>1, <1>2, <1>3, <1>4 DEF SplitsInv, NextSplit, Recorded

(* A split that could not be recorded is lost: the provider has moved on.  *)
LEMMA FailureSplits == ASSUME ServiceInv, SplitsInv, ApplyFails PROVE SplitsInv'
  <1>1. /\ started_ /\ op.todo # <<>> /\ op' = Idle
        /\ UNCHANGED <<started_, acked, split_providers_, given>>
        /\ faults \cup {"write"} \cup Cut \subseteq faults'
    BY DEF ApplyFails
  <1>2. op'.handler = "none" /\ op'.todo = <<>>
    BY <1>1, IdleNow
  <1>3. Distributed' = Distributed
    BY <1>1 DEF Distributed
  <1>4. GivenInv' /\ GivingInv' /\ RecordingInv' /\ ProvidersInv'
    BY <1>1, <1>2, <1>3, GivenKept DEF SplitsInv, GivingInv, RecordingInv, ProvidersInv
  <1>5. ASSUME NEW j \in Distributed' PROVE SplitsOf(j, NextSplit(j), Recorded(j))'
    <2>1. PICK n \in Nat, m \in Nat : n = NextSplit(j) /\ m = split_providers_[j]
      BY <1>1, <1>3, NextIs
    <2>2. n <= m
      <3>1. CASE Giving(j) /\ ~op.end
        BY <1>1, <2>1, <3>1 DEF NextSplit, Giving, SplitsInv, GivingInv
      <3>2. CASE ~(Giving(j) /\ ~op.end)
        BY <1>1, <2>1, <3>2 DEF NextSplit
      <3> QED BY <3>1, <3>2
    <2>3. NextSplit(j)' = m /\ Recorded(j)' = 0
      BY <1>1, <1>2, <2>1 DEF NextSplit, Recorded, Giving
    <2>4. ~({"write", "crash"} \subseteq faults') => OnlyBefore(j, acked.jobs[j].repetition, m)
      <3>1. SUFFICES ASSUME ~({"write", "crash"} \subseteq faults')
                     PROVE  OnlyBefore(j, acked.jobs[j].repetition, m)
        OBVIOUS
      <3>2. ~({"write", "crash"} \subseteq faults)
        BY <1>1, <3>1
      <3>3. OnlyBefore(j, acked.jobs[j].repetition, n) /\ acked.jobs[j].repetition \in Nat
        BY <1>3, <2>1, <3>2, NextIs DEF SplitsOf
      <3> QED BY <2>1, <2>2, <3>3, OnlyBeforeMore DEF SplitsInv
    <2>5. "write" \in faults'
      BY <1>1
    <2>6. SplitsOf(j, m, 0)'
      BY <1>1, <2>4, <2>5 DEF SplitsOf, OnlyBefore
    <2> QED BY <2>3, <2>6
  <1> QED BY <1>4, <1>5 DEF SplitsInv

(* A crash leaves the journal, which has every split that was sent; after  *)
(* a failed write it may also have one that was not.                       *)
LEMMA CrashSplits == ASSUME ServiceInv, JournalInv, SplitsInv, Crash PROVE SplitsInv'
  <1>1. /\ started_ /\ started_' = FALSE /\ op' = Idle /\ given' = given
        /\ acked' = (IF readable THEN journal ELSE acked)
        /\ faults' = faults \cup {"crash"} \cup Cut
    BY DEF Crash
  <1>2. op'.handler = "none" /\ op'.todo = <<>> /\ faults \subseteq faults' /\ "crash" \in faults'
    BY <1>1, IdleNow
  <1>3. DOMAIN acked.jobs \subseteq DOMAIN acked'.jobs
    BY <1>1 DEF JournalInv, Covers, Within
  <1>4. GivenInv' /\ GivingInv' /\ RecordingInv' /\ ProvidersInv'
    BY <1>1, <1>2, <1>3, GivenKept DEF SplitsInv, GivingInv, RecordingInv, ProvidersInv
  <1>5. ASSUME "kept" \notin faults, NEW j \in Distributed' PROVE SplitsOf(j, NextSplit(j), Recorded(j))'
    <2>0. acked' = acked
      BY <1>1, <1>5 DEF JournalInv
    <2>. j \in Distributed
      BY <1>5, <2>0 DEF Distributed
    <2>1. PICK n \in Nat, m \in Nat, x \in {0, 1} :
             n = NextSplit(j) /\ m = acked.jobs[j].index /\ x = Recorded(j)
      BY NextIs
    <2>2. NextSplit(j)' = m /\ Recorded(j)' = 0
      BY <1>1, <1>2, <2>0, <2>1 DEF NextSplit, Recorded, Giving
    <2>3. ~({"write", "crash"} \subseteq faults') => OnlyBefore(j, acked.jobs[j].repetition, m)
      <3>1. SUFFICES ASSUME ~({"write", "crash"} \subseteq faults')
                     PROVE  OnlyBefore(j, acked.jobs[j].repetition, m)
        OBVIOUS
      <3>2. "write" \notin faults
        BY <1>1, <3>1
      <3>3. /\ OnlyBefore(j, acked.jobs[j].repetition, n) /\ m = n + x
            /\ acked.jobs[j].repetition \in Nat
        BY <2>1, <3>2, NextIs DEF SplitsOf
      <3>4. n <= m
        BY <3>3
      <3> QED BY <2>1, <3>3, <3>4, OnlyBeforeMore DEF SplitsInv
    <2>4. "crash" \in faults' /\ m = m + 0
      BY <1>1
    <2>5. SplitsOf(j, m, 0)'
      BY <1>1, <2>0, <2>1, <2>3, <2>4 DEF SplitsOf, OnlyBefore
    <2> QED BY <2>2, <2>5
  <1>6. ASSUME "kept" \in faults, NEW j \in Distributed' PROVE SplitsOf(j, NextSplit(j), Recorded(j))'
    <2>1. {"write", "crash"} \subseteq faults'
      BY <1>2, <1>6 DEF JournalInv
    <2> QED BY <2>1 DEF SplitsOf
  <1> QED BY <1>4, <1>5, <1>6 DEF SplitsInv

(* Start: RestoreSplitProviders.                                           *)
LEMMA StartSplits == ASSUME ServiceInv, JournalInv, SplitsInv, Start PROVE SplitsInv'
  <1>1. /\ ~started_ /\ started_' = TRUE /\ UNCHANGED <<acked, op, given, faults>>
        /\ split_providers_' = [j \in Distributed |-> acked.jobs[j].index]
    BY DEF Start, JournalInv, faultVars, journalVars, Distributed, RestoreSplitProviders
  <1>2. op = Idle /\ op.handler = "none" /\ op.todo = <<>>
    BY <1>1, IdleNow DEF ServiceInv, DispatcherInv
  <1>3. Distributed' = Distributed
    BY <1>1 DEF Distributed
  <1>4. /\ \A j \in Distributed : acked.jobs[j].index \in Nat
        /\ DOMAIN split_providers_' = Distributed /\ Distributed \subseteq DOMAIN acked.jobs
    BY <1>1, NextIs DEF Distributed
  <1>5. GivenInv' /\ GivingInv' /\ RecordingInv' /\ ProvidersInv'
    BY <1>1, <1>2, <1>3, <1>4, GivenKept DEF SplitsInv, GivingInv, RecordingInv, ProvidersInv
  <1>6. ASSUME NEW j \in Distributed' PROVE SplitsOf(j, NextSplit(j), Recorded(j))'
    <2>1. PICK n : n = acked.jobs[j].index
      OBVIOUS
    <2>2. NextSplit(j) = n /\ Recorded(j) = 0 /\ NextSplit(j)' = n /\ Recorded(j)' = 0
      BY <1>1, <1>2, <1>3, <2>1 DEF NextSplit, Recorded, Giving
    <2>3. SplitsOf(j, n, 0)
      BY <1>3, <2>2, NextIs
    <2>4. SplitsOf(j, n, 0)'
      BY <1>1, <2>3, SplitsOfKept
    <2> QED BY <2>2, <2>4
  <1> QED BY <1>5, <1>6 DEF SplitsInv

LEMMA GivenMore ==
    ASSUME GivenInv, NEW g \in Nat \X Nat \X Nat, given' = Append(given, g)
    PROVE  /\ given' \in Seq(Nat \X Nat \X Nat) /\ Range(given)' = Range(given) \cup {g}
           /\ IsInjective(given) /\ g \notin Range(given) => IsInjective(given')
  <1>1. given \in Seq(Nat \X Nat \X Nat)
    BY DEF GivenInv
  <1>2. PICK n \in Nat : n = Len(given) /\ DOMAIN given = 1 .. n
    BY <1>1
  <1>3. /\ given' \in Seq(Nat \X Nat \X Nat) /\ DOMAIN given' = 1 .. (n + 1)
        /\ given'[n + 1] = g /\ \A i \in 1 .. n : given'[i] = given[i]
    BY <1>1, <1>2
  <1>4. Range(given)' = Range(given) \cup {g}
    <2>1. ASSUME NEW x PROVE x \in Range(given)' <=> x \in Range(given) \cup {g}
      <3>1. x \in Range(given)' <=> \E i \in 1 .. (n + 1) : given'[i] = x
        BY <1>3 DEF Range
      <3>2. x \in Range(given) <=> \E i \in 1 .. n : given[i] = x
        BY <1>2 DEF Range
      <3>3. \A i \in 1 .. (n + 1) : i \in 1 .. n \/ i = n + 1
        OBVIOUS
      <3>4. n + 1 \in 1 .. (n + 1) /\ \A i \in 1 .. n : i \in 1 .. (n + 1)
        OBVIOUS
      <3> QED BY <1>3, <3>1, <3>2, <3>3, <3>4
    <2> QED BY <2>1
  <1>5. ASSUME IsInjective(given), g \notin Range(given) PROVE IsInjective(given')
    <2>1. \A i \in 1 .. n : given[i] # g
      BY <1>2, <1>5 DEF Range
    <2>2. \A i, k \in 1 .. n : given[i] = given[k] => i = k
      BY <1>2, <1>5 DEF IsInjective
    <2>3. ASSUME NEW a \in 1 .. (n + 1), NEW b \in 1 .. (n + 1), given'[a] = given'[b]
          PROVE  a = b
      <3>1. CASE a \in 1 .. n /\ b \in 1 .. n
        BY <1>3, <2>2, <2>3, <3>1
      <3>2. CASE a = n + 1 /\ b \in 1 .. n
        BY <1>3, <2>1, <2>3, <3>2
      <3>3. CASE a \in 1 .. n /\ b = n + 1
        BY <1>3, <2>1, <2>3, <3>3
      <3>4. CASE a = n + 1 /\ b = n + 1
        BY <3>4
      <3> QED BY <3>1, <3>2, <3>3, <3>4
    <2> QED BY <1>3, <2>3 DEF IsInjective
  <1> QED BY <1>3, <1>4, <1>5

(* RespondSplit: the split is new, and the next one follows it.            *)
LEMMA SplitResponseSplits == ASSUME ServiceInv, SplitsInv, RespondSplit PROVE SplitsInv'
  <1>1. /\ started_ /\ op.handler = "get_split" /\ op.todo = <<>> /\ ~op.end /\ op' = Idle
        /\ given' = Append(given, <<op.job, op.repetition, op.split>>)
        /\ UNCHANGED <<started_, acked, split_providers_, faults>>
    BY DEF RespondSplit, Respond, faultVars, journalVars
  <1>2. op'.handler = "none" /\ op'.todo = <<>>
    BY <1>1, IdleNow
  <1>3. PICK j \in Distributed, n \in Nat : j = op.job /\ n = op.split
    BY <1>1 DEF SplitsInv, GivingInv
  <1>4. PICK rep \in Nat : rep = acked.jobs[j].repetition
    BY NextIs
  <1>5. op.repetition = rep /\ split_providers_[j] = n + 1
    BY <1>1, <1>3, <1>4 DEF SplitsInv, GivingInv
  <1>6. j \in DOMAIN acked.jobs /\ j \in Nat
    BY JobIndex DEF Distributed
  <1>7. PICK g \in Nat \X Nat \X Nat : g = <<j, rep, n>>
    BY <1>6
  <1>8. g[1] = j /\ g[2] = rep /\ g[3] = n
    BY <1>7
  <1>9. given' = Append(given, g)
    BY <1>1, <1>3, <1>5, <1>7
  <1>10. /\ given' \in Seq(Nat \X Nat \X Nat) /\ Range(given)' = Range(given) \cup {g}
         /\ IsInjective(given) /\ g \notin Range(given) => IsInjective(given')
    BY <1>9, GivenMore DEF SplitsInv
  <1>11. SplitsOf(j, n, 1)
    <2>1. NextSplit(j) = n /\ Recorded(j) = 1
      BY <1>1, <1>3 DEF NextSplit, Recorded, Giving
    <2> QED BY <2>1, NextIs
  <1>12. Distributed' = Distributed
    BY <1>1 DEF Distributed
  <1>13. GivingInv' /\ RecordingInv' /\ ProvidersInv'
    BY <1>1, <1>2, <1>12 DEF SplitsInv, GivingInv, RecordingInv, ProvidersInv
  <1>14. GivenInv'
    <2>1. \A h \in Range(given)' : h[1] \in DOMAIN acked.jobs
      BY <1>6, <1>8, <1>10 DEF SplitsInv, GivenInv
    <2>2. ASSUME ~({"write", "crash"} \subseteq faults) PROVE IsInjective(given')
      <3>1. OnlyBefore(j, rep, n) /\ IsInjective(given)
        BY <1>4, <1>11, <2>2 DEF SplitsOf, SplitsInv, GivenInv
      <3>2. g \notin Range(given)
        BY <1>8, <3>1 DEF OnlyBefore
      <3> QED BY <1>10, <3>1, <3>2
    <2> QED BY <1>1, <1>10, <2>1, <2>2 DEF GivenInv
  <1>15. SplitsOf(j, n + 1, 0)'
    <2>1. ASSUME ~({"write", "crash"} \subseteq faults) PROVE OnlyBefore(j, rep, n + 1)'
      <3>1. OnlyBefore(j, rep, n)
        BY <1>4, <1>11, <2>1 DEF SplitsOf
      <3>2. OnlyBefore(j, rep, n + 1)
        BY <3>1, OnlyBeforeMore DEF SplitsInv
      <3>3. g[2] <= rep /\ g[3] < n + 1
        BY <1>8
      <3> QED BY <1>10, <3>2, <3>3 DEF OnlyBefore
    <2>2. ASSUME "write" \notin faults PROVE acked.jobs[j].index = (n + 1) + 0
      BY <1>11, <2>2 DEF SplitsOf
    <2>3. ASSUME faults = {} PROVE AllBefore(j, rep, n + 1)'
      <3>1. AllBefore(j, rep, n)
        BY <1>4, <1>11, <2>3 DEF SplitsOf
      <3>2. ASSUME NEW i \in 0 .. (n + 1 - 1) PROVE <<j, rep, i>> \in Range(given)'
        <4>1. CASE i = n
          BY <1>7, <1>10, <4>1
        <4>2. CASE i # n
          <5>1. i \in 0 .. (n - 1)
            BY <3>2, <4>2
          <5> QED BY <1>10, <3>1, <5>1 DEF AllBefore
        <4> QED BY <4>1, <4>2
      <3> QED BY <1>10, <3>1, <3>2 DEF AllBefore
    <2> QED BY <1>1, <1>4, <2>1, <2>2, <2>3 DEF SplitsOf
  <1>16. ASSUME NEW k \in Distributed, k # j PROVE SplitsOf(k, split_providers_[k], 0)'
    <2>1. NextSplit(k) = split_providers_[k] /\ Recorded(k) = 0
      BY <1>1, <1>3, <1>16 DEF NextSplit, Recorded, Giving
    <2>2. SplitsOf(k, split_providers_[k], 0)
      BY <2>1, NextIs
    <2>3. g[1] # k
      BY <1>8, <1>16
    <2> QED BY <1>1, <1>10, <2>2, <2>3 DEF SplitsOf, OnlyBefore, AllBefore
  <1>17. ASSUME NEW k \in Distributed' PROVE SplitsOf(k, NextSplit(k), Recorded(k))'
    <2>1. NextSplit(k)' = split_providers_[k] /\ Recorded(k)' = 0
      BY <1>1, <1>2 DEF NextSplit, Recorded, Giving
    <2>2. SplitsOf(k, split_providers_[k], 0)'
      BY <1>1, <1>5, <1>12, <1>15, <1>16
    <2> QED BY <1>1, <2>1, <2>2
  <1> QED BY <1>13, <1>14, <1>17 DEF SplitsInv

(* RespondEndOfSplits: the provider is reset after the end was recorded.   *)
LEMMA EndOfSplitsSplits == ASSUME ServiceInv, SplitsInv, RespondEndOfSplits PROVE SplitsInv'
  <1>1. /\ started_ /\ op.handler = "get_split" /\ op.todo = <<>> /\ op.end /\ op' = Idle
        /\ split_providers_' = IF op.stale THEN split_providers_ ELSE [split_providers_ EXCEPT ![op.job] = 0]
        /\ UNCHANGED <<started_, acked, given, faults>>
    BY DEF RespondEndOfSplits, Respond, faultVars, journalVars
  <1>2. op'.handler = "none" /\ op'.todo = <<>>
    BY <1>1, IdleNow
  <1>3. PICK j \in Distributed : j = op.job
    BY <1>1 DEF SplitsInv, GivingInv
  <1>4. Distributed' = Distributed
    BY <1>1 DEF Distributed
  <1>5. \A k \in Distributed : k \in DOMAIN split_providers_ /\ split_providers_[k] \in Nat
    BY <1>1 DEF SplitsInv, ProvidersInv
  <1>6. /\ \A k \in Distributed : k \in DOMAIN split_providers_' /\ split_providers_'[k] \in Nat
        /\ \A k \in Distributed \ {j} : split_providers_'[k] = split_providers_[k]
        /\ split_providers_'[j] = IF op.stale THEN split_providers_[j] ELSE 0
        /\ \A k \in DOMAIN split_providers_' \ DOMAIN acked.jobs : split_providers_'[k] = 0
    <2>0. \A k \in DOMAIN split_providers_ \ DOMAIN acked.jobs : split_providers_[k] = 0
      BY <1>1 DEF SplitsInv, ProvidersInv
    <2>1. CASE op.stale
      BY <1>1, <1>5, <2>0, <2>1
    <2>2. CASE ~op.stale
      BY <1>1, <1>3, <1>5, <2>0, <2>2
    <2> QED BY <2>1, <2>2
  <1>7. GivenInv' /\ GivingInv' /\ RecordingInv' /\ ProvidersInv'
    BY <1>1, <1>2, <1>4, <1>6, GivenKept DEF SplitsInv, GivingInv, RecordingInv, ProvidersInv
  <1>8. ASSUME NEW k \in Distributed' PROVE SplitsOf(k, NextSplit(k), Recorded(k))'
    <2>1. NextSplit(k)' = split_providers_'[k] /\ Recorded(k)' = 0
      BY <1>1, <1>2 DEF NextSplit, Recorded, Giving
    <2>2. NextSplit(k) = split_providers_'[k] /\ Recorded(k) = 0
      <3>1. CASE k = j
        BY <1>1, <1>3, <1>6, <3>1 DEF NextSplit, Recorded, Giving
      <3>2. CASE k # j
        BY <1>1, <1>3, <1>4, <1>6, <3>2 DEF NextSplit, Recorded, Giving
      <3> QED BY <3>1, <3>2
    <2>3. PICK n : n = NextSplit(k)
      OBVIOUS
    <2>4. SplitsOf(k, n, 0)
      BY <1>4, <2>2, <2>3, NextIs
    <2>5. SplitsOf(k, n, 0)'
      BY <1>1, <2>4, SplitsOfKept
    <2> QED BY <2>1, <2>2, <2>3, <2>5
  <1> QED BY <1>7, <1>8 DEF SplitsInv

LEMMA LaterTypes ==
    ASSUME NEW s, NEW q, TodoInv(s, q), q # <<>>, Tail(q) # <<>>
    PROVE  Head(Tail(q)).type \in {"acquire_job_client", "create_task", "finish_task"}
  <1>1. q \in Seq(Update) /\ \A i \in 1 .. Len(q) : UpdateOK(s, q, i)
    BY DEF TodoInv
  <1>2. 2 \in 1 .. Len(q) /\ Head(Tail(q)) = q[2]
    BY <1>1
  <1>3. UpdateOK(s, q, 2)
    BY <1>1, <1>2
  <1> QED BY <1>2, <1>3 DEF UpdateOK

(* The records and the state after Apply, and what is left to do.          *)
LEMMA ApplyIs ==
    ASSUME ServiceInv, Apply
    PROVE  \E u \in Update :
              /\ u = Head(op.todo) /\ started_ /\ op.todo # <<>> /\ Applies(acked, u)
              /\ StateInv(acked) /\ Effect(acked', acked, u)
              /\ Progress(acked', acked, u) /\ Listed(acked', acked, u)
              /\ op'.handler = IF op.handler \in Plain THEN "none" ELSE op.handler
              /\ op'.todo = IF op.handler \in Plain THEN <<>> ELSE Tail(op.todo)
              /\ op'.todo # <<>> => Head(op'.todo).type \in {"acquire_job_client", "create_task", "finish_task"}
              /\ UNCHANGED <<started_, split_providers_, given, faults>>
  <1>1. PICK u : u = Head(op.todo)
    OBVIOUS
  <1>2. /\ started_ /\ op.todo # <<>> /\ acked' = ApplyUpdate(acked, u)
        /\ op' = IF op.handler \in Plain THEN Idle ELSE [op EXCEPT !.todo = Tail(op.todo)]
        /\ UNCHANGED <<started_, split_providers_, given, faults>>
    BY <1>1 DEF Apply, Write, faultVars, journalVars
  <1>3. /\ StateInv(state_) /\ StateInv(acked) /\ TodoInv(state_, op.todo) /\ Agree(state_, acked)
        /\ HandlerInv(state_, op)
    BY <1>2 DEF ServiceInv, DispatcherInv
  <1>4. u \in Update /\ Applies(state_, u)
    BY <1>1, <1>2, <1>3, TodoApplies
  <1>5. Applies(acked, u)
    BY <1>3, <1>4, AgreeApplies
  <1>6. Effect(acked', acked, u) /\ Progress(acked', acked, u) /\ Listed(acked', acked, u)
    BY <1>2, <1>3, <1>4, <1>5, UpdateKeeps, UpdateProgress
  <1>7. /\ op'.handler = IF op.handler \in Plain THEN "none" ELSE op.handler
        /\ op'.todo = IF op.handler \in Plain THEN <<>> ELSE Tail(op.todo)
    <2>1. {"handler", "todo"} \subseteq DOMAIN op
      BY <1>3 DEF HandlerInv
    <2>2. CASE op.handler \in Plain
      BY <1>2, <2>2, IdleNow
    <2>3. CASE op.handler \notin Plain
      BY <1>2, <2>1, <2>3
    <2> QED BY <2>2, <2>3
  <1>8. op'.todo # <<>> => Head(op'.todo).type \in {"acquire_job_client", "create_task", "finish_task"}
    BY <1>2, <1>3, <1>7, LaterTypes
  <1> QED BY <1>1, <1>2, <1>3, <1>4, <1>5, <1>6, <1>7, <1>8

(* Apply in a handler that gives no split.                                 *)
LEMMA OtherApplySplits == ASSUME ServiceInv, SplitsInv, Apply, op.handler # "get_split" PROVE SplitsInv'
  <1>1. PICK u \in Update :
           /\ u = Head(op.todo) /\ started_ /\ op.todo # <<>> /\ Applies(acked, u)
           /\ StateInv(acked) /\ Effect(acked', acked, u)
           /\ Progress(acked', acked, u) /\ Listed(acked', acked, u)
           /\ op'.handler = IF op.handler \in Plain THEN "none" ELSE op.handler
           /\ op'.todo = IF op.handler \in Plain THEN <<>> ELSE Tail(op.todo)
           /\ op'.todo # <<>> => Head(op'.todo).type \in {"acquire_job_client", "create_task", "finish_task"}
           /\ UNCHANGED <<started_, split_providers_, given, faults>>
    BY ApplyIs
  <1>2. op'.handler # "get_split" /\ u.type # "produce_split"
    BY <1>1 DEF SplitsInv, RecordingInv
  <1>3. PICK J : J = DOMAIN acked.jobs
    OBVIOUS
  <1>4. ASSUME NEW j \in J
        PROVE  /\ acked'.jobs[j].processing_mode = acked.jobs[j].processing_mode
               /\ acked'.jobs[j].repetition = acked.jobs[j].repetition
               /\ acked'.jobs[j].index = acked.jobs[j].index
    <2>1. acked.jobs[j].repetition \in Nat
      BY <1>3, JobIndex
    <2>2. Repeats(u, j) = 0 /\ Indexed(acked, u, j) = acked.jobs[j].index
      BY <1>2 DEF Repeats, Indexed
    <2>3. /\ acked'.jobs[j].processing_mode = acked.jobs[j].processing_mode
          /\ acked'.jobs[j].repetition = acked.jobs[j].repetition + Repeats(u, j)
          /\ acked'.jobs[j].index = Indexed(acked, u, j)
      BY <1>1, <1>3 DEF Effect, JobsEffect, Progress
    <2> QED BY <2>1, <2>2, <2>3
  <1>5. DOMAIN acked'.jobs = J \cup (IF u.type = "create_job" THEN {u.job_id} ELSE {})
    BY <1>1, <1>3 DEF Effect, JobsEffect
  <1>6. ASSUME u.type = "create_job"
        PROVE  /\ acked'.jobs[u.job_id].processing_mode = u.processing_mode
               /\ acked'.jobs[u.job_id].repetition = 0 /\ acked'.jobs[u.job_id].index = 0
               /\ u.job_id \notin J
               /\ u.processing_mode = "DISTRIBUTED_EPOCH" =>
                     u.job_id \in DOMAIN split_providers_ /\ split_providers_[u.job_id] = 0
    <2>1. u.job_id \notin J
      BY <1>1, <1>3, <1>6 DEF Applies, Checks
    <2> QED BY <1>1, <1>6, <2>1 DEF Effect, JobsEffect, Progress, SplitsInv, ProvidersInv
  <1>7. GivenInv' /\ GivingInv' /\ RecordingInv'
    BY <1>1, <1>2, <1>3, <1>5, GivenKept DEF SplitsInv, GivingInv, RecordingInv
  <1>8. \A j \in J : j \in Distributed' <=> j \in Distributed
    BY <1>3, <1>4, <1>5 DEF Distributed
  <1>9. Distributed \subseteq J
        /\ \A j \in Distributed' : \/ j \in Distributed
                                   \/ /\ u.type = "create_job" /\ j = u.job_id
                                      /\ u.processing_mode = "DISTRIBUTED_EPOCH"
    BY <1>3, <1>5, <1>6, <1>8 DEF Distributed
  <1>10. ProvidersInv'
    <2>1. \A j \in Distributed' : j \in DOMAIN split_providers_ /\ split_providers_[j] \in Nat
      BY <1>1, <1>6, <1>9 DEF SplitsInv, ProvidersInv
    <2>2. faults = {} => \A j \in DOMAIN acked'.jobs \ Distributed' : acked'.jobs[j].repetition = 0
      BY <1>3, <1>4, <1>5, <1>6, <1>8 DEF SplitsInv, ProvidersInv
    <2>3. \A j \in DOMAIN split_providers_ \ DOMAIN acked'.jobs : split_providers_[j] = 0
      BY <1>1, <1>3, <1>5 DEF SplitsInv, ProvidersInv
    <2> QED BY <1>1, <2>1, <2>2, <2>3 DEF SplitsInv, ProvidersInv
  <1>11. ASSUME NEW j \in Distributed' PROVE SplitsOf(j, NextSplit(j), Recorded(j))'
    <2>1. PICK n : n = split_providers_[j]
      OBVIOUS
    <2>2. NextSplit(j)' = n /\ Recorded(j)' = 0
      BY <1>1, <1>2, <2>1 DEF NextSplit, Recorded, Giving
    <2>3. CASE j \in Distributed
      <3>1. NextSplit(j) = n /\ Recorded(j) = 0
        BY <1>1, <2>1 DEF NextSplit, Recorded, Giving
      <3>2. SplitsOf(j, n, 0)
        BY <2>3, <3>1, NextIs
      <3>3. SplitsOf(j, n, 0)'
        BY <1>1, <1>4, <1>9, <2>3, <3>2, SplitsOfKept
      <3> QED BY <2>2, <3>3
    <2>4. CASE j \notin Distributed
      <3>1. /\ j \notin J /\ n = 0 /\ acked'.jobs[j].repetition = 0 /\ acked'.jobs[j].index = 0
        BY <1>6, <1>9, <2>1, <2>4
      <3>2. OnlyBefore(j, 0, 0)'
        BY <1>1, <1>3, <3>1 DEF OnlyBefore, SplitsInv, GivenInv
      <3>3. AllBefore(j, 0, 0)'
        <4>1. 0 .. (0 - 1) = {}
          OBVIOUS
        <4> QED BY <4>1 DEF AllBefore
      <3>4. SplitsOf(j, n, 0)'
        BY <3>1, <3>2, <3>3 DEF SplitsOf
      <3> QED BY <2>2, <3>4
    <2> QED BY <2>3, <2>4
  <1> QED BY <1>7, <1>10, <1>11 DEF SplitsInv

(* Apply in GetSplit: a split is recorded, or the end of the repetition,   *)
(* when all of its splits have been sent.                                  *)
LEMMA RecordSplits == ASSUME ServiceInv, SplitsInv, Apply, op.handler = "get_split" PROVE SplitsInv'
  <1>1. PICK u \in Update :
           /\ u = Head(op.todo) /\ started_ /\ op.todo # <<>> /\ Applies(acked, u)
           /\ StateInv(acked) /\ Effect(acked', acked, u)
           /\ Progress(acked', acked, u) /\ Listed(acked', acked, u)
           /\ op'.handler = IF op.handler \in Plain THEN "none" ELSE op.handler
           /\ op'.todo = IF op.handler \in Plain THEN <<>> ELSE Tail(op.todo)
           /\ op'.todo # <<>> => Head(op'.todo).type \in {"acquire_job_client", "create_task", "finish_task"}
           /\ UNCHANGED <<started_, split_providers_, given, faults>>
    BY ApplyIs
  <1>2. op' = [op EXCEPT !.todo = Tail(op.todo)]
    BY DEF Apply, Plain
  <1>3. /\ {"handler", "job", "repetition", "split", "end", "stale", "todo"} \subseteq DOMAIN op
        /\ SplitInv(state_, op)
    BY DEF ServiceInv, DispatcherInv, HandlerInv
  <1>4. op.todo = <<[type |-> "produce_split", job_id |-> op.job,
                     finished |-> op.end, repetition |-> op.repetition]>>
    BY <1>1, <1>3 DEF SplitInv
  <1>5. /\ op'.handler = "get_split" /\ op'.job = op.job /\ op'.repetition = op.repetition
        /\ op'.split = op.split /\ op'.end = op.end /\ op'.stale = op.stale /\ op'.todo = <<>>
    BY <1>2, <1>3, <1>4
  <1>6. /\ u.type = "produce_split" /\ u.job_id = op.job /\ u.finished = op.end
        /\ u.repetition = op.repetition
    BY <1>1, <1>4
  <1>7. PICK j \in Distributed, n \in Nat : j = op.job /\ n = op.split
    BY DEF SplitsInv, GivingInv
  <1>8. ~op.stale /\ j \in DOMAIN acked.jobs
    BY <1>1 DEF SplitsInv, GivingInv, Distributed
  <1>9. PICK rep \in Nat, i \in Nat : /\ rep = acked.jobs[j].repetition /\ i = acked.jobs[j].index
                                      /\ op.repetition = rep
    <2>1. acked.jobs[j].repetition \in Nat /\ acked.jobs[j].index \in Nat
      BY NextIs
    <2>2. op.repetition = acked.jobs[j].repetition
      BY <1>1, <1>6, <1>7 DEF Applies, Checks
    <2> QED BY <2>1, <2>2
  <1>10. /\ DOMAIN acked'.jobs = DOMAIN acked.jobs
         /\ \A k \in DOMAIN acked.jobs : acked'.jobs[k].processing_mode = acked.jobs[k].processing_mode
    BY <1>1, <1>6 DEF Effect, JobsEffect
  <1>11. ASSUME NEW k \in DOMAIN acked.jobs, k # j
         PROVE  /\ acked'.jobs[k].repetition = acked.jobs[k].repetition
                /\ acked'.jobs[k].index = acked.jobs[k].index
    <2>1. acked.jobs[k].repetition \in Nat
      BY JobIndex
    <2>2. Repeats(u, k) = 0 /\ Indexed(acked, u, k) = acked.jobs[k].index
      BY <1>6, <1>7, <1>11 DEF Repeats, Indexed
    <2>3. /\ acked'.jobs[k].repetition = acked.jobs[k].repetition + Repeats(u, k)
          /\ acked'.jobs[k].index = Indexed(acked, u, k)
      BY <1>1 DEF Effect, JobsEffect, Progress
    <2> QED BY <2>1, <2>2, <2>3
  <1>12. /\ op.end => acked'.jobs[j].repetition = rep + 1 /\ acked'.jobs[j].index = 0
         /\ ~op.end => acked'.jobs[j].repetition = rep /\ acked'.jobs[j].index = i + 1
    <2>1. /\ acked'.jobs[j].repetition = rep + Repeats(u, j)
          /\ acked'.jobs[j].index = Indexed(acked, u, j)
      BY <1>1, <1>8, <1>9 DEF Effect, JobsEffect, Progress
    <2>2. /\ op.end => Repeats(u, j) = 1 /\ Indexed(acked, u, j) = 0
          /\ ~op.end => Repeats(u, j) = 0 /\ Indexed(acked, u, j) = i + 1
      BY <1>6, <1>7, <1>9 DEF Repeats, Indexed
    <2> QED BY <2>1, <2>2
  <1>13. Distributed' = Distributed
    BY <1>10 DEF Distributed
  <1>14. GivenInv' /\ RecordingInv'
    BY <1>1, <1>5, <1>10, GivenKept DEF SplitsInv, RecordingInv
  <1>15. GivingInv'
    <2>1. ~op.end => split_providers_[j] = n + 1
      BY <1>7 DEF SplitsInv, GivingInv
    <2> QED BY <1>1, <1>5, <1>7, <1>8, <1>9, <1>12, <1>13, <2>1 DEF GivingInv
  <1>16. ProvidersInv'
    <2>1. faults = {} => \A k \in DOMAIN acked.jobs \ Distributed : acked'.jobs[k].repetition = 0
      BY <1>11 DEF SplitsInv, ProvidersInv
    <2> QED BY <1>1, <1>5, <1>10, <1>13, <2>1 DEF SplitsInv, ProvidersInv
  <1>17. ASSUME NEW k \in Distributed, k # j PROVE SplitsOf(k, NextSplit(k), Recorded(k))'
    <2>1. PICK m : m = split_providers_[k]
      OBVIOUS
    <2>2. NextSplit(k) = m /\ Recorded(k) = 0 /\ NextSplit(k)' = m /\ Recorded(k)' = 0
      BY <1>1, <1>5, <1>7, <1>17, <2>1 DEF NextSplit, Recorded, Giving
    <2>3. SplitsOf(k, m, 0) /\ k \in DOMAIN acked.jobs
      BY <2>2, NextIs
    <2>4. SplitsOf(k, m, 0)'
      BY <1>1, <1>11, <1>17, <2>3, SplitsOfKept
    <2> QED BY <2>2, <2>4
  <1>18. CASE ~op.end
    <2>1. NextSplit(j) = n /\ Recorded(j) = 0
      BY <1>1, <1>7, <1>18 DEF NextSplit, Recorded, Giving
    <2>2. SplitsOf(j, n, 0)
      BY <2>1, NextIs
    <2>3. NextSplit(j)' = n /\ Recorded(j)' = 1
      BY <1>1, <1>5, <1>7, <1>18 DEF NextSplit, Recorded, Giving
    <2>4. i = n + 0 => i + 1 = n + 1
      OBVIOUS
    <2>5. SplitsOf(j, n, 1)'
      BY <1>1, <1>9, <1>12, <1>18, <2>2, <2>4 DEF SplitsOf, OnlyBefore, AllBefore
    <2>6. SplitsOf(j, NextSplit(j), Recorded(j))'
      BY <2>3, <2>5
    <2> QED BY <1>13, <1>14, <1>15, <1>16, <1>17, <2>6 DEF SplitsInv
  <1>19. CASE op.end
    <2>1. NextSplit(j) = NumSplits /\ Recorded(j) = 0
      BY <1>1, <1>7, <1>19 DEF NextSplit, Recorded, Giving, SplitsInv, GivingInv
    <2>2. SplitsOf(j, NumSplits, 0)
      BY <2>1, NextIs
    <2>3. NextSplit(j)' = 0 /\ Recorded(j)' = 0
      BY <1>1, <1>5, <1>7, <1>8, <1>19 DEF NextSplit, Recorded, Giving
    <2>4. \A g \in Range(given) : g[2] \in Nat
      <3>1. \A l \in DOMAIN given : given[l] \in Nat \X Nat \X Nat
        BY DEF SplitsInv, GivenInv
      <3> QED BY <3>1 DEF Range
    <2>5. OnlyBefore(j, rep, NumSplits) => OnlyBefore(j, rep + 1, 0)
      BY <2>4 DEF OnlyBefore
    <2>6. ASSUME AllBefore(j, rep, NumSplits) PROVE AllBefore(j, rep + 1, 0)
      <3>1. ASSUME NEW r \in 0 .. (rep + 1 - 1), NEW l \in 0 .. (NumSplits - 1)
            PROVE  <<j, r, l>> \in Range(given)
        <4>1. CASE r = rep
          BY <2>6, <3>1, <4>1 DEF AllBefore
        <4>2. CASE r # rep
          <5>1. r \in 0 .. (rep - 1)
            BY <3>1, <4>2
          <5> QED BY <2>6, <3>1, <5>1 DEF AllBefore
        <4> QED BY <4>1, <4>2
      <3>2. 0 .. (0 - 1) = {}
        OBVIOUS
      <3> QED BY <3>1, <3>2 DEF AllBefore
    <2>7. SplitsOf(j, 0, 0)'
      <3>1. /\ ~({"write", "crash"} \subseteq faults) => OnlyBefore(j, rep + 1, 0)
            /\ faults = {} => AllBefore(j, rep + 1, 0)
        BY <1>9, <2>2, <2>5, <2>6 DEF SplitsOf
      <3>2. acked'.jobs[j].repetition = rep + 1 /\ acked'.jobs[j].index = 0 + 0
        BY <1>12, <1>19
      <3> QED BY <1>1, <3>1, <3>2 DEF SplitsOf, OnlyBefore, AllBefore
    <2>8. SplitsOf(j, NextSplit(j), Recorded(j))'
      BY <2>3, <2>7
    <2> QED BY <1>13, <1>14, <1>15, <1>16, <1>17, <2>8 DEF SplitsInv
  <1> QED BY <1>18, <1>19

(* Every step keeps what is said of the splits.                            *)
LEMMA SplitsNext == ASSUME ServiceInv, JournalInv, SplitsInv, [Next]_vars PROVE SplitsInv'
  <1>1. CASE UNCHANGED vars
    BY <1>1, SplitsKept DEF vars, dispatcherVars, journalVars, faultVars
  <1>2. CASE ClientNext
    BY <1>2, SplitsQuiet, CreateJobSplits DEF ClientNext
  <1>3. CASE DispatcherNext
    BY <1>3, SplitsQuiet, OtherApplySplits, RecordSplits, SplitResponseSplits, EndOfSplitsSplits
       DEF DispatcherNext
  <1>4. CASE FaultNext
    BY <1>4, SplitsQuiet, FailureSplits, CrashSplits DEF FaultNext
  <1>5. CASE AssignTask \/ Start
    BY <1>5, SplitsQuiet, StartSplits
  <1>6. ASSUME NEW w \in Workers, WorkerNext(w) PROVE SplitsInv'
    BY <1>6, SplitsQuiet, GetSplitSplits DEF WorkerNext
  <1> QED BY <1>1, <1>2, <1>3, <1>4, <1>5, <1>6 DEF Next

LEMMA SplitsInit == ASSUME Init PROVE SplitsInv
  <1>1. /\ given = <<>> /\ op.handler = "none" /\ op.todo = <<>> /\ started_ /\ faults = {}
        /\ DOMAIN acked.jobs = {} /\ DOMAIN split_providers_ = {}
    <2>1. EmptyState.jobs = <<>>
      BY DEF EmptyState
    <2> QED BY <2>1, IdleNow, EmptyMap DEF Init
  <1>2. Distributed = {}
    BY <1>1 DEF Distributed
  <1>3. GivenInv
    BY <1>1 DEF GivenInv, Range, IsInjective
  <1> QED BY <1>1, <1>2, <1>3 DEF SplitsInv, GivingInv, RecordingInv, ProvidersInv

(* What the records of a job's splits say (acked, which is what the journal *)
(* replays to unless a failed write left its record), what the split        *)
(* provider has left and what the workers were sent agree, at every moment  *)
(* of GetSplit, of a crash and of a restart (dispatcher_impl.cc, GetSplit,  *)
(* RestoreSplitProviders), until a write fails.                             *)
THEOREM SplitsInvariant == Spec => []SplitsInv
  <1>1. Init => SplitsInv
    BY SplitsInit
  <1>2. ServiceInv /\ JournalInv /\ SplitsInv /\ [Next]_vars => SplitsInv'
    BY SplitsNext
  <1> QED BY <1>1, <1>2, ServiceInvariant, PTL DEF Spec

(* data_service_ops.py:364: in a distributed epoch no split of a repetition *)
(* is sent twice, although the dispatcher may crash in every step of        *)
(* GetSplit (unless a write to the journal failed as well), and every split *)
(* of a repetition that is over was sent, when nothing failed.              *)
THEOREM DataSplitsOnce == Spec => []SplitsOnce
  <1>1. ASSUME ServiceInv, SplitsInv PROVE SplitsOnce
    <2>1. ~({"write", "crash"} \subseteq faults) => IsInjective(given)
      BY <1>1 DEF SplitsInv, GivenInv
    <2>2. ASSUME faults = {}, NEW j \in DOMAIN state_.jobs,
                 NEW r \in 0 .. (state_.jobs[j].repetition - 1), NEW i \in 0 .. (NumSplits - 1)
          PROVE  <<j, r, i>> \in Range(given)
      <3>1. state_ = acked
        BY <1>1, <2>2 DEF ServiceInv, DispatcherInv, SplitsInv, ProvidersInv
      <3>2. CASE j \in Distributed
        <4>1. AllBefore(j, acked.jobs[j].repetition, NextSplit(j))
          BY <1>1, <2>2, <3>2, NextIs DEF SplitsOf
        <4> QED BY <2>2, <3>1, <4>1 DEF AllBefore
      <3>3. CASE j \notin Distributed
        <4>1. acked.jobs[j].repetition = 0
          BY <1>1, <2>2, <3>1, <3>3 DEF SplitsInv, ProvidersInv
        <4>2. 0 .. (0 - 1) = {}
          OBVIOUS
        <4> QED BY <2>2, <3>1, <4>1, <4>2
      <3> QED BY <3>2, <3>3
    <2> QED BY <2>1, <2>2 DEF SplitsOnce
  <1> QED BY <1>1, ServiceInvariant, SplitsInvariant, PTL

-----------------------------------------------------------------------------
(* The tasks of the jobs.  U are the updates that a handler has still to   *)
(* apply: what counts is a job, a worker or a task that is there or that   *)
(* one of these will create.                                               *)

Unfinished(s) == {j \in DOMAIN s.jobs : ~s.jobs[j].finished}
JobsToBe(s, U) == Unfinished(s) \cup {u.job_id : u \in {v \in U : v.type = "create_job"}}
WorkersToBe(s, U) ==
    DOMAIN s.tasks_by_worker \cup {u.worker_address : u \in {v \in U : v.type = "register_worker"}}
TasksOn(s, j, w) == {t \in DOMAIN s.tasks : s.tasks[t].job_id = j /\ s.tasks[t].worker_address = w}
Created(U, j, w) ==
    {u.task_id : u \in {v \in U : v.type = "create_task" /\ v.job_id = j /\ v.worker_address = w}}
TasksToBe(s, U, j, w) == TasksOn(s, j, w) \cup Created(U, j, w)

IsOne(S) == \E x \in S : S = {x}

(* Every worker has one task of every job that is not finished, all tasks  *)
(* of a finished job are finished, and it gets no more of them.            *)
CoverOK(s, U) ==
    /\ \A j \in JobsToBe(s, U), w \in WorkersToBe(s, U) : IsOne(TasksToBe(s, U, j, w))
    /\ \A t \in DOMAIN s.tasks : s.jobs[s.tasks[t].job_id].finished => s.tasks[t].finished
    /\ \A u \in U : u.type = "create_task" => u.job_id \in JobsToBe(s, U)

(* Tasks are created by two handlers, for the job or for the worker that   *)
(* the first update of the handler creates.                                *)
CreatingInv(o) ==
    \A u \in Range(o.todo) : u.type = "create_task" =>
       /\ o.handler \in {"create_job", "worker_heartbeat"}
       /\ \A v \in Range(o.todo) :
             v.type \in {"create_job", "register_worker", "acquire_job_client", "create_task"}
       /\ Head(o.todo).type = "create_job" => u.job_id = Head(o.todo).job_id
       /\ Head(o.todo).type = "register_worker" => u.worker_address = Head(o.todo).worker_address

(* The index of the tasks by job is complete.                              *)
IndexInv(s) == \A j \in DOMAIN s.jobs : s.tasks_by_job[j] = {t \in DOMAIN s.tasks : s.tasks[t].job_id = j}

(* No fault has left a job or a worker without its tasks.                  *)
Whole == faults \cap {"partial", "gc"} = {} /\ ~({"kept", "crash"} \subseteq faults)

CoverInv ==
    /\ CreatingInv(op)
    /\ Whole => IndexInv(acked) /\ CoverOK(acked, Range(op.todo))

LEMMA WholeBefore == ASSUME faults \subseteq faults' PROVE Whole' => Whole
  BY DEF Whole

LEMMA TodoRange ==
    ASSUME NEW q \in Seq(Update)
    PROVE  /\ \A u \in Range(q) : \E i \in 1 .. Len(q) : u = q[i]
           /\ \A i \in 1 .. Len(q) : q[i] \in Range(q)
           /\ Range(q) \subseteq Update
  BY DEF Range

LEMMA TodoSplit ==
    ASSUME NEW q \in Seq(Update), q # <<>>
    PROVE  Range(q) = {Head(q)} \cup Range(Tail(q))
  <1>1. PICK n \in Nat : n = Len(q) /\ n > 0
    OBVIOUS
  <1>2. Tail(q) \in Seq(Update) /\ Len(Tail(q)) = n - 1 /\ Head(q) = q[1]
        /\ \A i \in 1 .. (n - 1) : Tail(q)[i] = q[i + 1]
    BY <1>1
  <1>3. ASSUME NEW u \in Range(q) PROVE u \in {Head(q)} \cup Range(Tail(q))
    <2>1. PICK i \in 1 .. n : u = q[i]
      BY <1>1, <1>3, TodoRange
    <2>2. CASE i = 1
      BY <1>2, <2>1, <2>2
    <2>3. CASE i # 1
      <3>1. i - 1 \in 1 .. (n - 1) /\ (i - 1) + 1 = i
        BY <2>3
      <3>2. Tail(q)[i - 1] = u /\ i - 1 \in 1 .. Len(Tail(q))
        BY <1>2, <2>1, <3>1
      <3> QED BY <1>2, <3>2, TodoRange
    <2> QED BY <2>2, <2>3
  <1>4. ASSUME NEW u \in Range(Tail(q)) PROVE u \in Range(q)
    <2>1. PICK i \in 1 .. (n - 1) : u = Tail(q)[i]
      BY <1>2, <1>4, TodoRange
    <2>2. i + 1 \in 1 .. n /\ q[i + 1] = u
      BY <1>2, <2>1
    <2> QED BY <1>1, <2>2, TodoRange
  <1>5. Head(q) \in Range(q)
    <2>1. 1 \in 1 .. n
      BY <1>1
    <2> QED BY <1>1, <1>2, <2>1, TodoRange
  <1> QED BY <1>3, <1>4, <1>5

LEMMA NothingToDo == Range(<<>>) = {}
  BY DEF Range

(* One update is applied, and V are left.                                  *)
LEMMA UpdateCover ==
    ASSUME NEW s, StateInv(s), IndexInv(s), NEW u \in Update, Applies(s, u),
           NEW r, Effect(r, s, u), Progress(r, s, u), Listed(r, s, u),
           NEW U, NEW V, U = {u} \cup V, CoverOK(s, U),
           \A v \in V : v.type \in {"acquire_job_client", "create_task", "finish_task"},
           u.type = "finish_task" => \A v \in V : v.type # "create_task"
    PROVE  CoverOK(r, V)
  <1>1. TasksInv(s) /\ TasksEffect(r, s, u) /\ JobsEffect(r, s, u)
    BY DEF StateInv, Effect
  <1>2. ASSUME NEW j, NEW w PROVE TasksToBe(r, V, j, w) = TasksToBe(s, U, j, w)
    <2>1. CASE u.type = "create_task"
      <3>1. u.task_id \notin DOMAIN s.tasks
        BY <2>1 DEF Applies, Checks
      <3> QED BY <1>1, <2>1, <3>1 DEF TasksToBe, TasksOn, Created, TasksEffect
    <2>2. CASE u.type # "create_task"
      BY <1>1, <2>2 DEF TasksToBe, TasksOn, Created, TasksEffect
    <2> QED BY <2>1, <2>2
  <1>3. WorkersToBe(r, V) = WorkersToBe(s, U)
    <2>1. CASE u.type = "register_worker"
      BY <1>1, <2>1 DEF WorkersToBe, TasksEffect
    <2>2. CASE u.type # "register_worker"
      BY <1>1, <2>2 DEF WorkersToBe, TasksEffect
    <2> QED BY <2>1, <2>2
  <1>4. ASSUME NEW j \in DOMAIN s.jobs, s.jobs[j].finished PROVE r.jobs[j].finished
    <2>1. CASE Ends(s, u, j)
      <3>1. ASSUME NEW t \in s.tasks_by_job[j] PROVE s.tasks[t].finished
        BY <1>4, <3>1 DEF IndexInv, CoverOK
      <3> QED BY <2>1, <3>1 DEF Progress
    <2>2. CASE ~Ends(s, u, j)
      BY <1>4, <2>2 DEF Progress
    <2> QED BY <2>1, <2>2
  <1>5. JobsToBe(r, V) \subseteq JobsToBe(s, U)
    <2>1. CASE u.type = "create_job"
      BY <1>1, <1>4, <2>1 DEF JobsToBe, Unfinished, JobsEffect
    <2>2. CASE u.type # "create_job"
      BY <1>1, <1>4, <2>2 DEF JobsToBe, Unfinished, JobsEffect
    <2> QED BY <2>1, <2>2
  <1>6. ASSUME u.type # "finish_task" PROVE JobsToBe(r, V) = JobsToBe(s, U)
    <2>1. \A j \in DOMAIN s.jobs : r.jobs[j].finished = s.jobs[j].finished
      BY <1>6 DEF Progress, Ends
    <2>2. CASE u.type = "create_job"
      <3>1. ~r.jobs[u.job_id].finished /\ u.job_id \in DOMAIN r.jobs
        BY <1>1, <2>2 DEF Progress, JobsEffect
      <3> QED BY <1>1, <2>1, <2>2, <3>1 DEF JobsToBe, Unfinished, JobsEffect
    <2>3. CASE u.type # "create_job"
      BY <1>1, <2>1, <2>3 DEF JobsToBe, Unfinished, JobsEffect
    <2> QED BY <2>2, <2>3
  <1>7. ASSUME NEW t \in DOMAIN r.tasks, r.jobs[r.tasks[t].job_id].finished PROVE r.tasks[t].finished
    <2>1. CASE t \in DOMAIN s.tasks
      <3>1. PICK j \in DOMAIN s.jobs : j = s.tasks[t].job_id /\ j = r.tasks[t].job_id
        BY <1>1, <2>1 DEF TasksInv, TasksEffect
      <3>2. CASE Ends(s, u, j)
        <4>1. t \in s.tasks_by_job[j] /\ u.type = "finish_task"
          BY <2>1, <3>1, <3>2 DEF IndexInv, Ends
        <4>2. \A k \in s.tasks_by_job[j] \ {u.task_id} : s.tasks[k].finished
          BY <1>7, <3>1, <3>2 DEF Progress
        <4>3. t = u.task_id \/ s.tasks[t].finished
          BY <4>1, <4>2
        <4> QED BY <1>1, <2>1, <4>1, <4>3 DEF Listed, TasksEffect
      <3>3. CASE ~Ends(s, u, j)
        <4>1. r.jobs[j].finished = s.jobs[j].finished /\ r.jobs[j].finished
          <5>1. r.jobs[j].finished = s.jobs[j].finished
            BY <3>3 DEF Progress
          <5> QED BY <1>7, <3>1, <5>1
        <4> QED BY <1>1, <2>1, <3>1, <4>1 DEF CoverOK, TasksEffect
      <3> QED BY <3>2, <3>3
    <2>2. CASE t \notin DOMAIN s.tasks
      <3>1. u.type = "create_task" /\ t = u.task_id /\ r.tasks[t].job_id = u.job_id
        BY <1>1, <1>7, <2>2 DEF TasksEffect
      <3>2. u.job_id \in Unfinished(s)
        BY <3>1 DEF CoverOK, JobsToBe
      <3>3. ~r.jobs[u.job_id].finished
        BY <3>1, <3>2 DEF Unfinished, Progress, Ends
      <3> QED BY <1>7, <3>1, <3>3
    <2> QED BY <2>1, <2>2
  <1>8. ASSUME NEW j \in JobsToBe(r, V), NEW w \in WorkersToBe(r, V) PROVE IsOne(TasksToBe(r, V, j, w))
    BY <1>2, <1>3, <1>5, <1>8 DEF CoverOK
  <1>9. ASSUME NEW v \in V, v.type = "create_task" PROVE v.job_id \in JobsToBe(r, V)
    BY <1>6, <1>9 DEF CoverOK
  <1> QED BY <1>7, <1>8, <1>9 DEF CoverOK

LEMMA UpdateIndex ==
    ASSUME NEW s, StateInv(s), IndexInv(s), NEW u \in Update, Applies(s, u),
           NEW r, Effect(r, s, u), Listed(r, s, u)
    PROVE  IndexInv(r)
  <1>1. TasksInv(s) /\ TasksEffect(r, s, u) /\ JobsEffect(r, s, u)
    BY DEF StateInv, Effect
  <1>2. ASSUME NEW j \in DOMAIN s.jobs
        PROVE  r.tasks_by_job[j] = {t \in DOMAIN r.tasks : r.tasks[t].job_id = j}
    <2>1. CASE u.type = "create_task"
      <3>1. u.task_id \notin DOMAIN s.tasks
        BY <2>1 DEF Applies, Checks
      <3>2. s.tasks_by_job[j] = {t \in DOMAIN s.tasks : s.tasks[t].job_id = j}
        BY DEF IndexInv
      <3> QED BY <1>1, <2>1, <3>1, <3>2 DEF Listed, TasksEffect
    <2>2. CASE u.type # "create_task"
      BY <1>1, <2>2 DEF IndexInv, Listed, TasksEffect
    <2> QED BY <2>1, <2>2
  <1>3. ASSUME u.type = "create_job"
        PROVE  r.tasks_by_job[u.job_id] = {t \in DOMAIN r.tasks : r.tasks[t].job_id = u.job_id}
    <2>1. u.job_id \notin DOMAIN s.jobs
      BY <1>3 DEF Applies, Checks
    <2> QED BY <1>1, <1>3, <2>1 DEF Listed, TasksEffect, TasksInv
  <1> QED BY <1>1, <1>2, <1>3 DEF IndexInv, JobsEffect

LEMMA RestTypes ==
    ASSUME NEW s, NEW q, TodoInv(s, q), q # <<>>
    PROVE  \A v \in Range(Tail(q)) : v.type \in {"acquire_job_client", "create_task", "finish_task"}
  <1>1. q \in Seq(Update) /\ \A i \in 1 .. Len(q) : UpdateOK(s, q, i)
    BY DEF TodoInv
  <1>2. PICK n \in Nat : n = Len(q) /\ n > 0
    BY <1>1
  <1>3. /\ Tail(q) \in Seq(Update) /\ Len(Tail(q)) = n - 1
        /\ \A i \in 1 .. (n - 1) : Tail(q)[i] = q[i + 1]
    BY <1>1, <1>2
  <1>4. ASSUME NEW v \in Range(Tail(q))
        PROVE  v.type \in {"acquire_job_client", "create_task", "finish_task"}
    <2>1. PICK i \in 1 .. (n - 1) : v = q[i + 1]
      <3>1. PICK k \in 1 .. Len(Tail(q)) : v = Tail(q)[k]
        BY <1>3, <1>4, TodoRange
      <3> QED BY <1>3, <3>1
    <2>2. i + 1 \in 1 .. n /\ i + 1 # 1
      BY <2>1
    <2>3. UpdateOK(s, q, i + 1)
      BY <1>1, <1>2, <2>2
    <2> QED BY <2>1, <2>2, <2>3 DEF UpdateOK
  <1> QED BY <1>4

Creators == {"create_job", "register_worker", "create_task"}

LEMMA CoverSame ==
    ASSUME CoverInv, acked' = acked, op' = op, faults \subseteq faults'
    PROVE  CoverInv'
  BY WholeBefore DEF CoverInv

(* A handler starts that creates neither jobs, workers nor tasks, or ends. *)
LEMMA CoverPlain ==
    ASSUME CoverInv, acked' = acked, faults \subseteq faults', op.todo = <<>>,
           \A u \in Range(op'.todo) : u.type \notin Creators
    PROVE  CoverInv'
  <1>1. PICK s, U : s = acked /\ U = Range(op'.todo)
    OBVIOUS
  <1>2. CreatingInv(op')
    BY DEF CreatingInv, Creators
  <1>3. ASSUME Whole' PROVE IndexInv(s) /\ CoverOK(s, U)
    <2>1. IndexInv(s) /\ CoverOK(s, {})
      BY <1>1, <1>3, NothingToDo, WholeBefore DEF CoverInv
    <2>2. JobsToBe(s, U) = JobsToBe(s, {}) /\ WorkersToBe(s, U) = WorkersToBe(s, {})
      BY <1>1 DEF JobsToBe, WorkersToBe, Creators
    <2>3. ASSUME NEW j, NEW w PROVE TasksToBe(s, U, j, w) = TasksToBe(s, {}, j, w)
      BY <1>1 DEF TasksToBe, Created, Creators
    <2> QED BY <1>1, <2>1, <2>2, <2>3 DEF CoverOK, Creators
  <1> QED BY <1>1, <1>2, <1>3 DEF CoverInv

LEMMA RangeOfOne == ASSUME NEW u PROVE Range(<<u>>) = {u}
  BY DEF Range

LEMMA GetSplitTodo ==
    ASSUME NEW w, NEW t, GetSplit(w, t)
    PROVE  /\ op = Idle /\ UNCHANGED <<acked, faults>>
           /\ \E u : u.type = "produce_split" /\ (op'.todo = <<>> \/ op'.todo = <<u>>)
  <1>1. PICK j, requested : j = state_.tasks[t].job_id /\ requested = worker[w].repetition[t]
    OBVIOUS
  <1>2. PICK stale, end : /\ stale = (requested < state_.jobs[j].repetition)
                          /\ end = (split_providers_[j] = NumSplits)
    OBVIOUS
  <1>. stale \in BOOLEAN /\ end \in BOOLEAN
    BY <1>2
  <1>3. PICK e \in BOOLEAN : e = (stale \/ end)
    OBVIOUS
  <1>4. PICK u : u = [type |-> "produce_split", job_id |-> j, finished |-> end, repetition |-> requested]
    OBVIOUS
  <1>5. PICK q : q = IF stale THEN <<>> ELSE <<u>>
    BY Zenon
  <1>6. op' = [handler |-> "get_split", worker |-> w, task |-> t, job |-> j,
               repetition |-> requested, split |-> split_providers_[j],
               end |-> e, stale |-> stale, todo |-> q]
    BY ONLY GetSplit(w, t), <1>1, <1>2, <1>3, <1>4, <1>5, Zenon DEF GetSplit, Handle, StaleRepetition
  <1>7. op'.todo = q /\ u.type = "produce_split"
    BY <1>4, <1>6
  <1>8. op = Idle /\ UNCHANGED <<acked, faults>>
    BY DEF GetSplit, CanHandle, faultVars, journalVars
  <1> QED BY <1>5, <1>7, <1>8

LEMMA CoverQuiet ==
    ASSUME ServiceInv, CoverInv,
           \/ \E fp \in Fingerprints : GetOrRegisterDataset(fp)
           \/ \E r \in JobRequests : GetJob(r)
           \/ \E c \in Clients : ReleaseJobClientRpc(c)
           \/ \E w \in Workers : \/ SendHeartbeat(w) \/ WorkerUpdate(w)
                                 \/ WorkerHeartbeat(w) /\ w \in DOMAIN state_.tasks_by_worker
                                 \/ \E t \in Tasks : GetSplit(w, t) \/ ReachEnd(w, t)
           \/ RespondCreateJob \/ RespondHeartbeat \/ RespondUpdate \/ RespondSplit \/ RespondEndOfSplits
           \/ AssignTask \/ AssignFails \/ Start
           \/ \E j \in Jobs : GcOldJobs(j)
    PROVE  CoverInv'
  <1>1. ASSUME NEW fp \in Fingerprints, GetOrRegisterDataset(fp) PROVE CoverInv'
    <2>1. PICK u : /\ u = [type |-> "register_dataset", fingerprint |-> fp,
                           dataset_id |-> state_.next_available_dataset_id]
                   /\ op' = [handler |-> "register_dataset", todo |-> <<u>>]
      BY <1>1 DEF GetOrRegisterDataset, RegisterDatasetRpc, Handle
    <2>2. op'.todo = <<u>> /\ u.type \notin Creators
      BY <2>1 DEF Creators
    <2>3. op.todo = <<>> /\ UNCHANGED <<acked, faults>>
      BY <1>1, IdleNow DEF GetOrRegisterDataset, CanHandle, faultVars, journalVars
    <2> QED BY <2>2, <2>3, RangeOfOne, CoverPlain
  <1>2. ASSUME NEW r, GetJob(r) PROVE CoverInv'
    <2>1. PICK j : op' = [handler |-> "get_job", todo |-> <<AcquireUpdate(j)>>]
      BY <1>2 DEF GetJob, Handle
    <2>2. op'.todo = <<AcquireUpdate(j)>> /\ AcquireUpdate(j).type \notin Creators
      <3>1. AcquireUpdate(j).type = "acquire_job_client"
        BY DEF AcquireUpdate
      <3> QED BY <2>1, <3>1 DEF Creators
    <2>3. op.todo = <<>> /\ UNCHANGED <<acked, faults>>
      BY <1>2, IdleNow DEF GetJob, CanHandle, faultVars, journalVars
    <2> QED BY <2>2, <2>3, RangeOfOne, CoverPlain
  <1>3. ASSUME NEW c, ReleaseJobClientRpc(c) PROVE CoverInv'
    <2>1. PICK u : /\ u = [type |-> "release_job_client", job_client_id |-> c]
                   /\ op' = [handler |-> "release_job_client", todo |-> <<u>>]
      BY <1>3 DEF ReleaseJobClientRpc, Handle
    <2>2. op'.todo = <<u>> /\ u.type \notin Creators
      BY <2>1 DEF Creators
    <2>3. op.todo = <<>> /\ UNCHANGED <<acked, faults>>
      BY <1>3, IdleNow DEF ReleaseJobClientRpc, CanHandle, faultVars, journalVars
    <2> QED BY <2>2, <2>3, RangeOfOne, CoverPlain
  <1>4. ASSUME NEW w \in Workers, WorkerUpdate(w) PROVE CoverInv'
    <2>1. op.todo = <<>> /\ UNCHANGED <<acked, faults>>
      BY <1>4, IdleNow DEF WorkerUpdate, CanHandle, faultVars, journalVars
    <2>2. op'.todo \in Seq(Update) /\ \A i \in 1 .. Len(op'.todo) : op'.todo[i].type = "finish_task"
      BY <1>4, FinishTodo, WorkerUpdateKeeps DEF ServiceInv, DispatcherInv, TodoInv
    <2>3. \A u \in Range(op'.todo) : u.type \notin Creators
      BY <2>2, TodoRange DEF Creators
    <2> QED BY <2>1, <2>3, CoverPlain
  <1>5. ASSUME NEW w, WorkerHeartbeat(w), w \in DOMAIN state_.tasks_by_worker PROVE CoverInv'
    <2>1. op' = [handler |-> "worker_heartbeat", worker |-> w, todo |-> <<>>]
      BY <1>5 DEF WorkerHeartbeat, Handle
    <2>2. op.todo = <<>> /\ op'.todo = <<>> /\ UNCHANGED <<acked, faults>>
      BY <1>5, <2>1, IdleNow DEF WorkerHeartbeat, CanHandle, faultVars, journalVars
    <2> QED BY <2>2, NothingToDo, CoverPlain
  <1>6. ASSUME NEW w \in Workers, NEW t, GetSplit(w, t) PROVE CoverInv'
    <2>1. op = Idle /\ UNCHANGED <<acked, faults>>
      BY <1>6, GetSplitTodo
    <2>2. PICK u : u.type = "produce_split" /\ (op'.todo = <<>> \/ op'.todo = <<u>>)
      BY <1>6, GetSplitTodo
    <2> QED BY <2>1, <2>2, IdleNow, NothingToDo, RangeOfOne, CoverPlain DEF Creators
  <1>7. ASSUME RespondCreateJob \/ RespondHeartbeat \/ RespondUpdate \/ RespondSplit \/ RespondEndOfSplits
        PROVE  CoverInv'
    <2>1. op.todo = <<>> /\ op' = Idle /\ UNCHANGED <<acked, faults>>
      BY <1>7 DEF RespondCreateJob, RespondHeartbeat, RespondUpdate, RespondSplit, RespondEndOfSplits,
                  Respond, faultVars, journalVars
    <2> QED BY <2>1, IdleNow, NothingToDo, CoverPlain
  <1>8. ASSUME NEW w, NEW t, SendHeartbeat(w) \/ ReachEnd(w, t) \/ AssignTask \/ AssignFails \/ Start
        PROVE  CoverInv'
    <2>1. UNCHANGED <<acked, op, faults>>
      BY <1>8 DEF SendHeartbeat, ReachEnd, AssignTask, AssignFails, Start, dispatcherVars, journalVars, faultVars
    <2> QED BY <2>1, CoverSame
  <1>9. ASSUME NEW j, GcOldJobs(j) PROVE CoverInv'
    <2>1. UNCHANGED <<acked, op>> /\ faults \subseteq faults'
      BY <1>9 DEF GcOldJobs, journalVars
    <2> QED BY <2>1, CoverSame
  <1> QED BY <1>1, <1>2, <1>3, <1>4, <1>5, <1>6, <1>7, <1>8, <1>9

(* A fault before the first update of a handler loses no task: those that  *)
(* it would have created are of the job, or of the worker, that is not     *)
(* there.  After the first update the fault is "partial".                  *)
LEMMA CoverDrop ==
    ASSUME ServiceInv, CoverInv, started_, op' = Idle, acked' = acked,
           faults \cup Cut \subseteq faults'
    PROVE  CoverInv'
  <1>1. CASE op.todo = <<>>
    BY <1>1, IdleNow, NothingToDo, CoverPlain
  <1>2. CASE op.todo # <<>>
    <2>1. PICK s, U, h : s = acked /\ U = Range(op.todo) /\ h = Head(op.todo)
      OBVIOUS
    <2>2. op'.todo = <<>> /\ Range(op'.todo) = {}
      BY IdleNow, NothingToDo
    <2>3. ASSUME Whole' PROVE IndexInv(s) /\ CoverOK(s, {})
      <3>1. IndexInv(s) /\ CoverOK(s, U) /\ "partial" \notin Cut
        <4>1. Whole /\ "partial" \notin Cut
          BY <2>3 DEF Whole
        <4> QED BY <2>1, <4>1 DEF CoverInv
      <3>2. op.todo \in Seq(Update) /\ Checks(state_, h) /\ Agree(state_, s)
        BY <1>2, <2>1 DEF ServiceInv, DispatcherInv, TodoInv
      <3>3. h \in U
        BY <1>2, <2>1, <3>2, TodoSplit
      <3>4. ASSUME NEW u \in U, u.type = "create_task"
            PROVE  u.job_id \notin DOMAIN s.jobs \/ u.worker_address \notin DOMAIN s.tasks_by_worker
        <4>1. /\ op.handler \in {"create_job", "worker_heartbeat"}
              /\ h.type \in {"create_job", "register_worker", "acquire_job_client", "create_task"}
              /\ h.type = "create_job" => u.job_id = h.job_id
              /\ h.type = "register_worker" => u.worker_address = h.worker_address
          BY <2>1, <3>3, <3>4 DEF CoverInv, CreatingInv
        <4>2. h.type \in {"create_job", "register_worker"}
          BY <1>2, <2>1, <3>1, <4>1 DEF Cut
        <4>3. /\ h.type = "create_job" => h.job_id \notin DOMAIN s.jobs
              /\ h.type = "register_worker" => h.worker_address \notin DOMAIN s.tasks_by_worker
          BY <3>2 DEF Checks, Agree
        <4> QED BY <4>1, <4>2, <4>3
      <3>5. /\ JobsToBe(s, {}) = Unfinished(s) /\ JobsToBe(s, {}) \subseteq JobsToBe(s, U)
            /\ WorkersToBe(s, {}) = DOMAIN s.tasks_by_worker /\ WorkersToBe(s, {}) \subseteq WorkersToBe(s, U)
            /\ Unfinished(s) \subseteq DOMAIN s.jobs
        BY DEF JobsToBe, WorkersToBe, Unfinished
      <3>6. ASSUME NEW j \in JobsToBe(s, {}), NEW w \in WorkersToBe(s, {})
            PROVE  IsOne(TasksToBe(s, {}, j, w))
        <4>1. Created(U, j, w) = {} /\ Created({}, j, w) = {}
          BY <3>4, <3>5, <3>6 DEF Created
        <4>2. TasksToBe(s, {}, j, w) = TasksToBe(s, U, j, w)
          BY <4>1 DEF TasksToBe
        <4> QED BY <3>1, <3>5, <3>6, <4>2 DEF CoverOK
      <3> QED BY <3>1, <3>6 DEF CoverOK
    <2> QED BY <2>1, <2>2, <2>3 DEF CoverInv, CreatingInv
  <1> QED BY <1>1, <1>2

(* CreateJob: a task of the new job on every worker.                       *)
LEMMA CreateJobCover == ASSUME ServiceInv, CoverInv, NEW r \in JobRequests, CreateJobRpc(r) PROVE CoverInv'
  <1>1. started_ /\ op = Idle /\ UNCHANGED <<acked, faults>>
    BY DEF CreateJobRpc, CanHandle, faultVars, journalVars
  <1>2. PICK s, id, q : s = state_ /\ id = state_.next_available_job_id /\ q = op'.todo
    OBVIOUS
  <1>3. PICK order \in SetToSeqs(DOMAIN s.tasks_by_worker), n \in Nat :
           /\ n = Len(order) /\ op'.handler = "create_job" /\ Len(q) = n + 2
           /\ q[1].type = "create_job" /\ q[1].job_id = id /\ q[2].type = "acquire_job_client"
           /\ \A i \in 1 .. n : /\ q[i + 2].type = "create_task" /\ q[i + 2].job_id = id
                                /\ q[i + 2].worker_address = order[i]
    BY <1>2, CreateJobTodo
  <1>4. q \in Seq(Update)
    BY <1>2, CreateJobKeeps DEF ServiceInv, DispatcherInv, TodoInv
  <1>5. PICK U : U = Range(q)
    OBVIOUS
  <1>6. \A u \in U : u = q[1] \/ u = q[2] \/ \E i \in 1 .. n : u = q[i + 2]
    <2>1. SUFFICES ASSUME NEW u \in U PROVE u = q[1] \/ u = q[2] \/ \E i \in 1 .. n : u = q[i + 2]
      OBVIOUS
    <2>2. PICK i \in 1 .. (n + 2) : u = q[i]
      BY <1>3, <1>4, <1>5, TodoRange
    <2>3. i = 1 \/ i = 2 \/ (i - 2 \in 1 .. n /\ (i - 2) + 2 = i)
      OBVIOUS
    <2> QED BY <2>2, <2>3
  <1>7. q[1] \in U /\ \A i \in 1 .. n : q[i + 2] \in U
    <2>1. 1 \in 1 .. (n + 2) /\ \A i \in 1 .. n : i + 2 \in 1 .. (n + 2)
      OBVIOUS
    <2> QED BY <1>3, <1>4, <1>5, <2>1, TodoRange
  <1>8. \A u \in U : /\ u.type \in {"create_job", "acquire_job_client", "create_task"}
                     /\ u.type \in {"create_job", "create_task"} => u.job_id = id
    BY <1>3, <1>6
  <1>9. q # <<>> /\ Head(q) = q[1]
    BY <1>3, <1>4
  <1>10. CreatingInv(op)'
    BY <1>2, <1>3, <1>5, <1>8, <1>9 DEF CreatingInv
  <1>11. ASSUME Whole PROVE s = acked /\ IndexInv(s) /\ CoverOK(s, U)
    <2>1. s = acked /\ StateInv(s)
      BY <1>1, <1>2, <1>11 DEF ServiceInv, DispatcherInv, Whole
    <2>2. IndexInv(s) /\ CoverOK(s, {})
      BY <1>1, <1>11, <2>1, IdleNow, NothingToDo DEF CoverInv
    <2>3. id \notin DOMAIN s.jobs
      <3>1. id \in Nat /\ DOMAIN s.jobs \subseteq Nat /\ \A j \in DOMAIN s.jobs : j < id
        BY <1>2, <2>1, Fields, MapIs DEF StateInv, IdsInv
      <3> QED BY <3>1
    <2>4. JobsToBe(s, U) = Unfinished(s) \cup {id} /\ WorkersToBe(s, U) = DOMAIN s.tasks_by_worker
      BY <1>3, <1>7, <1>8 DEF JobsToBe, WorkersToBe
    <2>5. JobsToBe(s, {}) = Unfinished(s) /\ WorkersToBe(s, {}) = DOMAIN s.tasks_by_worker
      BY DEF JobsToBe, WorkersToBe
    <2>6. ASSUME NEW w \in DOMAIN s.tasks_by_worker PROVE IsOne(TasksToBe(s, U, id, w))
      <3>1. TasksOn(s, id, w) = {}
        BY <2>1, <2>3 DEF TasksOn, StateInv, TasksInv
      <3>2. IsFiniteSet(DOMAIN s.tasks_by_worker)
        BY <2>1, FiniteIds
      <3>3. PICK k \in 1 .. n : order[k] = w /\ \A i \in 1 .. n : order[i] = w => i = k
        BY <1>3, <2>6, <3>2, OrderIsOnto
      <3>4. /\ q[k + 2] \in U /\ q[k + 2].type = "create_task" /\ q[k + 2].job_id = id
            /\ q[k + 2].worker_address = w
        BY <1>3, <1>7, <3>3
      <3>5. ASSUME NEW u \in U, u.type = "create_task", u.worker_address = w PROVE u = q[k + 2]
        <4>1. PICK i \in 1 .. n : u = q[i + 2]
          BY <1>3, <1>6, <3>5
        <4>2. i = k
          BY <1>3, <3>3, <3>5, <4>1
        <4> QED BY <4>1, <4>2
      <3>6. Created(U, id, w) = {q[k + 2].task_id}
        BY <3>4, <3>5 DEF Created
      <3> QED BY <3>1, <3>6 DEF TasksToBe, IsOne
    <2>7. ASSUME NEW j \in Unfinished(s), NEW w \in DOMAIN s.tasks_by_worker
          PROVE  IsOne(TasksToBe(s, U, j, w))
      <3>1. j # id
        BY <2>3, <2>7 DEF Unfinished
      <3>2. Created(U, j, w) = {} /\ Created({}, j, w) = {}
        BY <1>8, <3>1 DEF Created
      <3>3. TasksToBe(s, U, j, w) = TasksToBe(s, {}, j, w)
        BY <3>2 DEF TasksToBe
      <3> QED BY <2>2, <2>5, <2>7, <3>3 DEF CoverOK
    <2>8. \A j \in JobsToBe(s, U), w \in WorkersToBe(s, U) : IsOne(TasksToBe(s, U, j, w))
      BY <2>4, <2>6, <2>7
    <2>9. \A u \in U : u.type = "create_task" => u.job_id \in JobsToBe(s, U)
      BY <1>8, <2>4
    <2> QED BY <2>1, <2>2, <2>8, <2>9 DEF CoverOK
  <1>12. Whole' => IndexInv(acked') /\ CoverOK(acked', Range(op'.todo))
    BY <1>1, <1>2, <1>5, <1>11, WholeBefore
  <1> QED BY <1>10, <1>12 DEF CoverInv

(* WorkerHeartbeat: a task on the new worker of every unfinished job.      *)
LEMMA HeartbeatCover ==
    ASSUME ServiceInv, CoverInv, NEW w \in Workers, WorkerHeartbeat(w), w \notin DOMAIN state_.tasks_by_worker
    PROVE  CoverInv'
  <1>1. started_ /\ op = Idle /\ UNCHANGED <<acked, faults>>
    BY DEF WorkerHeartbeat, CanHandle, faultVars, journalVars
  <1>2. PICK s, q : s = state_ /\ q = op'.todo
    OBVIOUS
  <1>3. PICK order \in SetToSeqs(Unfinished(s)), n \in Nat :
           /\ n = Len(order) /\ op'.handler = "worker_heartbeat" /\ Len(q) = n + 1
           /\ q[1].type = "register_worker" /\ q[1].worker_address = w
           /\ \A i \in 1 .. n : /\ q[i + 1].type = "create_task" /\ q[i + 1].job_id = order[i]
                                /\ q[i + 1].worker_address = w
    <2>1. Unfinished(s) = {j \in DOMAIN state_.jobs : ~state_.jobs[j].finished}
      BY <1>2 DEF Unfinished
    <2>2. PICK order \in SetToSeqs({j \in DOMAIN state_.jobs : ~state_.jobs[j].finished}) :
             /\ op'.handler = "worker_heartbeat" /\ Len(op'.todo) = Len(order) + 1 /\ Len(order) \in Nat
             /\ op'.todo[1].type = "register_worker" /\ op'.todo[1].worker_address = w
             /\ \A i \in 1 .. Len(order) : /\ op'.todo[i + 1].type = "create_task"
                                           /\ op'.todo[i + 1].job_id = order[i]
                                           /\ op'.todo[i + 1].worker_address = w
      BY HeartbeatTodo
    <2>3. order \in SetToSeqs(Unfinished(s))
      BY <2>1, <2>2
    <2> QED BY <1>2, <2>2, <2>3
  <1>4. q \in Seq(Update)
    BY <1>2, HeartbeatKeeps DEF ServiceInv, DispatcherInv, TodoInv
  <1>5. PICK U : U = Range(q)
    OBVIOUS
  <1>6. \A u \in U : u = q[1] \/ \E i \in 1 .. n : u = q[i + 1]
    <2>1. SUFFICES ASSUME NEW u \in U PROVE u = q[1] \/ \E i \in 1 .. n : u = q[i + 1]
      OBVIOUS
    <2>2. PICK i \in 1 .. (n + 1) : u = q[i]
      BY <1>3, <1>4, <1>5, TodoRange
    <2>3. i = 1 \/ (i - 1 \in 1 .. n /\ (i - 1) + 1 = i)
      OBVIOUS
    <2> QED BY <2>2, <2>3
  <1>7. q[1] \in U /\ \A i \in 1 .. n : q[i + 1] \in U
    <2>1. 1 \in 1 .. (n + 1) /\ \A i \in 1 .. n : i + 1 \in 1 .. (n + 1)
      OBVIOUS
    <2> QED BY <1>3, <1>4, <1>5, <2>1, TodoRange
  <1>8. \A u \in U : u.type \in {"register_worker", "create_task"} /\ u.worker_address = w
    BY <1>3, <1>6
  <1>9. q # <<>> /\ Head(q) = q[1]
    BY <1>3, <1>4
  <1>10. CreatingInv(op)'
    BY <1>2, <1>3, <1>5, <1>8, <1>9 DEF CreatingInv
  <1>11. ASSUME Whole PROVE s = acked /\ IndexInv(s) /\ CoverOK(s, U)
    <2>1. s = acked /\ StateInv(s)
      BY <1>1, <1>2, <1>11 DEF ServiceInv, DispatcherInv, Whole
    <2>2. IndexInv(s) /\ CoverOK(s, {})
      BY <1>1, <1>11, <2>1, IdleNow, NothingToDo DEF CoverInv
    <2>3. JobsToBe(s, U) = Unfinished(s) /\ WorkersToBe(s, U) = DOMAIN s.tasks_by_worker \cup {w}
      BY <1>3, <1>7, <1>8 DEF JobsToBe, WorkersToBe
    <2>4. JobsToBe(s, {}) = Unfinished(s) /\ WorkersToBe(s, {}) = DOMAIN s.tasks_by_worker
      BY DEF JobsToBe, WorkersToBe
    <2>5. IsFiniteSet(Unfinished(s))
      BY <2>1, FiniteIds, FS_Subset DEF Unfinished
    <2>6. ASSUME NEW j \in Unfinished(s) PROVE IsOne(TasksToBe(s, U, j, w))
      <3>1. TasksOn(s, j, w) = {}
        BY <1>2, <2>1 DEF TasksOn, StateInv, TasksInv
      <3>2. PICK k \in 1 .. n : order[k] = j /\ \A i \in 1 .. n : order[i] = j => i = k
        BY <1>3, <2>5, <2>6, OrderIsOnto
      <3>3. /\ q[k + 1] \in U /\ q[k + 1].type = "create_task" /\ q[k + 1].job_id = j
            /\ q[k + 1].worker_address = w
        BY <1>3, <1>7, <3>2
      <3>4. ASSUME NEW u \in U, u.type = "create_task", u.job_id = j PROVE u = q[k + 1]
        <4>1. PICK i \in 1 .. n : u = q[i + 1]
          BY <1>3, <1>6, <3>4
        <4>2. i = k
          BY <1>3, <3>2, <3>4, <4>1
        <4> QED BY <4>1, <4>2
      <3>5. Created(U, j, w) = {q[k + 1].task_id}
        BY <3>3, <3>4 DEF Created
      <3> QED BY <3>1, <3>5 DEF TasksToBe, IsOne
    <2>7. ASSUME NEW j \in Unfinished(s), NEW v \in DOMAIN s.tasks_by_worker
          PROVE  IsOne(TasksToBe(s, U, j, v))
      <3>1. v # w
        BY <1>2, <2>7
      <3>2. Created(U, j, v) = {} /\ Created({}, j, v) = {}
        BY <1>8, <3>1 DEF Created
      <3>3. TasksToBe(s, U, j, v) = TasksToBe(s, {}, j, v)
        BY <3>2 DEF TasksToBe
      <3> QED BY <2>2, <2>4, <2>7, <3>3 DEF CoverOK
    <2>8. \A j \in JobsToBe(s, U), v \in WorkersToBe(s, U) : IsOne(TasksToBe(s, U, j, v))
      BY <2>3, <2>6, <2>7
    <2>9. \A u \in U : u.type = "create_task" => u.job_id \in JobsToBe(s, U)
      <3>1. \A i \in 1 .. n : order[i] \in Unfinished(s)
        BY <1>3, <2>5, Orders
      <3> QED BY <1>3, <1>6, <2>3, <3>1
    <2> QED BY <2>1, <2>2, <2>8, <2>9 DEF CoverOK
  <1>12. Whole' => IndexInv(acked') /\ CoverOK(acked', Range(op'.todo))
    BY <1>1, <1>2, <1>5, <1>11, WholeBefore
  <1> QED BY <1>10, <1>12 DEF CoverInv

LEMMA ApplyCover == ASSUME ServiceInv, CoverInv, Apply PROVE CoverInv'
  <1>1. PICK u \in Update :
           /\ u = Head(op.todo) /\ started_ /\ op.todo # <<>> /\ Applies(acked, u)
           /\ StateInv(acked) /\ Effect(acked', acked, u)
           /\ Progress(acked', acked, u) /\ Listed(acked', acked, u)
           /\ op'.handler = IF op.handler \in Plain THEN "none" ELSE op.handler
           /\ op'.todo = IF op.handler \in Plain THEN <<>> ELSE Tail(op.todo)
           /\ op'.todo # <<>> => Head(op'.todo).type \in {"acquire_job_client", "create_task", "finish_task"}
           /\ UNCHANGED <<started_, split_providers_, given, faults>>
    BY ApplyIs
  <1>2. PICK q, U, V, W : q = op.todo /\ U = Range(q) /\ V = Range(Tail(q)) /\ W = Range(op'.todo)
    OBVIOUS
  <1>3. TodoInv(state_, q) /\ q \in Seq(Update) /\ q # <<>>
    BY <1>1, <1>2 DEF ServiceInv, DispatcherInv, TodoInv
  <1>4. U = {u} \cup V
    BY <1>1, <1>2, <1>3, TodoSplit
  <1>5. \A v \in V : v.type \in {"acquire_job_client", "create_task", "finish_task"}
    BY <1>2, <1>3, RestTypes
  <1>6. CASE op.handler \in Plain
    <2>1. W = {}
      BY <1>1, <1>2, <1>6, NothingToDo
    <2>2. \A v \in U : v.type # "create_task"
      BY <1>2, <1>6 DEF CoverInv, CreatingInv, Plain
    <2>3. CreatingInv(op)'
      BY <1>2, <2>1 DEF CreatingInv
    <2>4. ASSUME Whole PROVE CoverOK(acked', {})
      <3>1. CoverOK(acked, U) /\ IndexInv(acked)
        BY <1>2, <2>4 DEF CoverInv
      <3>2. CoverOK(acked', V)
        BY <1>1, <1>4, <1>5, <2>2, <3>1, UpdateCover
      <3>3. PICK s : s = acked'
        OBVIOUS
      <3>4. JobsToBe(s, V) = JobsToBe(s, {}) /\ WorkersToBe(s, V) = WorkersToBe(s, {})
        BY <1>5 DEF JobsToBe, WorkersToBe
      <3>5. ASSUME NEW j, NEW w PROVE TasksToBe(s, V, j, w) = TasksToBe(s, {}, j, w)
        BY <1>4, <2>2 DEF TasksToBe, Created
      <3> QED BY <3>2, <3>3, <3>4, <3>5 DEF CoverOK
    <2>5. Whole => IndexInv(acked')
      BY <1>1, UpdateIndex DEF CoverInv
    <2> QED BY <1>1, <1>2, <2>1, <2>3, <2>4, <2>5, WholeBefore DEF CoverInv
  <1>7. CASE op.handler \notin Plain
    <2>1. W = V /\ op'.handler = op.handler
      BY <1>1, <1>2, <1>7
    <2>2. \A v \in V : v.type = "create_task" =>
             /\ op.handler \in {"create_job", "worker_heartbeat"} /\ u.type # "finish_task"
             /\ \A x \in V : x.type \in {"create_job", "register_worker", "acquire_job_client", "create_task"}
      BY <1>2, <1>4 DEF CoverInv, CreatingInv
    <2>3. \A v \in V : Head(op'.todo).type \notin {"create_job", "register_worker"}
      <3>1. V # {} => op'.todo # <<>>
        BY <1>2, <2>1, NothingToDo
      <3> QED BY <1>1, <3>1
    <2>4. CreatingInv(op)'
      BY <1>2, <2>1, <2>2, <2>3 DEF CreatingInv
    <2>5. ASSUME Whole PROVE CoverOK(acked', V)
      <3>1. CoverOK(acked, U) /\ IndexInv(acked)
        BY <1>2, <2>5 DEF CoverInv
      <3> QED BY <1>1, <1>4, <1>5, <2>2, <3>1, UpdateCover
    <2>6. Whole => IndexInv(acked')
      BY <1>1, UpdateIndex DEF CoverInv
    <2> QED BY <1>1, <1>2, <2>1, <2>4, <2>5, <2>6, WholeBefore DEF CoverInv
  <1> QED BY <1>6, <1>7

(* A crash: what the journal has is what state_ had, or a failed write has *)
(* left a record of a job or a worker that has no tasks.                   *)
LEMMA CrashCover == ASSUME ServiceInv, JournalInv, CoverInv, Crash PROVE CoverInv'
  <1>1. /\ started_ /\ op' = Idle /\ acked' = (IF readable THEN journal ELSE acked)
        /\ faults \cup Cut \cup {"crash"} \subseteq faults'
    BY DEF Crash
  <1>2. CASE "kept" \notin faults
    <2>1. acked' = acked
      BY <1>1, <1>2 DEF JournalInv
    <2> QED BY <1>1, <2>1, CoverDrop
  <1>3. CASE "kept" \in faults
    <2>1. ~Whole'
      BY <1>1, <1>3 DEF Whole
    <2>2. CreatingInv(op)'
      BY <1>1, IdleNow, NothingToDo DEF CreatingInv
    <2> QED BY <2>1, <2>2 DEF CoverInv
  <1> QED BY <1>2, <1>3

LEMMA CoverNext == ASSUME ServiceInv, JournalInv, CoverInv, [Next]_vars PROVE CoverInv'
  <1>1. CASE UNCHANGED vars
    BY <1>1, CoverSame DEF vars, dispatcherVars, journalVars, faultVars
  <1>2. CASE ClientNext
    BY <1>2, CoverQuiet, CreateJobCover DEF ClientNext
  <1>3. CASE DispatcherNext
    BY <1>3, CoverQuiet, ApplyCover DEF DispatcherNext
  <1>4. CASE FaultNext
    <2>1. ASSUME ApplyFails PROVE CoverInv'
      <3>1. started_ /\ op' = Idle /\ acked' = acked /\ faults \cup Cut \subseteq faults'
        BY <2>1 DEF ApplyFails
      <3> QED BY <3>1, CoverDrop
    <2> QED BY <1>4, <2>1, CrashCover, CoverQuiet DEF FaultNext
  <1>5. CASE AssignTask \/ Start
    BY <1>5, CoverQuiet
  <1>6. ASSUME NEW w \in Workers, WorkerNext(w) PROVE CoverInv'
    BY <1>6, CoverQuiet, HeartbeatCover DEF WorkerNext
  <1> QED BY <1>1, <1>2, <1>3, <1>4, <1>5, <1>6 DEF Next

LEMMA CoverInit == ASSUME Init PROVE CoverInv
  <1>1. op.todo = <<>> /\ acked = EmptyState /\ Range(op.todo) = {}
    BY IdleNow, NothingToDo DEF Init
  <1>2. DOMAIN acked.jobs = {} /\ DOMAIN acked.tasks = {}
    <2>1. EmptyState.jobs = <<>> /\ EmptyState.tasks = <<>>
      BY DEF EmptyState
    <2> QED BY <1>1, <2>1, EmptyMap
  <1>3. CoverOK(acked, {})
    BY <1>2 DEF CoverOK, JobsToBe, Unfinished
  <1> QED BY <1>1, <1>2, <1>3 DEF CoverInv, CreatingInv, IndexInv

(* At every update of CreateJob and of WorkerHeartbeat, the tasks that are *)
(* recorded and those that the handler will still create are one for each  *)
(* worker and each unfinished job, the new ones included                   *)
(* (dispatcher_impl.cc, CreateTasksForJob, CreateTasksForWorker), until a  *)
(* fault cuts a handler short, a crash brings back what a failed write has *)
(* left, or a job is collected.                                            *)
THEOREM CoverInvariant == Spec => []CoverInv
  <1>1. Init => CoverInv
    BY CoverInit
  <1>2. ServiceInv /\ JournalInv /\ CoverInv /\ [Next]_vars => CoverInv'
    BY CoverNext
  <1> QED BY <1>1, <1>2, ServiceInvariant, PTL DEF Spec

(* dispatcher_impl.h:62: whichever came first, every worker has exactly    *)
(* one task of every job that is not finished, whatever jobs, workers,     *)
(* crashes and failed writes there were, as long as no fault cut a handler *)
(* short between its updates, no crash came after a failed write that left *)
(* its record (journal.cc:80-82) and no job was collected.                 *)
THEOREM DataTasksCover == Spec => []TasksCover
  <1>1. ASSUME ServiceInv, CoverInv PROVE TasksCover
    <2>1. SUFFICES ASSUME CanHandle, Whole,
                          NEW j \in DOMAIN state_.jobs, NEW w \in DOMAIN state_.tasks_by_worker,
                          ~state_.jobs[j].finished
                   PROVE  Cardinality({t \in state_.tasks_by_job[j] : state_.tasks[t].worker_address = w}) = 1
      BY DEF TasksCover, Whole
    <2>2. state_ = acked /\ Range(op.todo) = {}
      BY <1>1, <2>1, IdleNow, NothingToDo DEF CanHandle, ServiceInv, DispatcherInv, Whole
    <2>3. CoverOK(state_, {}) /\ IndexInv(state_)
      BY <1>1, <2>1, <2>2 DEF CoverInv
    <2>4. IsOne(TasksToBe(state_, {}, j, w))
      BY <2>1, <2>3 DEF CoverOK, JobsToBe, WorkersToBe, Unfinished
    <2>5. TasksToBe(state_, {}, j, w) = {t \in state_.tasks_by_job[j] : state_.tasks[t].worker_address = w}
      BY <2>1, <2>3 DEF TasksToBe, TasksOn, Created, IndexInv
    <2> QED BY <2>4, <2>5, FS_Singleton DEF IsOne
  <1> QED BY <1>1, ServiceInvariant, CoverInvariant, PTL
=============================================================================
