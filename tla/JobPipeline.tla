---------------------------- MODULE JobPipeline ----------------------------
(***************************************************************************)
(* The life of jobs inside the embedded-ci server.                         *)
(*                                                                         *)
(*   post_job --register_job--> app::run --finished_job--> collector       *)
(*      |                         |                           |            *)
(*      +------- ServerStatus ----+---------------------------+            *)
(*                                                            |            *)
(*   get_job_by_id: ServerStatus, then finished_job_queue <---+            *)
(*                                                                         *)
(* The REST handlers (server/src/routes.rs) are plain functions, the       *)
(* backend `run` and the `finished_job_collector` (server/src/app.rs) are  *)
(* tokio tasks.  All are polled by the worker threads of one runtime: from *)
(* one await point to the next an actor keeps its worker, and it blocks    *)
(* that worker while it waits for a std Mutex.  Between its await points an*)
(* actor interleaves with those on other workers at every lock and channel *)
(* operation, which are the steps of this module.                          *)
(*                                                                         *)
(* A panic unwinds: it drops the guards the actor holds, which poisons     *)
(* those mutexes, and every later `lock().unwrap()` on them panics too.    *)
(* Rocket answers 500 for a handler that panicked; a spawned task that     *)
(* panicked is gone, and its channel ends with it, while the process lives.*)
(***************************************************************************)
EXTENDS Integers, FiniteSets, Sequences, SequencesExt

CONSTANTS
  Jobs,           \* ids `Uuid::new_v4` gives to the jobs that are posted
  Gets,           \* the requests GET /job/by-id, one handler call each
  MaxJobs,        \* `max_jobs_in_queue`: both channels and the result queue
  Workers,        \* worker threads of the tokio runtime
  PanickingJobs,  \* jobs one of whose runs panics (app.rs:71 unwraps the join)
  NoJob,          \* the `None` of `Option<Uuid>`
  Free            \* a mutex nobody holds

ASSUME PipelineAssumption ==
  /\ IsFiniteSet(Jobs) /\ IsFiniteSet(Gets)
  /\ MaxJobs \in Nat \ {0}    \* `mpsc::channel(0)` panics at start-up
  /\ Workers \in Nat \ {0}
  /\ PanickingJobs \subseteq Jobs
  /\ NoJob \notin Jobs
  /\ Jobs \cap Gets = {}
  /\ (Jobs \cup Gets) \cap {Free, "backend", "collector"} = {}
  /\ Free # "collector"

Status == INSTANCE ServerStatus

VARIABLES
  server_status,       \* Arc<Mutex<ServerStatus>>
  finished_job_queue,  \* Arc<Mutex<VecDeque<JobResult>>>, results by job id
  holder,              \* who holds each of the two mutexes across steps
  poisoned,            \* the mutexes that are poisoned
  register_job,        \* mpsc channel post_job -> run
  finished_job,        \* mpsc channel run -> finished_job_collector
  post,                \* per job, its POST /job handler
  get,                 \* per request, its get_job_by_id handler
  backend,             \* the `run` task: where it is and its `job`
  collector,           \* the `finished_job_collector` task, its `finished_job`
  accepted,            \* history: jobs in the order `try_send` took them
  cleared              \* history: jobs in the order their results were dropped

shared  == <<server_status, finished_job_queue, holder, poisoned>>
channels == <<register_job, finished_job>>
history == <<accepted, cleared>>
vars == <<shared, channels, post, get, backend, collector, history>>

Mutexes == {"status", "queue"}
Request(pc, id) == [pc |-> pc, id |-> id]
Task(pc, job)   == [pc |-> pc, job |-> job]

Init ==
  /\ server_status = Status!EmptyStatus
  /\ finished_job_queue = <<>>
  /\ holder = [m \in Mutexes |-> Free]
  /\ poisoned = {}
  /\ register_job = <<>> /\ finished_job = <<>>
  /\ post = [j \in Jobs |-> "new"]
  /\ get = [g \in Gets |-> Request("new", NoJob)]
  /\ backend = Task("recv", NoJob)
  /\ collector = Task("recv", NoJob)
  /\ accepted = <<>> /\ cleared = <<>>
-----------------------------------------------------------------------------
(* Worker threads.  An actor that is between two await points holds one; a *)
(* step that starts a handler or resumes a task needs one that is free.    *)
Polling ==
  {j \in Jobs : post[j] = "sent"}
    \cup {g \in Gets : get[g].pc = "find"}
    \cup {t \in {"backend"} : backend.pc \in {"start", "finish"}}
    \cup {t \in {"collector"} : collector.pc \in {"push", "clear"}}

WorkerFree == Cardinality(Polling) < Workers

(* std Mutex: `lock()` blocks while somebody holds it; `unwrap()` panics on*)
(* a poisoned one.                                                         *)
Lockable(m) == holder[m] = Free
Poisoned(m) == m \in poisoned

(* A bounded mpsc channel takes a message while it has room; dropping the  *)
(* receiver closes it and drops what it still holds.                       *)
HasRoom(channel) == Len(channel) < MaxJobs

(* The `run` task unwinds: its receiver of `register_job` is dropped, and  *)
(* with it the jobs in that channel.                                       *)
BackendDies ==
  /\ backend' = Task("dead", NoJob)
  /\ register_job' = <<>>

(* The collector unwinds: its receiver of `finished_job` is dropped.       *)
CollectorDies ==
  /\ collector' = Task("dead", NoJob)
  /\ finished_job' = <<>>
-----------------------------------------------------------------------------
(* POST /job (`post_job`).  `Job::from_desc` validates first; then the job *)
(* is handed to the backend, and only then entered in ServerStatus.        *)
PostInvalid(j) ==
  /\ post[j] = "new" /\ WorkerFree
  /\ post' = [post EXCEPT ![j] = "invalid"]
  /\ UNCHANGED <<shared, channels, get, backend, collector, history>>

PostClosed(j) ==
  /\ post[j] = "new" /\ WorkerFree
  /\ backend.pc = "dead"
  /\ post' = [post EXCEPT ![j] = "closed"]
  /\ UNCHANGED <<shared, channels, get, backend, collector, history>>

PostTooMany(j) ==
  /\ post[j] = "new" /\ WorkerFree
  /\ backend.pc # "dead" /\ ~ HasRoom(register_job)
  /\ post' = [post EXCEPT ![j] = "too_many"]
  /\ UNCHANGED <<shared, channels, get, backend, collector, history>>

PostSend(j) ==
  /\ post[j] = "new" /\ WorkerFree
  /\ backend.pc # "dead" /\ HasRoom(register_job)
  /\ register_job' = Append(register_job, j)
  /\ accepted' = Append(accepted, j)
  /\ post' = [post EXCEPT ![j] = "sent"]
  /\ UNCHANGED <<shared, finished_job, get, backend, collector, cleared>>

PostEnqueue(j) ==
  /\ post[j] = "sent" /\ Lockable("status") /\ ~ Poisoned("status")
  /\ server_status' = Status!JobEnqueued(server_status, j)
  /\ post' = [post EXCEPT ![j] = "accepted"]
  /\ UNCHANGED <<finished_job_queue, holder, poisoned>>
  /\ UNCHANGED <<channels, get, backend, collector, history>>

PostPanic(j) ==
  /\ post[j] = "sent" /\ Lockable("status") /\ Poisoned("status")
  /\ post' = [post EXCEPT ![j] = "panicked"]
  /\ UNCHANGED <<shared, channels, get, backend, collector, history>>

Post(j) == \/ PostInvalid(j) \/ PostClosed(j) \/ PostTooMany(j)
           \/ PostSend(j) \/ PostEnqueue(j) \/ PostPanic(j)
-----------------------------------------------------------------------------
(* GET /job/by-id/<id> (`get_job_by_id`).  Unless the job is finished the  *)
(* answer is given under the status mutex alone.  For a finished one the   *)
(* queue mutex is taken as well, with the status guard still held.         *)
GetStatus(g, id) ==
  /\ get[g].pc = "new" /\ WorkerFree
  /\ Lockable("status") /\ ~ Poisoned("status")
  /\ IF Status!JobStatus(server_status, id) = "Finished"
     THEN /\ get' = [get EXCEPT ![g] = Request("find", id)]
          /\ holder' = [holder EXCEPT !["status"] = g]
     ELSE /\ get' = [get EXCEPT ![g] = Request("answered", NoJob)]
          /\ UNCHANGED holder
  /\ UNCHANGED <<server_status, finished_job_queue, poisoned>>
  /\ UNCHANGED <<channels, post, backend, collector, history>>

GetPanic(g) ==
  /\ get[g].pc = "new" /\ WorkerFree
  /\ Lockable("status") /\ Poisoned("status")
  /\ get' = [get EXCEPT ![g] = Request("panicked", NoJob)]
  /\ UNCHANGED <<shared, channels, post, backend, collector, history>>

Finds(g) == ~ Poisoned("queue") /\ get[g].id \in ToSet(finished_job_queue)

GetFind(g) ==
  /\ get[g].pc = "find" /\ Lockable("queue") /\ Finds(g)
  /\ get' = [get EXCEPT ![g] = Request("answered", NoJob)]
  /\ holder' = [holder EXCEPT !["status"] = Free]
  /\ UNCHANGED <<server_status, finished_job_queue, poisoned>>
  /\ UNCHANGED <<channels, post, backend, collector, history>>

(* Mutant: the status guard is dropped before the queue is searched.       *)
GetUnreachableWithoutStatus(g) ==
  /\ get[g].pc = "find" /\ Lockable("queue") /\ ~ Finds(g)
  /\ get' = [get EXCEPT ![g] = Request("panicked", NoJob)]
  /\ holder' = [holder EXCEPT !["status"] = Free]
  /\ poisoned' = poisoned \cup {"queue"}
  /\ UNCHANGED <<server_status, finished_job_queue>>
  /\ UNCHANGED <<channels, post, backend, collector, history>>

(* Either the queue mutex is poisoned, or the result is not there and the  *)
(* `unreachable!` arm is taken with both guards held.  Both end poisoned.  *)
GetUnreachable(g) ==
  /\ get[g].pc = "find" /\ Lockable("queue") /\ ~ Finds(g)
  /\ get' = [get EXCEPT ![g] = Request("panicked", NoJob)]
  /\ holder' = [holder EXCEPT !["status"] = Free]
  /\ poisoned' = Mutexes
  /\ UNCHANGED <<server_status, finished_job_queue>>
  /\ UNCHANGED <<channels, post, backend, collector, history>>

(* GET /job/last (`last_job`) reads the newest result; it changes nothing. *)
LastJob == IF finished_job_queue = <<>> THEN NoJob ELSE Last(finished_job_queue)

Get(g) == \/ \E id \in Jobs : GetStatus(g, id)
          \/ GetPanic(g) \/ GetFind(g) \/ GetUnreachable(g)
-----------------------------------------------------------------------------
(* The backend task (`run`): one job after the other.                      *)
BackendRecv ==
  /\ backend.pc = "recv" /\ register_job # <<>> /\ WorkerFree
  /\ backend' = Task("start", Head(register_job))
  /\ register_job' = Tail(register_job)
  /\ UNCHANGED <<shared, finished_job, post, get, collector, history>>

BackendStart ==
  /\ backend.pc = "start" /\ Lockable("status") /\ ~ Poisoned("status")
  /\ ~ Status!JobStartedPanics(server_status)
  /\ server_status' = Status!JobStarted(server_status, backend.job)
  /\ backend' = Task("run", backend.job)
  /\ UNCHANGED <<finished_job_queue, holder, poisoned>>
  /\ UNCHANGED <<channels, post, get, collector, history>>

(* `job_started` panics on an empty `jobs_in_queue`, or the mutex was      *)
(* poisoned already.                                                       *)
BackendStartPanic ==
  /\ backend.pc = "start" /\ Lockable("status")
  /\ Poisoned("status") \/ Status!JobStartedPanics(server_status)
  /\ poisoned' = poisoned \cup {"status"}
  /\ BackendDies
  /\ UNCHANGED <<server_status, finished_job_queue, holder>>
  /\ UNCHANGED <<finished_job, post, get, collector, history>>

(* The runs of the job, from the barrier to the last `run.await`; the task *)
(* awaits and holds no worker meanwhile.                                   *)
BackendRuns ==
  /\ backend.pc = "run" /\ backend.job \notin PanickingJobs /\ WorkerFree
  /\ backend' = Task("send", backend.job)
  /\ UNCHANGED <<shared, channels, post, get, collector, history>>

BackendRunsPanic ==
  /\ backend.pc = "run" /\ backend.job \in PanickingJobs /\ WorkerFree
  /\ BackendDies
  /\ UNCHANGED <<shared, finished_job, post, get, collector, history>>

BackendSend ==
  /\ backend.pc = "send" /\ WorkerFree
  /\ collector.pc # "dead" /\ HasRoom(finished_job)
  /\ finished_job' = Append(finished_job, backend.job)
  /\ backend' = Task("finish", backend.job)
  /\ UNCHANGED <<shared, register_job, post, get, collector, history>>

BackendSendFails ==
  /\ backend.pc = "send" /\ WorkerFree
  /\ collector.pc = "dead"
  /\ backend' = Task("recv", NoJob)
  /\ UNCHANGED <<shared, channels, post, get, collector, history>>

BackendFinish ==
  /\ backend.pc = "finish" /\ Lockable("status") /\ ~ Poisoned("status")
  /\ server_status' = Status!JobFinished(server_status, backend.job)
  /\ backend' = Task("recv", NoJob)
  /\ UNCHANGED <<finished_job_queue, holder, poisoned>>
  /\ UNCHANGED <<channels, post, get, collector, history>>

BackendFinishPanic ==
  /\ backend.pc = "finish" /\ Lockable("status") /\ Poisoned("status")
  /\ BackendDies
  /\ UNCHANGED <<shared, finished_job, post, get, collector, history>>

Backend == \/ BackendRecv \/ BackendStart \/ BackendStartPanic
           \/ BackendRuns \/ BackendRunsPanic
           \/ BackendSend \/ BackendSendFails
           \/ BackendFinish \/ BackendFinishPanic
-----------------------------------------------------------------------------
(* The collector task (`finished_job_collector`): moves results into the   *)
(* bounded queue.                                                          *)
CollectorRecv ==
  /\ collector.pc = "recv" /\ finished_job # <<>> /\ WorkerFree
  /\ collector' = Task("push", Head(finished_job))
  /\ finished_job' = Tail(finished_job)
  /\ UNCHANGED <<shared, register_job, post, get, backend, history>>

(* `recv` returns None once the sender is gone and nothing is left.        *)
CollectorRecvPanic ==
  /\ collector.pc = "recv" /\ finished_job = <<>> /\ WorkerFree
  /\ backend.pc = "dead"
  /\ CollectorDies
  /\ UNCHANGED <<shared, register_job, post, get, backend, history>>

(* Mutant: `Less` also covers the full queue.                              *)
CollectorPushWhenFull ==
  /\ collector.pc = "push" /\ Lockable("queue") /\ ~ Poisoned("queue")
  /\ Len(finished_job_queue) <= MaxJobs
  /\ finished_job_queue' = Append(finished_job_queue, collector.job)
  /\ collector' = Task("recv", NoJob)
  /\ UNCHANGED <<server_status, holder, poisoned>>
  /\ UNCHANGED <<channels, post, get, backend, history>>

(* Mutant: `push_front` in place of `push_back`.                           *)
CollectorPushFront ==
  /\ collector.pc = "push" /\ Lockable("queue") /\ ~ Poisoned("queue")
  /\ Len(finished_job_queue) < MaxJobs
  /\ finished_job_queue' = <<collector.job>> \o finished_job_queue
  /\ collector' = Task("recv", NoJob)
  /\ UNCHANGED <<server_status, holder, poisoned>>
  /\ UNCHANGED <<channels, post, get, backend, history>>

CollectorPush ==
  /\ collector.pc = "push" /\ Lockable("queue") /\ ~ Poisoned("queue")
  /\ Len(finished_job_queue) < MaxJobs
  /\ finished_job_queue' = Append(finished_job_queue, collector.job)
  /\ collector' = Task("recv", NoJob)
  /\ UNCHANGED <<server_status, holder, poisoned>>
  /\ UNCHANGED <<channels, post, get, backend, history>>

(* Mutant: the newest result is dropped, `pop_back`.                       *)
CollectorEvictNewest ==
  /\ collector.pc = "push" /\ Lockable("queue") /\ ~ Poisoned("queue")
  /\ Len(finished_job_queue) = MaxJobs
  /\ cleared' = Append(cleared, Last(finished_job_queue))
  /\ finished_job_queue' = Front(finished_job_queue)
  /\ holder' = [holder EXCEPT !["queue"] = "collector"]
  /\ collector' = Task("clear", collector.job)
  /\ UNCHANGED <<server_status, poisoned>>
  /\ UNCHANGED <<channels, post, get, backend, accepted>>

(* Mutant: the queue guard is dropped before the status mutex is awaited.  *)
CollectorEvictUnguarded ==
  /\ collector.pc = "push" /\ Lockable("queue") /\ ~ Poisoned("queue")
  /\ Len(finished_job_queue) = MaxJobs
  /\ cleared' = Append(cleared, Head(finished_job_queue))
  /\ finished_job_queue' = Tail(finished_job_queue)
  /\ collector' = Task("clear", collector.job)
  /\ UNCHANGED <<server_status, holder, poisoned>>
  /\ UNCHANGED <<channels, post, get, backend, accepted>>

(* The queue is full: its oldest result is popped, and the queue guard is  *)
(* kept while the status mutex is awaited.  `Ordering::Greater` panics;    *)
(* QueueBounded says that it does not come to that.                        *)
CollectorEvict ==
  /\ collector.pc = "push" /\ Lockable("queue") /\ ~ Poisoned("queue")
  /\ Len(finished_job_queue) = MaxJobs
  /\ cleared' = Append(cleared, Head(finished_job_queue))
  /\ finished_job_queue' = Tail(finished_job_queue)
  /\ holder' = [holder EXCEPT !["queue"] = "collector"]
  /\ collector' = Task("clear", collector.job)
  /\ UNCHANGED <<server_status, poisoned>>
  /\ UNCHANGED <<channels, post, get, backend, accepted>>

CollectorPushPanic ==
  /\ collector.pc = "push" /\ Lockable("queue") /\ Poisoned("queue")
  /\ CollectorDies
  /\ UNCHANGED <<shared, register_job, post, get, backend, history>>

(* Mutant: clears the id of the job that comes, not of the one that goes.  *)
IncomingJob == collector.job

DroppedJob == Last(cleared)

(* Mutant: the new result is pushed only when there was room at once.      *)
CollectorClearOnly ==
  /\ collector.pc = "clear" /\ Lockable("status") /\ ~ Poisoned("status")
  /\ server_status' = Status!JobCleared(server_status, DroppedJob)
  /\ holder' = [holder EXCEPT !["queue"] = Free]
  /\ collector' = Task("recv", NoJob)
  /\ UNCHANGED <<finished_job_queue, poisoned, channels, post, get, backend, history>>

CollectorClear ==
  /\ collector.pc = "clear" /\ Lockable("status") /\ ~ Poisoned("status")
  /\ server_status' = Status!JobCleared(server_status, DroppedJob)
  /\ finished_job_queue' = Append(finished_job_queue, collector.job)
  /\ holder' = [holder EXCEPT !["queue"] = Free]
  /\ collector' = Task("recv", NoJob)
  /\ UNCHANGED <<poisoned, channels, post, get, backend, history>>

CollectorClearPanic ==
  /\ collector.pc = "clear" /\ Lockable("status") /\ Poisoned("status")
  /\ holder' = [holder EXCEPT !["queue"] = Free]
  /\ poisoned' = poisoned \cup {"queue"}
  /\ CollectorDies
  /\ UNCHANGED <<server_status, finished_job_queue>>
  /\ UNCHANGED <<register_job, post, get, backend, history>>

Collector == \/ CollectorRecv \/ CollectorRecvPanic
             \/ CollectorPush \/ CollectorEvict \/ CollectorPushPanic
             \/ CollectorClear \/ CollectorClearPanic
-----------------------------------------------------------------------------
(* The server at rest: every request is answered and both tasks wait for a *)
(* message, or are gone.  Only here may the system stop.                   *)
AtRest ==
  /\ \A j \in Jobs : post[j] \notin {"new", "sent"}
  /\ \A g \in Gets : get[g].pc \notin {"new", "find"}
  /\ backend.pc \in {"recv", "dead"} /\ register_job = <<>>
  /\ collector.pc \in {"recv", "dead"} /\ finished_job = <<>>
  /\ backend.pc = "dead" => collector.pc = "dead"
  /\ UNCHANGED vars

Next == \/ \E j \in Jobs : Post(j)
        \/ \E g \in Gets : Get(g)
        \/ Backend \/ Collector
        \/ AtRest

Spec == Init /\ [][Next]_vars

(* The runtime polls every task that is ready and a handler that was       *)
(* started runs on; requests need not arrive.                              *)
HandlerRuns(j) == PostEnqueue(j) \/ PostPanic(j)
RequestRuns(g) == GetFind(g) \/ GetUnreachable(g)

Fairness == /\ WF_vars(Backend) /\ WF_vars(Collector)
            /\ \A j \in Jobs : WF_vars(HandlerRuns(j))
            /\ \A g \in Gets : WF_vars(RequestRuns(g))

FairSpec == Spec /\ Fairness
-----------------------------------------------------------------------------
TypeOK ==
  /\ server_status \in Status!ServerStatusType(Jobs)
  /\ finished_job_queue \in Seq(Jobs)
  /\ holder \in [Mutexes -> Gets \cup {"collector", Free}]
  /\ poisoned \subseteq Mutexes
  /\ register_job \in Seq(Jobs) /\ finished_job \in Seq(Jobs)
  /\ post \in [Jobs -> {"new", "invalid", "closed", "too_many", "sent",
                        "accepted", "panicked"}]
  /\ get \in [Gets -> [pc : {"new", "answered", "panicked"}, id : {NoJob}]
                         \cup [pc : {"find"}, id : Jobs]]
  /\ backend \in [pc : {"recv", "dead"}, job : {NoJob}]
                   \cup [pc : {"start", "run", "send", "finish"}, job : Jobs]
  /\ collector \in [pc : {"recv", "dead"}, job : {NoJob}]
                     \cup [pc : {"push", "clear"}, job : Jobs]
  /\ accepted \in Seq(Jobs) /\ cleared \in Seq(Jobs)
-----------------------------------------------------------------------------
(* Where a job is on its way, from the oldest result to the newest job.    *)
InBackend   == IF backend.pc \in {"start", "run", "send"}
               THEN <<backend.job>> ELSE <<>>
InCollector == IF collector.pc \in {"push", "clear"}
               THEN <<collector.job>> ELSE <<>>
Results == finished_job_queue \o InCollector \o finished_job
Line == cleared \o Results \o InBackend \o register_job

(* Jobs are executed and their results published and dropped in the order  *)
(* in which `try_send` accepted them, each exactly once: while the collector*)
(* lives, what is on the line is a prefix of what was accepted, and while  *)
(* the backend lives as well it is all of it (app.rs:28-94, 127-150).      *)
FirstComeFirstServed ==
  collector.pc # "dead" =>
    /\ IsPrefix(Line, accepted)
    /\ backend.pc # "dead" => Line = accepted

(* While the status mutex is sound and the collector lives, the ids marked *)
(* finished are exactly the jobs whose result the server has (in the       *)
(* queue or in transit to it), and one that is just being dropped; only the*)
(* job that `run` has sent and not yet marked is missing (app.rs:90-91,    *)
(* 136-147).  No mark leaks and none is lost.                              *)
BeingDropped == IF collector.pc = "clear" THEN {DroppedJob} ELSE {}
BeingMarked  == IF backend.pc = "finish" THEN {backend.job} ELSE {}

FinishedMeansKept ==
  ~ Poisoned("status") /\ collector.pc # "dead" =>
    server_status.jobs_finished =
      (ToSet(Results) \cup BeingDropped) \ BeingMarked

(* `job_cleared` never logs a failed assertion: a result is dropped only   *)
(* after `run` has marked its job finished, although the collector does not*)
(* wait for that mark (lib.rs:85-88).                                      *)
ClearedWasFinished ==
  collector.pc = "clear" /\ ~ Poisoned("status") =>
    Status!JobClearedAsExpected(server_status, DroppedJob)

(* `job_finished` never logs a failed assertion: the job it is called for  *)
(* is the current one and was not marked before (lib.rs:78-82).            *)
FinishedWasCurrent ==
  backend.pc = "finish" /\ ~ Poisoned("status") =>
    Status!JobFinishedAsExpected(server_status, backend.job)

(* The result queue never outgrows `max_jobs_in_queue`, so the             *)
(* `Ordering::Greater` arm is unreachable as app.rs:148 says; between the  *)
(* pop and the push of an eviction it is one short.                        *)
QueueBounded ==
  /\ Len(finished_job_queue) <= MaxJobs
  /\ collector.pc = "clear" => Len(finished_job_queue) = MaxJobs - 1

(* GET /job/last answers NotFound only before the first result: whoever    *)
(* gets the queue mutex afterwards finds a result in it, even with room for*)
(* one only (routes.rs:79-86, app.rs:135-147).                             *)
LastJobStays ==
  cleared # <<>> /\ Lockable("queue") /\ ~ Poisoned("queue") => LastJob # NoJob

(* The queue mutex is never the first to be poisoned, so a handler that has*)
(* the status guard never meets a poisoned queue (routes.rs:60-62).        *)
StatusPoisonedFirst == Poisoned("queue") => Poisoned("status")

(* The two ways in which the server breaks that involve its locks.         *)
LockCycle == holder["status"] # Free /\ holder["queue"] # Free
Broken == poisoned # {} \/ LockCycle \/ backend.pc = "dead"

(* Every accepted job is eventually executed and its result published,     *)
(* unless the server breaks: there is no other way to get stuck, whichever *)
(* channels are full (app.rs:28-94, 127-150).  A published job stays so and*)
(* a broken server too, so this says the same of each job.                 *)
Published(j) == j \in ToSet(cleared \o finished_job_queue)

AcceptedIsPublished ==
  <>[](Broken \/ \A j \in Jobs : post[j] = "accepted" => Published(j))

(* With a single worker thread a handler is not interrupted between its    *)
(* `try_send` and `job_enqueued`, nor `run` between `recv` and             *)
(* `job_started`: whenever nobody is being polled, the ids reported as     *)
(* enqueued are the jobs in the channel, in the same order, and the current*)
(* job is the one being run (routes.rs:38-41, app.rs:29-32).               *)
StatusMirrorsChannel ==
  Workers = 1 /\ Polling = {} /\ ~ Poisoned("status") /\ backend.pc # "dead" =>
    /\ server_status.jobs_in_queue = register_job
    /\ server_status.current_job = backend.job
-----------------------------------------------------------------------------
(* What comments in the code assume, and the model shows to fail.          *)

(* "Assumes the oldest `id` in the queue to be `id`" (lib.rs:70): whenever *)
(* `run` gets the status mutex for `job_started`, the job it has received  *)
(* is the first in `jobs_in_queue`.                                        *)
OldestJobIsStarted ==
  backend.pc = "start" /\ Lockable("status") /\ ~ Poisoned("status") =>
    Status!JobStartedAsExpected(server_status, backend.job)

(* "Job finished in ServerStatus but not found in the finished queue -     *)
(* bug?" (routes.rs:69), an `unreachable!`: a handler that gets both       *)
(* mutexes finds the result it looks for.                                  *)
FinishedJobIsFound ==
  \A g \in Gets :
    get[g].pc = "find" /\ Lockable("queue") /\ ~ Poisoned("queue") => Finds(g)

(* "Should be ok to await here as a concurrent job is expected to pick the *)
(* messages up quickly" (app.rs:89): a result does not stay in the finished*)
(* channel for ever.                                                       *)
ResultsArePickedUp ==
  \A j \in Jobs : j \in ToSet(finished_job) ~> j \notin ToSet(finished_job)
=============================================================================
