# A verification development for embedded-ci

embedded-ci is a server that runs firmware on real targets. A client posts a
job; the server flashes the job's binaries to targets through debug probes,
starts all of them together, collects their logs over RTT, and keeps the
results for the client to fetch. This directory holds TLA+ models of the
server, the TLC runs that check them, and proofs checked by TLAPS.

Paths such as `app.rs` mean `src/server/src/app.rs`; `lib.rs` and `job.rs` are
those of `src/common/src`, and `builder.rs` is the one of `src/client/src`,
whose `lib.rs` is called `client/lib.rs`.

## 1. The system

    client --POST /job--> post_job --register_job--> run --finished_job--> collector
                             |                        |                       |
                             +----- ServerStatus -----+-----------------------+
                                                      |                       v
    client --GET /job/by-id--> get_job_by_id: ServerStatus, then finished_job_queue

    run --spawn_blocking--> Runner per target --probe--> core --RTT--> log

| component | state | operations | what is hard about it | what makes it correct |
|---|---|---|---|---|
| `ServerStatus` (lib.rs 16-111) | current job, queued ids, finished ids, under one mutex | `job_enqueued`, `job_started`, `job_finished`, `job_cleared`, `job_status` | called by three actors; its assumptions are only logged, but `pop_front().unwrap()` panics | its ids agree with where the jobs really are |
| REST handlers (routes.rs) | none of their own | `post_job`, `get_job_by_id`, `last_job`, `status`, `targets` | several at a time on several workers; two critical sections, or two mutexes, in one handler | no accepted job is lost or unknown; no panic while a lock is held |
| backend `run` (app.rs 20-95) | the current job and its runs | receive, start, spawn, barrier, join, send, finish | panics, a bounded channel on either side, a barrier over a thread pool | order of acceptance, one job at a time, every result the run's own |
| `finished_job_collector` (app.rs 121-151) | one result in transit | receive, push, evict | takes two mutexes, in the order opposite to the handler | bounded queue, no lost or leaked id |
| `Targets`, validation (lib.rs 188-255, job.rs 254-384, cli.rs 44-70) | the vector of targets | `push`, `find_by_*`, `validate_tasks_coherency` | entries of four kinds that overlap | serials unique; accepted jobs have one run per probe; exact errors |
| `Runner` (runner.rs) | one run: session, RTT channel, buffer | parse, attach, flash, go to `main`, barrier, read loop, verdict | the core runs while the runner looks; memory survives a reset | honest verdicts, complete logs, an end |
| `JobResult` (job.rs 67-170) | one slot per run | `empty_from_job`, `task_mut_by_id`, `run_mut_by_probe_serial` | slots are found by serial | every outcome reaches its own slot |
| client (client/lib.rs) | one session: the job it polls for | `run`: `post_job`, `poll_job_result` | retries without a limit, lost connections, results that are evicted meanwhile | a session ends, and NotFound has a known cause |
| builder (builder.rs) | tasks so far, the task at hand | `add_task`, `set_timeout`, `run_on`, `elf_executable`, `done`, `build` | it and the server count different things | what is built fails on the server for its targets only |
| settings (cli.rs 72-242) | a file shared by invocations | read, validate, create, add a token | nobody locks the file, writing truncates it | no announced token is lost, no server opens by accident |
| authentication (auth.rs) | the tokens, fixed at start-up | `from_request` | no tokens means everybody | who is let in had a saved token |
| process (main.rs) | the tokio runtime | start-up, Ctrl-C | the runtime is dropped in the middle of a job | the process ends, with no half results |

`PROJECT.json` lists the same components with what is covered, and under
`hazards` the places where the code can go wrong in ways a test would hardly
reach.

## 2. Modules

* **ServerStatus** - the record and its mutators as operators: each is called
  under the mutex, so each is one step of its caller. What the `error_if_...`
  macros expect is stated as `...AsExpected`.
* **JobPipeline** - the life of jobs in the server. One action per step between
  two await points, lock operations or channel operations of `post_job`,
  `get_job_by_id`, `run` and the collector, and one for each way such a step can
  panic. `holder` and `poisoned` are the two std mutexes, held across steps only
  where the code holds a guard while it waits for another lock; `Polling` counts
  the worker threads in use, because a handler or a task keeps its worker from
  one await point to the next. `accepted` and `cleared` are history.
  A run of a job is one step here; its detail is in JobExecution.
* **JobService** - what the server promises, without threads, locks and
  channels. **JobPipelineRefinement** maps the pipeline to it.
* **JobExecution** - what happens inside that step: spawning the runs as
  blocking tasks, the pool that executes them, the WaitGroup barrier, the
  probe mutex, and joining. `wait_group` is the set of clones that are alive.
  Nothing in the code relates the number of runs of a job to the size of the
  pool, so the model does not either: a queued task waits for a thread that
  becomes free, and when all threads wait at the barrier for one that is queued,
  the job is `Starved` and hangs for ever.
* **JobShutdown** - JobExecution with Ctrl-C: what dropping the runtime does to
  the backend (dropped where it awaits, not in its spawning loop), to blocking
  tasks in the queue (cancelled, with their clones, or still taken by a thread
  that becomes free), to those spawned later (cancelled at once), and to the
  threads (waited for). A cancelled run is a `JoinError`, as one that panicked.
* **ClientSession** - clients over JobPipeline. A session makes the handlers of
  its job run, one request at a time, and takes their answers; the handlers are
  the actions of JobPipeline, unchanged. A connection may be lost at any time
  between request and answer, in either direction, and a token may be refused.
* **Settings** - invocations of the server program around one settings file:
  those that serve and those that add a token and exit. Each access to the file
  is an action, opening for writing truncates, any invocation may be killed.
  `expected`, `saved`, `seen` and `disturbed` are history: what the file would
  hold had nobody interfered, and what kinds of interference there were.
* **Targets**, **JobValidation** - registration of probes at start-up, one
  action per turn of the loop, and the validation of a descriptor, in which each
  nesting of loops that push to a vector is a FlattenSeq. An entry's position
  string is abstracted to its tuple of indices, a serial or a name to a model
  value or a short string.
* **JobResults** - the result of an accepted job, as `run` fills it in: one
  outcome after the other, a recursive function of their number.
* **JobDescBuilder** - the builders of the client in front of JobValidation; the
  order of calls that their types enforce is the field `phase`.
* **TargetRun** - one run of a firmware. Its actors are the runner, one action
  per access that matters, the firmware on the core, which does whatever it
  likes within its place (start-up, test, halted), and the clock. Words of the
  log are numbered and may be undecodable. The size of the ring belongs to the
  image (`ring_size`): it is the firmware's choice, and may exceed what one read
  returns. `reached` is history: the firmware got to its BKPT in time, and before
  the runner's last look at the core.
* **MC_...** - the finite instances. **..._proofs** - the theorems;
  **SequenceFacts** - lemmas about sequences that they use.

JobPipeline's `BackendRuns` stands for a whole behaviour of JobExecution from
`BackendSpawn` to the last `BackendJoins`, and `BackendRunsPanic` for one that
ends in `BackendJoinPanics`; the barrier step `PassesBarrier` of TargetRun is
the one of JobExecution. JobValidation ends where JobPipeline's `PostSend`
starts: `PostInvalid` is its rejection. Settings ends where JobPipeline's `Init`
starts; the server keeps nothing on disk, so that a restart is a new `Init`.

## 3. Runs

| run | what it shows | bounds |
|---|---|---|
| pipeline_races | order, conservation of ids, bounded queue, poisoning order, refinement of JobService | 4 jobs, one of them panicking, 2 GETs, capacity 2, 3 workers |
| client_one_worker | who is told NotFound; the status record mirrors the channel; no deadlock | 3 sessions, capacity 1, 1 worker, a job that panics, all connections may fail |
| client_liveness | accepted jobs are published, and sessions end, unless the server breaks | 3 sessions, capacity 1, 2 workers, one connection that may fail |
| execution | barrier, probe mutex, joining; jobs end and Ctrl-C ends the process, unless a job does not fit the pool; one that fits never lacks a thread | two jobs with 3 and 2 runs, 3 threads, a run of each that may panic |
| validation | serials unique, accepted jobs and error lists exact; outcomes reach their runs; what the builder lets through | lists of up to 3 of 4 probes (one without config, some without serial), 1,507 descriptors of at most 2 tasks, builders of at most 2 tasks with 2 calls of `run_on` each |
| settings | tokens survive, no server opens by accident, refusals are deserved | 3 invocations, 2 names and the empty one, 7 files |
| target_run | verdicts, logs, barrier, termination | rings of 1 and 2, reads of 1, 3 words, timeouts of 1 tick, all kinds of images |
| claim_... | five statements of comments, docs and messages that fail | as small as the counterexample needs |

Why these bounds are enough to be of interest. Four jobs and a capacity of two
make the queue and both channels fill up, an eviction happen, and a job follow
the one that panics; three workers let a handler, the backend and the collector
be in the middle of something at once. Three runs on three threads leave none
for the waiter, unless one of them fails early; the two runs of the second job
leave just one for it, if the first job has given all of its threads back.
Rings of one and two and three words make the firmware wait, or drop, and speak
again between any two looks of the runner; with reads of one the smaller ring is
emptied by the last read and the larger one is not. Three sessions and room for
one result make every session lose its result in some behaviour, and a result be
waited for while another is evicted. Three invocations are two that interfere
and one that comes afterwards to see the file. MaxTicks is above every limit by
one tick, so every timeout both expires and does not.

Deadlock is checked except in pipeline_races, client_liveness and
claim_results_picked_up: there the cycle of `get_job_by_id` and the collector is
a real stop of the server, and is what `claim_results_picked_up` is about.
`AtRest`, `SessionsAtRest`, `Done` and `Exited` say where the system may stop;
`AtRest` of JobExecution includes `Starved`, which is a real stop as well.

Symmetry (jobs that do not panic with their requests, invocations) is used in
the runs without liveness only.

Statements of comments, docs and messages that fail, each with its run under
`findings`:

1. `claim_oldest_job`: `try_send` comes before `job_enqueued`, so the backend
   can call `job_started` on an empty or different queue.
2. `claim_finished_job_found`: the result of a job that is marked finished may
   not be in the queue yet; the handler panics with both guards held.
3. `claim_results_picked_up`: status-then-queue against queue-then-status.
4. `claim_job_timeout`: set-up, flashing, the barrier and RTT attachment are
   outside of the job's timeout.
5. `claim_added_token_works`: `--new-token` announces the token, then writes the
   file. The token of an invocation that is killed in between is unknown to
   every server; so is one that another invocation overwrites, and one whose
   empty name makes the file invalid.

Points 1 and 3 need a second worker thread: `client_one_worker` shows that with
a single one the record and the channel agree and nobody deadlocks. Point 2 does
not, and its run has one worker: the backend marks the job finished and awaits,
and a GET can come before the collector.

Where a guarantee has exceptions, its property names them, so that the run shows
that there are no others:

* `MissedOnlyIfSlow`: a client is told NotFound when its result was evicted, or
  when, with several workers, `job_started` popped the id of another job
  (`overtaken`). `client/lib.rs` line 93 takes it for a total failure.
* `SessionEnds`, `AcceptedIsPublished`: unless the server is `Broken`, that is a
  mutex is poisoned, the lock cycle is closed, or the backend is dead. The
  process then lives on and its clients ask for ever, although `app.rs` line 128
  says that the program should terminate. The lock cycle and the panics that
  poison have runs of their own (points 1 to 3); that requests are still answered
  when a panic of a run has killed the backend is in the model, and not checked.
* `JobEnds`, `ShutdownEnds`: unless the job is `Starved`. `PoolHasRoom` says that
  this takes a job with as many runs as the pool has threads.
* `LogIsComplete`: unless the ring holds more than the one read after the halt
  returns (16 KiB in the code). Then words are missing at the end of the log,
  at most as many as the ring holds beyond that read (`Surplus`), and none
  elsewhere.
* `FailureIsNoBkpt`: unless the firmware reaches its BKPT after the runner's last
  look at the core, which is before its last look at the clock; `job.rs` lines
  148 to 150 do not provide for that. Nor do they for a text log that is not
  UTF-8: it is decoded before the halt is looked at, and makes a failure of a
  BKPT in time.
* `AnnouncedIsKept`, `HonoursSavedTokens`, `RefusesOnlyBadSettings`: two
  invocations that write at once can lose tokens (even the last, which opens the
  server), a kill while a token is saved damages the file, and a server that
  starts during a write finds it blank and refuses. `AddedTokenWorks` makes no
  exceptions, and fails (point 5). A file with `max_jobs` 0 counts as bad
  settings: `validate` accepts it, and creating the channel panics
  (`PanicsOnChannel`).

## 4. Fairness

Weak fairness of the backend, the collector, a handler that was started, a
runner and the clock: tokio polls every task that is ready, a thread that is
not blocked continues, and time passes. Nothing is assumed of requests, which
need not arrive (a client that has begun goes on, and gets an answer unless its
connection is lost), of a std mutex beyond that a waiter eventually gets one that
stays free, or of the firmware, which may loop for ever. In JobExecution a run
that does not wait comes to an end; TargetRun shows that of the loop in which
it reads (`RunEnds`), and the library calls before it are assumed to return. After
Ctrl-C the runtime drops and cancels what it comes across; that Ctrl-C is pressed
is not assumed.

## 5. Proofs

TLAPS proves the following for every value of the constants, under the
assumptions named in the modules. They ask for little: a capacity above 0 and a
worker (PipelineAssumption); that each session polls with requests of its own
(SessionAssumption); a thread pool with a thread, and nothing about its room for
the runs of a job (ExecutionAssumption); rings and reads of at least a word,
nothing about which of the two is larger, and enough ticks for every timeout
(RunAssumption). SettingsAssumption and FilesAssumption keep special values
apart. ValidationAssumption and BuilderAssumption say that descriptors have the
types of the wire: any number of tasks, lists and entries. A capacity of 0 is
excluded because the server does not start with it (`PanicsOnChannel`).

* JobPipeline_proofs: `TypeCorrect`, `QueueIsBounded`, `StatusIsPoisonedFirst`
  and `InOrderOfAcceptance`. The last is the property that matters most: what is
  on the line from dropped results to waiting jobs is what `try_send` accepted,
  in its order. It is inductive together with the types: each action moves the
  head of one segment to the end of the one before (`HeadMovesOn`), pops and
  appends within the first (`EvictionKeepsOrder`), or adds an accepted job
  (`SendingKeepsOrder`); when the backend dies the line is cut to a prefix.
  `StatusIsPoisonedFirst` needs no strengthening beyond the types;
  `QueueIsBounded` carries that an eviction in progress is one short.
* JobPipelineStatus_proofs: how the status record relates to that line.
  `FinishedIsKept` and `ClearedIsFinished` follow from `StatusInv`: besides the
  order, a job was accepted at most once, the newest result is what `run` marks
  next, and the collector drops one at a time. `FinishedIsCurrent` needs
  `CurrentInv`: what `run` has still to mark has no duplicates, no mark yet and
  is not new. `LastJobIsThere` rests on `FullAfterEviction`: from the first
  eviction on, the queue is full or its mutex is held. `StatusIsTrue` has two
  parts: with one worker only one actor is between two await points (`Alone`),
  and the record lags behind the channel by exactly what that actor has still
  to write (`Lag`). `ServerInv` joins all of them.
* ClientSession_proofs. `ServerKeepsPromise` is the refinement of JobService:
  each step of the server is matched with the step of the service it performs
  (`Posts`, `Starts`, `Completes`, `Drops`, `Breaks`), or shown to leave unseen
  what the service sees (`Visible`). `SessionInv` adds the clients to ServerInv:
  a session, its answer and its handlers are in step (`InTurn`), and every
  accepted job is known to the record until its result is dropped, or an id was
  popped in place of another (`AllKnown`, `overtaken`), which takes a second
  worker. From it, `SessionTypeCorrect` and `NotFoundHasACause`. Sessions change
  the server only by its own handlers and by a new GET (`SessionsRunServer`), so
  that `ServerHoldsWithClients` and `PromiseHoldsWithClients` carry the
  guarantees of the server over to the specification with clients.
* JobExecution_proofs: `ExecutionTypeCorrect`, `TargetsStartTogether`,
  `ProbesAreOpenedAlone`, `JobsDoNotOverlap`, `ResultsAreComplete` and
  `FittingJobsFindThreads`, all from one invariant. Its parts: the runs of later
  jobs are new and those of earlier jobs ended (Schedule); every run on its way
  to the barrier has a clone of the WaitGroup, the backend has one while it
  spawns, and no clone is left once a run is live (Group); the pool's queue has
  no task twice, and its runs are queued (Pool); who lists probes holds the
  mutex (Mutex). `FittingJobsFindThreads` counts besides: threads and queue hold
  runs of the job at hand, of which there are as many as `RunCount` says
  (`RunsOfJob`), and at most the waiter, so that a queued task leaves a thread
  idle (`HasRoom`). `ShutdownTypeCorrect`, `ShutdownKeepsTargetsTogether`,
  `ShutdownKeepsProbesAlone`, `ShutdownKeepsJobsApart`,
  `ShutdownKeepsResultsComplete` and `ShutdownKeepsRoom` say the same of
  JobShutdown. The invariant holds through Ctrl-C as it stands, since whatever
  is cancelled drops its clone and leaves the queue, and a cancelled run is
  never taken for a joined one; only that the waiter in the queue may outlive
  the backend had to be allowed for.
* TargetRun_proofs: `TypeCorrect`, `BarrierHolds`, `SuccessHasBkpt`,
  `FailureHasNoBkpt`, `LogHasOwn` and `LogHasAll`, from one invariant: where the
  core can be before the barrier (Asleep) and after it (Awake); a success has
  its halt and a ring with no more than the Surplus left in it (Succeeded); a
  BKPT reached in time is still there when the core is looked at (Noticed); a
  stale control block is gone before the core of an image in flash is started
  (OwnBlock); what was read and what is in the ring is, in order, some of what
  was said (OwnWords), and all of it when the ring blocks (AllWords).
* Settings_proofs: `SettingsTypeCorrect`, `TokensAreKept`,
  `SavedTokensAreHonoured` and `OnlyBadSettingsAreRefused`, for any number of
  invocations. Its parts: what the place of an invocation implies (Placed);
  the history knows who overlapped (Exclusive); without two writers at once,
  what was read is what was saved last (Informed); who is about to write and is
  not killed writes what is expected (Kept); undisturbed, what was parsed is
  what is expected (Judged).
* JobValidation_proofs: `SerialsAreUnique`, `ValidationTypeCorrect`,
  `VerdictsAreExact`, `RunsAreDistinct`, `RunsAreAsked`, `EveryRunGetsItsOutcome`
  and `BuiltJobsFailOnTargetsOnly`, for descriptors of any size, any probes and
  any calls of the builder; they are about BuiltSpec, in which others may post as
  well. The invariant says only that an answer is that of some descriptor
  (`Answered`) and what a builder can hold. The rest is about the operators. An
  entry is resolved to what it asks for, each target once (`FoundIs`); so the
  position map has each pair once (`MapIs`), two of its positions for a serial
  are two entries that ask for the same target (`PositionsOfAre`), and the errors
  are the faults (`ErrorsAreFaults`). Without them no two runs share a serial
  (`AcceptedAreDistinct`), so that a serial leads to one slot (`StoredIs`), and by
  induction over the outcomes each has its own (`OutcomesAreStored`).

What several proofs say about sequences is in SequenceFacts, each fact once. The
library's induction theorems take an operator, which the provers cannot
instantiate; its well-foundedness of < on the naturals can be cited, and gives
induction over a set of numbers (`Induction`). With it a FlattenSeq is unfolded
(`FlattenDefined`), and what stands where in it is a matter of two indices
(`FlattenLocates`).
Each invariant was model-checked on the instances of section 3 before it was
proved.

Only model-checked: the liveness properties (`AcceptedIsPublished`,
`SessionEnds`, `JobEnds`, `ShutdownEnds`, `RunEnds`), because the prover has no
rules for fairness, and the claims of section 3, which are false. Every other
property that a run checks is a theorem. `FinishedIsCurrent` is proved without a
run of its own: it is part of what `ServerInv` needs, and what it guards against
shows in `FinishedMeansKept`.

## 6. Not modelled

CORS headers, GET /status and /targets, which only read, the launch of Rocket and
its own reaction to Ctrl-C, logging, probe speed, register values and addresses
(the u32 arithmetic on the RTT symbol among them), the wording of errors, the
content of binaries, the length of the pause between two polls, the fields of
probe configurations beyond being valid, and the test firmwares. The time
between two accesses to the settings file is any, but each access is one step.
`unroll_error` only formats.

## 7. Plan

Done: all modules of section 2, and a proof of every safety property, of the
refinement of JobService and of every type invariant.

Next:

1. That JobExecution, seen from JobPipeline, is one step per job: a small
   specification of a backend that takes a job and then sends its complete
   result or dies, with `BackendRuns` and `BackendRunsPanic` as its only steps,
   and a refinement mapping from JobExecution to it, checked and proved.
2. The same for TargetRun under a run of JobExecution: at work, at the barrier,
   live, ended.
3. The non-temporal parts of the liveness properties: that a measure of what a
   job has still to do falls with every fair step.
