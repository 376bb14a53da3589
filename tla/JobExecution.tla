---------------------------- MODULE JobExecution ----------------------------
(***************************************************************************)
(* How the backend executes a job (server/src/app.rs, lines 29-94, and the *)
(* parts of `Runner::run` in which the runs of a job meet).                *)
(*                                                                         *)
(* For every target of the job one blocking task is spawned, the run.  A   *)
(* run parses the ELF file, opens its debug probe under the `probe_mutex`  *)
(* of the job, attaches and flashes, and waits at the `sync_barrier`, a    *)
(* crossbeam WaitGroup, so that all targets are started at the same time.  *)
(* The backend waits at the barrier too, in a blocking task of its own, and*)
(* then joins the runs in the order in which they were spawned.            *)
(*                                                                         *)
(* A WaitGroup counts its clones; `wait` drops the clone it is called on   *)
(* and returns when none is left.  A run that ends early, by an error or a *)
(* panic, drops its clone as well.  Blocking tasks are taken in order by   *)
(* the threads of a pool of bounded size.                                  *)
(***************************************************************************)
EXTENDS Integers, FiniteSets, Sequences

CONSTANTS
  RunCount,       \* the number of runs of each job, in order of execution
  PoolSize,       \* `max_blocking_threads` of the tokio runtime
  PanickingRuns,  \* the runs that may panic
  Server,         \* the backend, where runs are counted with it
  Free            \* a mutex nobody holds

JobNumbers == DOMAIN RunCount
Runs == UNION {{k} \X (1 .. RunCount[k]) : k \in JobNumbers}

ASSUME ExecutionAssumption ==
  /\ RunCount \in Seq(Nat)
  /\ PoolSize \in Nat \ {0}
  /\ Free \notin Runs /\ Server \notin Runs

VARIABLES
  job,            \* the number of the job being executed, 0 before the first
  backend,        \* the `run` task: where it is, the next run of its loop
  run,            \* per run, where it is
  pool_queue,     \* blocking tasks no thread has taken yet
  waiter,         \* the blocking task that waits at the barrier
  wait_group,     \* who holds a clone of the job's WaitGroup
  probe_mutex,    \* per job, who holds its probe_mutex
  poisoned,       \* the jobs whose probe_mutex is poisoned
  result          \* per run, its RunResultDetails

vars == <<job, backend, run, pool_queue, waiter, wait_group, probe_mutex,
          poisoned, result>>

Task(pc, next) == [pc |-> pc, next |-> next]

Init ==
  /\ job = 0
  /\ backend = Task("recv", 1)
  /\ run = [r \in Runs |-> "new"]
  /\ pool_queue = <<>>
  /\ waiter = "none"
  /\ wait_group = {}
  /\ probe_mutex = [k \in JobNumbers |-> Free]
  /\ poisoned = {}
  /\ result = [r \in Runs |-> "never_set"]
-----------------------------------------------------------------------------
Ended   == {"ok", "failed", "panicked"}
OnProbe == {"listing", "listing_again"}       \* holds the probe_mutex
Setup   == {"parse", "get_probe", "attach", "get_probe_again",
            "attach_under_reset", "flash"} \cup OnProbe
OnThread(r) == run[r] \in Setup \cup {"barrier", "live"}

ThreadsBusy == Cardinality({r \in Runs : OnThread(r)})
                 + (IF waiter = "waiting" THEN 1 ELSE 0)

(* The closure of a run returns or unwinds: its clone of the WaitGroup is  *)
(* dropped, and so is the probe_mutex guard if it holds it.                *)
(*                                                                         *)
(* Mutant: a clone outlives the closure.                                   *)
EndsAsKeepingClone(r, outcome) ==
  /\ run' = [run EXCEPT ![r] = outcome]
  /\ wait_group' = wait_group
  /\ probe_mutex' = [k \in JobNumbers |->
                       IF probe_mutex[k] = r THEN Free ELSE probe_mutex[k]]

EndsAs(r, outcome) ==
  /\ run' = [run EXCEPT ![r] = outcome]
  /\ wait_group' = wait_group \ {r}
  /\ probe_mutex' = [k \in JobNumbers |->
                       IF probe_mutex[k] = r THEN Free ELSE probe_mutex[k]]
-----------------------------------------------------------------------------
(* The backend.  A job is received; status and result bookkeeping is the   *)
(* subject of JobPipeline.  The backend keeps the WaitGroup it creates     *)
(* until all runs are spawned.                                             *)
(* Mutant: the first clone goes to the first run.                          *)
BackendRecvKeepsNone ==
  /\ backend.pc = "recv" /\ job < Len(RunCount)
  /\ job' = job + 1
  /\ backend' = Task("spawn", 1)
  /\ wait_group' = {}
  /\ waiter' = "none"
  /\ UNCHANGED <<run, pool_queue, probe_mutex, poisoned, result>>

BackendRecv ==
  /\ backend.pc = "recv" /\ job < Len(RunCount)
  /\ job' = job + 1
  /\ backend' = Task("spawn", 1)
  /\ wait_group' = {Server}
  /\ waiter' = "none"
  /\ UNCHANGED <<run, pool_queue, probe_mutex, poisoned, result>>

(* Mutant: one run too many.                                               *)
BackendSpawnOneMore ==
  /\ backend.pc = "spawn" /\ backend.next <= RunCount[job] + 1
  /\ run' = [run EXCEPT ![<<job, backend.next>>] = "queued"]
  /\ pool_queue' = Append(pool_queue, <<job, backend.next>>)
  /\ wait_group' = wait_group \cup {<<job, backend.next>>}
  /\ backend' = Task("spawn", backend.next + 1)
  /\ UNCHANGED <<job, waiter, probe_mutex, poisoned, result>>

BackendSpawn ==
  /\ backend.pc = "spawn" /\ backend.next <= RunCount[job]
  /\ run' = [run EXCEPT ![<<job, backend.next>>] = "queued"]
  /\ pool_queue' = Append(pool_queue, <<job, backend.next>>)
  /\ wait_group' = wait_group \cup {<<job, backend.next>>}
  /\ backend' = Task("spawn", backend.next + 1)
  /\ UNCHANGED <<job, waiter, probe_mutex, poisoned, result>>

(* `spawn_blocking(move || sync_barrier.wait()).await`.                    *)
BackendAwaitsBarrier ==
  /\ backend.pc = "spawn" /\ backend.next > RunCount[job]
  /\ pool_queue' = Append(pool_queue, Server)
  /\ waiter' = "queued"
  /\ backend' = Task("barrier", 1)
  /\ UNCHANGED <<job, run, wait_group, probe_mutex, poisoned, result>>

BackendPassesBarrier ==
  /\ backend.pc = "barrier" /\ waiter = "waiting" /\ wait_group = {}
  /\ waiter' = "done"
  /\ backend' = Task("join", 1)
  /\ UNCHANGED <<job, run, pool_queue, wait_group, probe_mutex, poisoned, result>>

Outcome == [ok |-> "success", failed |-> "failure"]

(* Mutant: gives up at the first failure.                                  *)
BackendJoinsUntilFailure ==
  LET r == <<job, backend.next>> IN
  /\ backend.pc = "join" /\ backend.next <= RunCount[job]
  /\ run[r] \in {"ok", "failed"}
  /\ result' = [result EXCEPT ![r] = Outcome[run[r]]]
  /\ backend' = Task("join", IF run[r] = "ok" THEN backend.next + 1
                             ELSE RunCount[job] + 1)
  /\ UNCHANGED <<job, run, pool_queue, waiter, wait_group, probe_mutex, poisoned>>

(* Awaits the runs one by one and stores what each returned.               *)
BackendJoins ==
  LET r == <<job, backend.next>> IN
  /\ backend.pc = "join" /\ backend.next <= RunCount[job]
  /\ run[r] \in {"ok", "failed"}
  /\ result' = [result EXCEPT ![r] = Outcome[run[r]]]
  /\ backend' = Task("join", backend.next + 1)
  /\ UNCHANGED <<job, run, pool_queue, waiter, wait_group, probe_mutex, poisoned>>

(* `run.await.unwrap()` of a run that panicked; the other runs go on.      *)
BackendJoinPanics ==
  /\ backend.pc = "join" /\ backend.next <= RunCount[job]
  /\ run[<<job, backend.next>>] = "panicked"
  /\ backend' = Task("dead", 1)
  /\ UNCHANGED <<job, run, pool_queue, waiter, wait_group, probe_mutex,
                 poisoned, result>>

(* Mutant: the last run is not joined.                                     *)
BackendSendsEarly ==
  /\ backend.pc = "join" /\ backend.next >= RunCount[job]
  /\ backend' = Task("recv", 1)
  /\ UNCHANGED <<job, run, pool_queue, waiter, wait_group, probe_mutex,
                 poisoned, result>>

(* The job result is sent, and the next job received.                      *)
BackendSends ==
  /\ backend.pc = "join" /\ backend.next > RunCount[job]
  /\ backend' = Task("recv", 1)
  /\ UNCHANGED <<job, run, pool_queue, waiter, wait_group, probe_mutex,
                 poisoned, result>>

Backend == \/ BackendRecv \/ BackendSpawn \/ BackendAwaitsBarrier
           \/ BackendPassesBarrier \/ BackendJoins \/ BackendJoinPanics
           \/ BackendSends
-----------------------------------------------------------------------------
(* A thread of the pool takes the blocking task that has waited longest.   *)
PoolStartsRun(r) ==
  /\ pool_queue # <<>> /\ Head(pool_queue) = r /\ ThreadsBusy < PoolSize
  /\ pool_queue' = Tail(pool_queue)
  /\ run' = [run EXCEPT ![r] = "parse"]
  /\ UNCHANGED <<job, backend, waiter, wait_group, probe_mutex, poisoned, result>>

(* Mutant: the waiter waits on a clone and the original stays alive.       *)
PoolStartsWaiterOnClone ==
  /\ pool_queue # <<>> /\ Head(pool_queue) = Server /\ ThreadsBusy < PoolSize
  /\ pool_queue' = Tail(pool_queue)
  /\ waiter' = "waiting"
  /\ UNCHANGED <<job, backend, run, wait_group, probe_mutex, poisoned, result>>

PoolStartsWaiter ==
  /\ pool_queue # <<>> /\ Head(pool_queue) = Server /\ ThreadsBusy < PoolSize
  /\ pool_queue' = Tail(pool_queue)
  /\ waiter' = "waiting"
  /\ wait_group' = wait_group \ {Server}
  /\ UNCHANGED <<job, backend, run, probe_mutex, poisoned, result>>
-----------------------------------------------------------------------------
(* A run.  `Runner::new` parses the ELF file; the probe is opened under the*)
(* mutex, a second time if attaching fails; then the target is flashed.    *)
Moves(r, from, to) ==
  /\ run[r] = from
  /\ run' = [run EXCEPT ![r] = to]
  /\ UNCHANGED <<job, backend, pool_queue, waiter, wait_group, probe_mutex,
                 poisoned, result>>

Parses(r) == Moves(r, "parse", "get_probe")

(* Mutant: every run locks a mutex of its own.                             *)
LocksOwnMutex(r) ==
  /\ run[r] \in {"get_probe", "get_probe_again"}
  /\ run' = [run EXCEPT ![r] = IF @ = "get_probe" THEN "listing"
                               ELSE "listing_again"]
  /\ UNCHANGED <<job, backend, pool_queue, waiter, wait_group, probe_mutex,
                 poisoned, result>>

LocksProbes(r) ==
  /\ run[r] \in {"get_probe", "get_probe_again"}
  /\ probe_mutex[r[1]] = Free /\ r[1] \notin poisoned
  /\ probe_mutex' = [probe_mutex EXCEPT ![r[1]] = r]
  /\ run' = [run EXCEPT ![r] = IF @ = "get_probe" THEN "listing"
                               ELSE "listing_again"]
  /\ UNCHANGED <<job, backend, pool_queue, waiter, wait_group, poisoned, result>>

(* `probe_mutex.lock().unwrap()`.                                          *)
LockPanics(r) ==
  /\ run[r] \in {"get_probe", "get_probe_again"}
  /\ probe_mutex[r[1]] = Free /\ r[1] \in poisoned
  /\ EndsAs(r, "panicked")
  /\ UNCHANGED <<job, backend, pool_queue, waiter, poisoned, result>>

OpensProbe(r) ==
  /\ run[r] \in OnProbe
  /\ probe_mutex' = [probe_mutex EXCEPT ![r[1]] = Free]
  /\ run' = [run EXCEPT ![r] = IF @ = "listing" THEN "attach"
                               ELSE "attach_under_reset"]
  /\ UNCHANGED <<job, backend, pool_queue, waiter, wait_group, poisoned, result>>

Attaches(r)    == Moves(r, "attach", "flash")
AttachFails(r) == Moves(r, "attach", "get_probe_again")
Reattaches(r)  == Moves(r, "attach_under_reset", "flash")

(* Flashed, halted and ready: `barrier.wait()` drops the clone ...         *)
Arrives(r) ==
  /\ run[r] = "flash"
  /\ run' = [run EXCEPT ![r] = "barrier"]
  /\ wait_group' = wait_group \ {r}
  /\ UNCHANGED <<job, backend, pool_queue, waiter, probe_mutex, poisoned, result>>

(* ... and returns when no clone is left; the core is started.             *)
PassesBarrier(r) == wait_group = {} /\ Moves(r, "barrier", "live")

Succeeds(r) ==
  /\ run[r] = "live"
  /\ EndsAs(r, "ok")
  /\ UNCHANGED <<job, backend, pool_queue, waiter, poisoned, result>>

(* An error on the way, everywhere but where the run only waits.           *)
Fails(r) ==
  /\ run[r] \in {"parse", "attach_under_reset", "flash", "live"} \cup OnProbe
  /\ EndsAs(r, "failed")
  /\ UNCHANGED <<job, backend, pool_queue, waiter, poisoned, result>>

Panics(r) ==
  /\ r \in PanickingRuns
  /\ run[r] \in {"parse", "attach", "attach_under_reset", "flash", "live"} \cup OnProbe
  /\ EndsAs(r, "panicked")
  /\ poisoned' = IF run[r] \in OnProbe THEN poisoned \cup {r[1]} ELSE poisoned
  /\ UNCHANGED <<job, backend, pool_queue, waiter, result>>

Run(r) == \/ PoolStartsRun(r) \/ Parses(r) \/ LocksProbes(r) \/ LockPanics(r)
          \/ OpensProbe(r) \/ Attaches(r) \/ AttachFails(r) \/ Reattaches(r)
          \/ Arrives(r) \/ PassesBarrier(r) \/ Succeeds(r) \/ Fails(r)
          \/ Panics(r)
-----------------------------------------------------------------------------
(* A job with as many runs as the pool has threads, or more: they are all  *)
(* at the barrier, and wait for tasks that wait for their threads.         *)
Starved ==
  /\ job # 0 /\ RunCount[job] >= PoolSize
  /\ pool_queue # <<>> /\ wait_group # {} /\ ThreadsBusy = PoolSize
  /\ \A r \in Runs : OnThread(r) => run[r] = "barrier"

Finished ==
  /\ backend.pc = "dead" \/ (backend.pc = "recv" /\ job = Len(RunCount))
  /\ \A r \in Runs : run[r] \in Ended \cup {"new"}

(* Nothing is left to do, or nobody can do it.                             *)
AtRest == (Finished \/ Starved) /\ UNCHANGED vars

Next == Backend \/ PoolStartsWaiter \/ (\E r \in Runs : Run(r)) \/ AtRest

Spec == Init /\ [][Next]_vars
-----------------------------------------------------------------------------
TypeOK ==
  /\ job \in 0 .. Len(RunCount)
  /\ backend \in [pc : {"recv", "spawn", "barrier", "join", "dead"},
                  next : 1 .. (IF job = 0 THEN 1 ELSE RunCount[job] + 1)]
  /\ job = 0 => backend.pc \in {"recv", "dead"}
  /\ run \in [Runs -> {"new", "queued", "barrier", "live"} \cup Setup \cup Ended]
  /\ pool_queue \in Seq(Runs \cup {Server})
  /\ waiter \in {"none", "queued", "waiting", "done"}
  /\ wait_group \subseteq Runs \cup {Server}
  /\ probe_mutex \in [JobNumbers -> Runs \cup {Free}]
  /\ poisoned \subseteq JobNumbers
  /\ result \in [Runs -> {"never_set", "success", "failure"}]

(* All targets of a job are started together: a core runs only when every  *)
(* run of its job has its target flashed and halted, or has ended, even if *)
(* the first runs are ready before the last are spawned (app.rs:33-67,     *)
(* runner.rs:324-328).                                                     *)
StartTogether ==
  \A r, s \in Runs :
    run[r] = "live" /\ s[1] = r[1] => run[s] \in {"barrier", "live"} \cup Ended

(* "Access to the list of probes needs to be unique, else the workers crash*)
(* into each other" (runner.rs:554): also between the runs of two jobs,    *)
(* although every job has a probe_mutex of its own.                        *)
ProbeListUnique ==
  \A r, s \in Runs : run[r] \in OnProbe /\ run[s] \in OnProbe => r = s

(* No run of an earlier job is still at work on its target when a job is   *)
(* executed: the targets of two jobs overlap (app.rs:70-94).               *)
OneJobAtATime ==
  \A r \in Runs : run[r] \notin Ended \cup {"new"} => r[1] = job

(* The job result that is sent holds the outcome of every run, and none is *)
(* left at "Never set, possibly timed out" (app.rs:70-88, job.rs:164-170). *)
ResultsAreOwn ==
  \A r \in Runs :
    r[1] < job \/ (r[1] = job /\ backend.pc = "recv") =>
      run[r] \in {"ok", "failed"} /\ result[r] = Outcome[run[r]]

(* A job whose runs and whose waiter fit the pool never waits for a thread:*)
(* the runs of the jobs before it have all given theirs back (app.rs:49-71)*)
PoolHasRoom ==
  job # 0 /\ RunCount[job] < PoolSize /\ pool_queue # <<>> => ThreadsBusy < PoolSize

(* A job that is taken up is executed to its end, or kills the backend: no *)
(* early failure or panic keeps the others at the barrier (app.rs:67-71).  *)
(* Only a job that does not fit the pool may wait there for ever.          *)
JobEnds == backend.pc = "spawn" ~> backend.pc \in {"recv", "dead"} \/ Starved
=============================================================================
