----------------------------- MODULE JobShutdown -----------------------------
(***************************************************************************)
(* Ctrl-C while a job is executed (server/src/main.rs, lines 75-84).       *)
(* `main` returns and the tokio runtime is dropped with whatever it has:   *)
(*   - a task is dropped where it awaits, not between two await points;    *)
(*   - a blocking task in the queue may still be taken by a thread that has*)
(*     just become free, or is cancelled, which drops its closure and with *)
(*     it a clone of the WaitGroup;                                        *)
(*   - one that is spawned from now on is cancelled at once;               *)
(*   - the process waits for the blocking tasks that have begun, and nobody*)
(*     empties the queue while they hold every thread of the pool.         *)
(* To whoever joins it, a cancelled run is a JoinError like a panicked one.*)
(***************************************************************************)
EXTENDS JobExecution

VARIABLE runtime    \* "up", "stopping" after Ctrl-C, "down" at the end

shutdownVars == <<vars, runtime>>

ShutdownInit == Init /\ runtime = "up"

CtrlC ==
  /\ runtime = "up"
  /\ runtime' = "stopping"
  /\ UNCHANGED vars

Stopping == runtime = "stopping" /\ UNCHANGED runtime

(* The backend awaits a job, the barrier, a run, or room for a result.     *)
BackendDropped ==
  /\ Stopping /\ backend.pc \in {"recv", "barrier", "join"}
  /\ backend' = Task("dead", 1)
  /\ UNCHANGED <<job, run, pool_queue, waiter, wait_group, probe_mutex,
                 poisoned, result>>

(* It was between two await points, and spawns to the end.                 *)
SpawnsCancelled ==
  /\ Stopping /\ backend.pc = "spawn" /\ backend.next <= RunCount[job]
  /\ run' = [run EXCEPT ![<<job, backend.next>>] = "panicked"]
  /\ backend' = Task("spawn", backend.next + 1)
  /\ UNCHANGED <<job, pool_queue, waiter, wait_group, probe_mutex, poisoned, result>>

WaiterCancelled ==
  /\ wait_group' = wait_group \ {Server}
  /\ waiter' = "done"

AwaitsCancelled ==
  /\ Stopping /\ backend.pc = "spawn" /\ backend.next > RunCount[job]
  /\ WaiterCancelled
  /\ backend' = Task("barrier", 1)
  /\ UNCHANGED <<job, run, pool_queue, probe_mutex, poisoned, result>>

(* "Failed to join the blocking thread" is logged, and the runs are joined,*)
(* although the barrier may not have been passed.                          *)
FailsToJoinWaiter ==
  /\ Stopping /\ backend.pc = "barrier" /\ waiter = "done"
  /\ backend' = Task("join", 1)
  /\ UNCHANGED <<job, run, pool_queue, waiter, wait_group, probe_mutex,
                 poisoned, result>>

BackendStops == BackendDropped \/ SpawnsCancelled \/ AwaitsCancelled \/ FailsToJoinWaiter

(* A thread that has become free drains the queue.                         *)
CancelsRun(r) ==
  /\ Stopping /\ pool_queue # <<>> /\ Head(pool_queue) = r /\ ThreadsBusy < PoolSize
  /\ pool_queue' = Tail(pool_queue)
  /\ EndsAs(r, "panicked")
  /\ UNCHANGED <<job, backend, waiter, poisoned, result>>

CancelsWaiter ==
  /\ Stopping /\ pool_queue # <<>> /\ Head(pool_queue) = Server /\ ThreadsBusy < PoolSize
  /\ pool_queue' = Tail(pool_queue)
  /\ WaiterCancelled
  /\ UNCHANGED <<job, backend, run, probe_mutex, poisoned, result>>

Down ==
  /\ runtime = "stopping"
  /\ backend.pc = "dead" /\ pool_queue = <<>> /\ ThreadsBusy = 0
  /\ runtime' = "down"
  /\ UNCHANGED vars
-----------------------------------------------------------------------------
(* What happens without Ctrl-C, and after it to what it has not reached.   *)
GoesOn == /\ backend.pc = "spawn" /\ backend' # backend => runtime = "up"
          /\ UNCHANGED runtime

(* The waiter returns, and the backend is not there to be told.            *)
WaiterDone ==
  /\ backend.pc = "dead" /\ waiter = "waiting" /\ wait_group = {}
  /\ waiter' = "done"
  /\ UNCHANGED <<job, backend, run, pool_queue, wait_group, probe_mutex,
                 poisoned, result, runtime>>

ShutdownNext ==
  \/ Next /\ GoesOn
  \/ CtrlC \/ BackendStops \/ CancelsWaiter \/ WaiterDone \/ Down
  \/ \E r \in Runs : CancelsRun(r)
  \/ runtime = "down" /\ UNCHANGED shutdownVars

(* The runtime polls the backend when what it awaits is there, the pool    *)
(* takes blocking tasks while it has threads, and a run that does not wait *)
(* comes to an end: every loop of `Runner::run` has a time limit.  After   *)
(* Ctrl-C the runtime drops and cancels what it comes across.              *)
ShutdownFairness ==
  /\ WF_shutdownVars((Backend /\ GoesOn) \/ BackendStops)
  /\ WF_shutdownVars((PoolStartsWaiter /\ GoesOn) \/ CancelsWaiter \/ WaiterDone)
  /\ \A r \in Runs : WF_shutdownVars((Run(r) /\ GoesOn) \/ CancelsRun(r))
  /\ WF_shutdownVars(Down)

ShutdownSpec == ShutdownInit /\ [][ShutdownNext]_shutdownVars /\ ShutdownFairness
-----------------------------------------------------------------------------
(* Ctrl-C ends the process also in the middle of a job: no run waits at the*)
(* barrier for one that was cancelled, or for the backend, so that the     *)
(* runtime does not wait for them for ever (main.rs:75-84, app.rs:49-69).  *)
(* A job that does not fit the pool, however, keeps the process too.       *)
ShutdownEnds == runtime = "stopping" ~> runtime = "down" \/ Starved
=============================================================================
