------------------------- MODULE JobExecution_proofs -------------------------
(***************************************************************************)
(* The safety of the barrier, of the probe mutex, of joining and of the    *)
(* thread pool, for any jobs, any runs, any size of the pool and any runs  *)
(* that panic; and after Ctrl-C, whatever the runtime drops or cancels and *)
(* whenever it does.                                                       *)
(***************************************************************************)
EXTENDS JobShutdown, FiniteSetTheorems, TLAPS

(* Whether a run was joined and its outcome stored.                        *)
Joined(r) == run[r] \in {"ok", "failed"} /\ result[r] = Outcome[run[r]]

(* Jobs are executed one after the other, their runs spawned and joined in *)
(* order.                                                                  *)
Schedule ==
  \A r \in Runs :
    /\ r[1] > job => run[r] = "new"
    /\ r[1] < job => Joined(r)
    /\ r[1] = job /\ backend.pc = "recv" => Joined(r)
    /\ r[1] = job /\ backend.pc = "join" /\ r[2] < backend.next => Joined(r)
    /\ r[1] = job /\ backend.pc = "spawn" /\ backend.next <= r[2] => run[r] = "new"
    /\ r[1] = job /\ run[r] = "new" => backend.pc = "spawn" /\ backend.next <= r[2]

(* The clones of the WaitGroup.                                            *)
Group ==
  /\ backend.pc = "spawn" => Server \in wait_group
  /\ \A r \in Runs : r[1] = job =>
       /\ run[r] \in Setup \cup {"queued"} => r \in wait_group
       /\ run[r] = "live" => wait_group = {}

(* The tasks no thread has taken.                                          *)
Pool ==
  /\ \A i, j \in DOMAIN pool_queue : pool_queue[i] = pool_queue[j] => i = j
  /\ \A i \in DOMAIN pool_queue :
       /\ pool_queue[i] \in Runs => run[pool_queue[i]] = "queued"
       /\ pool_queue[i] = Server => backend.pc \in {"barrier", "dead"} /\ waiter = "queued"

(* Who lists the probes holds the mutex of its job.                        *)
Mutex == \A r \in Runs : run[r] \in OnProbe => probe_mutex[r[1]] = r

IInv == TypeOK /\ Schedule /\ Group /\ Pool /\ Mutex
-----------------------------------------------------------------------------
LEMMA RunFacts ==
  /\ JobNumbers = 1 .. Len(RunCount) /\ Len(RunCount) \in Nat
  /\ \A k \in JobNumbers : RunCount[k] \in Nat
  /\ \A r \in Runs : r[1] \in JobNumbers /\ r[2] \in 1 .. RunCount[r[1]]
  /\ Server \notin Runs /\ Free \notin Runs
<1>1. JobNumbers = 1 .. Len(RunCount) /\ Len(RunCount) \in Nat
  BY ExecutionAssumption DEF JobNumbers
<1>2. \A k \in JobNumbers : RunCount[k] \in Nat
  BY ExecutionAssumption, <1>1
<1> QED BY <1>1, <1>2, ExecutionAssumption DEF Runs

(* A run is known by its job and its number.                               *)
LEMMA RunIsPair ==
  ASSUME NEW k \in JobNumbers, NEW i \in 1 .. RunCount[k]
  PROVE  /\ <<k, i>> \in Runs
         /\ \A r \in Runs : r[1] = k /\ r[2] = i => r = <<k, i>>
BY DEF Runs

LEMMA InvInit == Init => IInv
<1> SUFFICES ASSUME Init PROVE IInv
  OBVIOUS
<1> USE RunFacts DEF Init, Task
<1>1. job \in 0 .. Len(RunCount) /\ backend = Task("recv", 1)
  OBVIOUS
<1>2. TypeOK
  <2>1. backend \in [pc : {"recv", "spawn", "barrier", "join", "dead"},
                     next : 1 .. (IF job = 0 THEN 1 ELSE RunCount[job] + 1)]
    OBVIOUS
  <2>2. pool_queue \in Seq(Runs \cup {Server})
    OBVIOUS
  <2> QED BY <1>1, <2>1, <2>2 DEF TypeOK
<1>3. Schedule
  BY DEF Schedule
<1>4. Group
  BY DEF Group, Setup, OnProbe
<1>5. Pool
  BY DEF Pool
<1>6. Mutex
  BY DEF Mutex, OnProbe
<1> QED BY <1>2, <1>3, <1>4, <1>5, <1>6 DEF IInv
-----------------------------------------------------------------------------
(* Where a run can be.                                                     *)
States == {"new", "queued", "barrier", "live"} \cup Setup \cup Ended

(* The parts of the invariant, and the number of the job.                  *)
LEMMA Parts ==
  ASSUME IInv
  PROVE  /\ TypeOK /\ Schedule /\ Group /\ Pool /\ Mutex
         /\ job \in Nat /\ backend.next \in Nat
         /\ run \in [Runs -> States] /\ pool_queue \in Seq(Runs \cup {Server})
<1>1. TypeOK
  BY DEF IInv
<1>2. job \in Nat
  BY <1>1, RunFacts DEF TypeOK
<1>3. backend.next \in Nat
  BY <1>1, RunFacts DEF TypeOK
<1> QED BY <1>1, <1>2, <1>3 DEF IInv, TypeOK, States

(* The run the backend spawns or joins.                                    *)
LEMMA CurrentRun ==
  ASSUME TypeOK, backend.pc \notin {"recv", "dead"}, backend.next <= RunCount[job],
         NEW s, s = <<job, backend.next>>
  PROVE  /\ job \in JobNumbers /\ backend.next \in 1 .. RunCount[job]
         /\ RunCount[job] \in Nat
         /\ s \in Runs /\ s[1] = job /\ s[2] = backend.next
         /\ \A r \in Runs : r[1] = job /\ r[2] = backend.next => r = s
<1>1. job \in JobNumbers
  BY RunFacts DEF TypeOK
<1>2. backend.next \in 1 .. RunCount[job] /\ RunCount[job] \in Nat
  BY <1>1, RunFacts DEF TypeOK
<1> QED BY <1>1, <1>2, RunIsPair

LEMMA RecvStep == ASSUME IInv, BackendRecv PROVE IInv'
<1> USE RunFacts DEF IInv, BackendRecv
<1>1. TypeOK'
  BY DEF TypeOK, Task
<1>2. Schedule'
  BY DEF Schedule, Joined, Task, TypeOK
<1>3. Group'
  BY DEF Group, Task, Schedule, TypeOK, Setup, OnProbe
<1>4. Pool'
  BY DEF Pool, Task
<1>5. Mutex'
  BY DEF Mutex
<1> QED BY <1>1, <1>2, <1>3, <1>4, <1>5

LEMMA SpawnStep == ASSUME IInv, BackendSpawn PROVE IInv'
<1> DEFINE s == <<job, backend.next>>
<1>1. /\ backend.pc = "spawn" /\ backend.next <= RunCount[job]
      /\ run' = [run EXCEPT ![s] = "queued"] /\ pool_queue' = Append(pool_queue, s)
      /\ wait_group' = wait_group \cup {s}
      /\ backend'.pc = "spawn" /\ backend'.next = backend.next + 1
      /\ backend' = [pc |-> "spawn", next |-> backend.next + 1]
      /\ UNCHANGED <<job, waiter, probe_mutex, poisoned, result>>
  BY DEF BackendSpawn, Task
<1>2. /\ TypeOK /\ Schedule /\ Group /\ Pool /\ Mutex
      /\ job \in Nat /\ backend.next \in Nat
      /\ run \in [Runs -> States] /\ pool_queue \in Seq(Runs \cup {Server})
  BY Parts
<1>3. /\ job \in JobNumbers /\ backend.next \in 1 .. RunCount[job]
      /\ RunCount[job] \in Nat
      /\ s \in Runs /\ s[1] = job /\ s[2] = backend.next
      /\ \A r \in Runs : r[1] = job /\ r[2] = backend.next => r = s
  BY <1>1, <1>2, CurrentRun
<1> HIDE DEF s
<1>4. /\ run' \in [Runs -> States] /\ run'[s] = "queued"
      /\ \A r \in Runs : r # s => run'[r] = run[r]
  BY <1>1, <1>2, <1>3 DEF States
<1>5. run[s] = "new"
  BY <1>1, <1>3 , <1>2 DEF Schedule
<1>6. TypeOK'
  <2>1. pool_queue' \in Seq(Runs \cup {Server})
    BY <1>1, <1>2, <1>3
  <2>2. backend' \in [pc : {"recv", "spawn", "barrier", "join", "dead"},
                      next : 1 .. (IF job = 0 THEN 1 ELSE RunCount[job] + 1)]
    BY <1>1, <1>3, RunFacts
  <2>3. wait_group' \subseteq Runs \cup {Server}
    BY <1>1, <1>2, <1>3 DEF TypeOK
  <2>4. job # 0
    BY <1>3, RunFacts
  <2> QED BY <1>1, <1>2, <1>4, <2>1, <2>2, <2>3, <2>4 DEF TypeOK, States
<1>7. Schedule'
  <2>1. \A r \in Runs : Joined(r) => r # s
    BY <1>5 DEF Joined
  <2>2. \A r \in Runs : Joined(r) => Joined(r)'
    BY <2>1, <1>4, <1>1 DEF Joined
  <2>3. \A r \in Runs : r[2] \in Nat
    BY RunFacts
  <2> QED BY <1>1, <1>2, <1>3, <1>4, <2>2, <2>3 DEF Schedule
<1>8. Group'
  BY <1>1, <1>2, <1>3, <1>4 DEF Group
<1>9. Pool'
  <2>1. \A i \in DOMAIN pool_queue : pool_queue[i] # s /\ pool_queue[i] # Server
    BY <1>1, <1>2, <1>3, <1>5 DEF Pool
  <2>2. /\ DOMAIN pool_queue' = 1 .. (Len(pool_queue) + 1)
        /\ \A i \in DOMAIN pool_queue : pool_queue'[i] = pool_queue[i]
        /\ pool_queue'[Len(pool_queue) + 1] = s
        /\ DOMAIN pool_queue = 1 .. Len(pool_queue) /\ Len(pool_queue) \in Nat
    BY <1>1, <1>2, <1>3
  <2>3. \A i \in DOMAIN pool_queue' :
          i \in DOMAIN pool_queue \/ i = Len(pool_queue) + 1
    BY <2>2
  <2>4. /\ \A i, j \in DOMAIN pool_queue : pool_queue[i] = pool_queue[j] => i = j
        /\ \A i \in DOMAIN pool_queue :
             pool_queue[i] \in Runs => run[pool_queue[i]] = "queued"
    BY <1>2 DEF Pool
  <2>5. \A i, j \in DOMAIN pool_queue' : pool_queue'[i] = pool_queue'[j] => i = j
    BY <2>1, <2>2, <2>3, <2>4
  <2>6. ASSUME NEW i \in DOMAIN pool_queue'
        PROVE  /\ pool_queue'[i] \in Runs => run'[pool_queue'[i]] = "queued"
               /\ pool_queue'[i] # Server
    <3>1. CASE i \in DOMAIN pool_queue
      BY <3>1, <1>4, <2>1, <2>2, <2>4
    <3>2. CASE i = Len(pool_queue) + 1
      BY <3>2, <1>3, <1>4, <2>2, RunFacts
    <3> QED BY <2>3, <3>1, <3>2
  <2> QED BY <2>5, <2>6 DEF Pool
<1>a. Mutex'
  BY <1>1, <1>2, <1>3, <1>4 DEF Mutex, OnProbe
<1> QED BY <1>6, <1>7, <1>8, <1>9, <1>a DEF IInv

LEMMA AwaitsBarrierStep == ASSUME IInv, BackendAwaitsBarrier PROVE IInv'
<1> USE RunFacts DEF IInv, BackendAwaitsBarrier
<1>1. TypeOK'
  BY DEF TypeOK, Task
<1>2. Schedule'
  BY DEF Schedule, Joined, Task, TypeOK
<1>3. Group'
  BY DEF Group, Task
<1>4. Pool'
  BY DEF Pool, Task, TypeOK
<1>5. Mutex'
  BY DEF Mutex
<1> QED BY <1>1, <1>2, <1>3, <1>4, <1>5

LEMMA PassesBarrierStep == ASSUME IInv, BackendPassesBarrier PROVE IInv'
<1> USE RunFacts DEF IInv, BackendPassesBarrier
<1>1. TypeOK'
  BY DEF TypeOK, Task
<1>2. Schedule'
  BY DEF Schedule, Joined, Task, TypeOK
<1>3. Group'
  BY DEF Group, Task
<1>4. Pool'
  BY DEF Pool, Task, TypeOK
<1>5. Mutex'
  BY DEF Mutex
<1> QED BY <1>1, <1>2, <1>3, <1>4, <1>5

LEMMA JoinsStep == ASSUME IInv, BackendJoins PROVE IInv'
<1> DEFINE s == <<job, backend.next>>
<1>1. /\ backend.pc = "join" /\ backend.next <= RunCount[job]
      /\ run[s] \in {"ok", "failed"}
      /\ result' = [result EXCEPT ![s] = Outcome[run[s]]]
      /\ backend'.pc = "join" /\ backend'.next = backend.next + 1
      /\ backend' = [pc |-> "join", next |-> backend.next + 1]
      /\ UNCHANGED <<job, run, pool_queue, waiter, wait_group, probe_mutex, poisoned>>
  BY DEF BackendJoins, Task
<1>2. /\ TypeOK /\ Schedule /\ Group /\ Pool /\ Mutex
      /\ job \in Nat /\ backend.next \in Nat
  BY Parts
<1>3. /\ job \in JobNumbers /\ backend.next \in 1 .. RunCount[job]
      /\ RunCount[job] \in Nat
      /\ s \in Runs /\ s[1] = job /\ s[2] = backend.next
      /\ \A r \in Runs : r[1] = job /\ r[2] = backend.next => r = s
  BY <1>1, <1>2, CurrentRun
<1> HIDE DEF s
<1>4. Outcome[run[s]] \in {"success", "failure"}
  BY <1>1 DEF Outcome
<1>5. /\ result' \in [Runs -> {"never_set", "success", "failure"}]
      /\ result'[s] = Outcome[run[s]]
      /\ \A r \in Runs : r # s => result'[r] = result[r]
  BY <1>1, <1>2, <1>3, <1>4 DEF TypeOK
<1>6. TypeOK'
  <2>1. backend' \in [pc : {"recv", "spawn", "barrier", "join", "dead"},
                      next : 1 .. (IF job = 0 THEN 1 ELSE RunCount[job] + 1)]
    BY <1>1, <1>3, RunFacts
  <2>2. job # 0
    BY <1>3, RunFacts
  <2> QED BY <1>1, <1>2, <1>5, <2>1, <2>2 DEF TypeOK
<1>7. Schedule'
  <2>1. /\ \A r \in Runs : run'[r] = run[r]
        /\ run[s] \in {"ok", "failed"} /\ result'[s] = Outcome[run[s]]
    BY <1>1, <1>5
  <2>2. ASSUME NEW r \in Runs, Joined(r) PROVE Joined(r)'
    <3>1. CASE r = s
      BY <3>1, <2>1 DEF Joined, Outcome
    <3>2. CASE r # s
      BY <3>2, <2>1, <2>2, <1>5 DEF Joined, Outcome
    <3> QED BY <3>1, <3>2
  <2>3. ASSUME NEW r \in Runs, r[1] = job, r[2] < backend.next + 1
        PROVE  Joined(r)'
    <3>1. r[2] \in Nat
      BY RunFacts
    <3>2. r[2] = backend.next \/ r[2] < backend.next
      BY <1>2, <2>3, <3>1
    <3>3. CASE r[2] = backend.next
      <4>1. r = s
        BY <3>3, <2>3, <1>3
      <4> QED BY <4>1, <2>1 DEF Joined, Outcome
    <3>4. CASE r[2] < backend.next
      BY <3>4, <2>3, <2>2, <1>1, <1>2 DEF Schedule
    <3> QED BY <3>2, <3>3, <3>4
  <2> QED BY <1>1, <1>2, <2>2, <2>3 DEF Schedule
<1>8. Group'
  BY <1>1, <1>2 DEF Group
<1>9. Pool'
  BY <1>1, <1>2 DEF Pool
<1>a. Mutex'
  BY <1>1, <1>2 DEF Mutex
<1> QED BY <1>6, <1>7, <1>8, <1>9, <1>a DEF IInv

LEMMA JoinPanicsStep == ASSUME IInv, BackendJoinPanics PROVE IInv'
<1> USE RunFacts DEF IInv, BackendJoinPanics
<1>1. TypeOK'
  BY DEF TypeOK, Task
<1>2. Schedule'
  BY DEF Schedule, Joined, Task, TypeOK
<1>3. Group'
  BY DEF Group, Task
<1>4. Pool'
  BY DEF Pool, Task, TypeOK
<1>5. Mutex'
  BY DEF Mutex
<1> QED BY <1>1, <1>2, <1>3, <1>4, <1>5

LEMMA SendsStep == ASSUME IInv, BackendSends PROVE IInv'
<1> USE RunFacts DEF IInv, BackendSends
<1>1. TypeOK'
  BY DEF TypeOK, Task
<1>2. Schedule'
  BY DEF Schedule, Joined, Task, TypeOK
<1>3. Group'
  BY DEF Group, Task
<1>4. Pool'
  BY DEF Pool, Task, TypeOK
<1>5. Mutex'
  BY DEF Mutex
<1> QED BY <1>1, <1>2, <1>3, <1>4, <1>5
-----------------------------------------------------------------------------
(* A run that was spawned and has not ended belongs to the current job,    *)
(* whose backend has not yet joined all its runs.                          *)
LEMMA AtWork ==
  ASSUME IInv, NEW r \in Runs, run[r] \notin Ended \cup {"new"}
  PROVE  r[1] = job
BY Parts, RunFacts DEF Schedule, Joined, Ended

(* A thread takes the first task of the queue.                             *)
LEMMA PoolTail ==
  ASSUME IInv, pool_queue # <<>>
  PROVE  /\ Tail(pool_queue) \in Seq(Runs \cup {Server})
         /\ 1 \in DOMAIN pool_queue /\ Head(pool_queue) = pool_queue[1]
         /\ \A i \in DOMAIN Tail(pool_queue) :
              /\ i + 1 \in DOMAIN pool_queue /\ i \in Nat /\ i + 1 # 1
              /\ Tail(pool_queue)[i] = pool_queue[i + 1]
BY Parts

LEMMA PoolStartsRunStep ==
  ASSUME IInv, NEW r \in Runs, PoolStartsRun(r) PROVE IInv'
<1>1. /\ pool_queue # <<>> /\ Head(pool_queue) = r
      /\ pool_queue' = Tail(pool_queue) /\ run' = [run EXCEPT ![r] = "parse"]
      /\ UNCHANGED <<job, backend, waiter, wait_group, probe_mutex, poisoned, result>>
  BY DEF PoolStartsRun
<1>2. /\ TypeOK /\ Schedule /\ Group /\ Pool /\ Mutex
      /\ run \in [Runs -> States] /\ pool_queue \in Seq(Runs \cup {Server})
  BY Parts
<1>3. /\ pool_queue' \in Seq(Runs \cup {Server})
      /\ 1 \in DOMAIN pool_queue /\ r = pool_queue[1]
      /\ \A i \in DOMAIN pool_queue' :
           /\ i + 1 \in DOMAIN pool_queue /\ i \in Nat /\ i + 1 # 1
           /\ pool_queue'[i] = pool_queue[i + 1]
  BY <1>1, PoolTail
<1>4. run[r] = "queued"
  BY <1>2, <1>3 DEF Pool
<1>5. /\ run' \in [Runs -> States] /\ run'[r] = "parse"
      /\ \A s \in Runs : s # r => run'[s] = run[s]
  BY <1>1, <1>2 DEF States, Setup
<1>6. TypeOK'
  BY <1>1, <1>2, <1>3, <1>5 DEF TypeOK, States
<1>7. Schedule'
  <2>1. r[1] = job
    BY <1>4, AtWork DEF Ended
  <2>2. \A s \in Runs : Joined(s) => s # r
    BY <1>4 DEF Joined
  <2>3. \A s \in Runs : Joined(s) => Joined(s)'
    BY <2>2, <1>1, <1>5 DEF Joined
  <2>4. backend.pc = "spawn" => ~ (backend.next <= r[2])
    BY <1>2, <1>4, <2>1 DEF Schedule
  <2>5. ~ (r[1] > job)
    BY <1>2, <1>4 DEF Schedule
  <2> QED BY <1>1, <1>2, <1>5, <2>3, <2>4, <2>5 DEF Schedule
<1>8. Group'
  BY <1>1, <1>2, <1>4, <1>5 DEF Group
<1>9. Pool'
  <2>1. \A i, j \in DOMAIN pool_queue : pool_queue[i] = pool_queue[j] => i = j
    BY <1>2 DEF Pool
  <2>2. \A i \in DOMAIN pool_queue :
          /\ pool_queue[i] \in Runs => run[pool_queue[i]] = "queued"
          /\ pool_queue[i] = Server => backend.pc \in {"barrier", "dead"} /\ waiter = "queued"
    BY <1>2 DEF Pool
  <2>3. \A i, j \in DOMAIN pool_queue' : i + 1 = j + 1 => i = j
    BY <1>3
  <2>4. \A i \in DOMAIN pool_queue' : pool_queue'[i] # r
    BY <1>3, <2>1
  <2>5. \A i, j \in DOMAIN pool_queue' : pool_queue'[i] = pool_queue'[j] => i = j
    BY <1>3, <2>1, <2>3
  <2>6. \A i \in DOMAIN pool_queue' :
          /\ pool_queue'[i] \in Runs => run'[pool_queue'[i]] = "queued"
          /\ pool_queue'[i] = Server => backend'.pc \in {"barrier", "dead"} /\ waiter' = "queued"
    BY <1>1, <1>3, <1>5, <2>2, <2>4
  <2> QED BY <2>5, <2>6 DEF Pool
<1>a. Mutex'
  BY <1>1, <1>2, <1>5 DEF Mutex, OnProbe
<1> QED BY <1>6, <1>7, <1>8, <1>9, <1>a DEF IInv

LEMMA PoolStartsWaiterStep == ASSUME IInv, PoolStartsWaiter PROVE IInv'
<1>1. /\ pool_queue # <<>> /\ Head(pool_queue) = Server
      /\ pool_queue' = Tail(pool_queue) /\ waiter' = "waiting"
      /\ wait_group' = wait_group \ {Server}
      /\ UNCHANGED <<job, backend, run, probe_mutex, poisoned, result>>
  BY DEF PoolStartsWaiter
<1>2. TypeOK /\ Schedule /\ Group /\ Pool /\ Mutex
  BY Parts
<1>3. /\ pool_queue' \in Seq(Runs \cup {Server})
      /\ 1 \in DOMAIN pool_queue /\ Server = pool_queue[1]
      /\ \A i \in DOMAIN pool_queue' :
           /\ i + 1 \in DOMAIN pool_queue /\ i \in Nat /\ i + 1 # 1
           /\ pool_queue'[i] = pool_queue[i + 1]
  BY <1>1, PoolTail
<1>4. backend.pc \in {"barrier", "dead"}
  BY <1>2, <1>3 DEF Pool
<1>5. TypeOK'
  BY <1>1, <1>2, <1>3 DEF TypeOK
<1>6. Schedule'
  BY <1>1, <1>2 DEF Schedule, Joined
<1>7. Group'
  BY <1>1, <1>2, <1>4, RunFacts DEF Group
<1>8. Pool'
  <2>1. \A i, j \in DOMAIN pool_queue : pool_queue[i] = pool_queue[j] => i = j
    BY <1>2 DEF Pool
  <2>2. \A i \in DOMAIN pool_queue :
          pool_queue[i] \in Runs => run[pool_queue[i]] = "queued"
    BY <1>2 DEF Pool
  <2>3. \A i, j \in DOMAIN pool_queue' : i + 1 = j + 1 => i = j
    BY <1>3
  <2>4. \A i \in DOMAIN pool_queue' : pool_queue'[i] # Server
    BY <1>3, <2>1
  <2>5. \A i, j \in DOMAIN pool_queue' : pool_queue'[i] = pool_queue'[j] => i = j
    BY <1>3, <2>1, <2>3
  <2>6. \A i \in DOMAIN pool_queue' :
          pool_queue'[i] \in Runs => run'[pool_queue'[i]] = "queued"
    BY <1>1, <1>3, <2>2
  <2> QED BY <2>4, <2>5, <2>6 DEF Pool
<1>9. Mutex'
  BY <1>1, <1>2 DEF Mutex
<1> QED BY <1>5, <1>6, <1>7, <1>8, <1>9 DEF IInv
-----------------------------------------------------------------------------
(* A step of a run on a thread.  It may drop its own clone of the WaitGroup*)
(* and no other, and leaves alone the mutexes other runs hold.             *)
LEMMA RunStep ==
  ASSUME IInv, NEW r \in Runs, OnThread(r),
         NEW to \in Setup \cup {"barrier", "live"} \cup Ended,
         run' = [run EXCEPT ![r] = to],
         wait_group' \subseteq wait_group, wait_group \ {r} \subseteq wait_group',
         to \in Setup => run[r] \in Setup /\ wait_group' = wait_group,
         to = "live" => wait_group = {},
         probe_mutex' \in [JobNumbers -> Runs \cup {Free}],
         to \in OnProbe => probe_mutex'[r[1]] = r,
         \A s \in Runs : s # r /\ run[s] \in OnProbe =>
                           probe_mutex'[s[1]] = probe_mutex[s[1]],
         poisoned' \subseteq JobNumbers,
         UNCHANGED <<job, backend, pool_queue, waiter, result>>
  PROVE  IInv'
<1>1. /\ TypeOK /\ Schedule /\ Group /\ Pool /\ Mutex
      /\ run \in [Runs -> States] /\ pool_queue \in Seq(Runs \cup {Server})
  BY Parts
<1>2. /\ run' \in [Runs -> States] /\ run'[r] = to
      /\ \A s \in Runs : s # r => run'[s] = run[s]
  BY <1>1 DEF States
<1>3. /\ run[r] \notin {"new", "queued"} \cup Ended
      /\ to \notin {"new", "queued"}
  BY DEF OnThread, Setup, OnProbe, Ended
<1>4. r[1] = job
  BY <1>3, AtWork
<1>5. TypeOK'
  BY <1>1, <1>2 DEF TypeOK, States
<1>6. Schedule'
  <2>1. \A s \in Runs : Joined(s) => s # r
    BY <1>3 DEF Joined, Ended
  <2>2. \A s \in Runs : Joined(s) => Joined(s)'
    BY <2>1, <1>2 DEF Joined
  <2>3. /\ ~ (r[1] > job)
        /\ ~ (r[1] = job /\ backend.pc = "spawn" /\ backend.next <= r[2])
    BY <1>1, <1>3 DEF Schedule
  <2> QED BY <1>1, <1>2, <1>3, <2>2, <2>3 DEF Schedule
<1>7. Group'
  <2>1. backend.pc = "spawn" => Server \in wait_group'
    BY <1>1, RunFacts DEF Group
  <2>2. ASSUME NEW s \in Runs, s[1] = job, run'[s] \in Setup \cup {"queued"}
        PROVE  s \in wait_group'
    <3>1. CASE s = r
      BY <3>1, <2>2, <1>1, <1>2, <1>3, <1>4 DEF Group
    <3>2. CASE s # r
      BY <3>2, <2>2, <1>1, <1>2 DEF Group
    <3> QED BY <3>1, <3>2
  <2>3. ASSUME NEW s \in Runs, s[1] = job, run'[s] = "live"
        PROVE  wait_group' = {}
    <3>1. CASE s = r
      BY <3>1, <2>3, <1>2
    <3>2. CASE s # r
      BY <3>2, <2>3, <1>1, <1>2 DEF Group
    <3> QED BY <3>1, <3>2
  <2> QED BY <2>1, <2>2, <2>3 DEF Group
<1>8. Pool'
  <2>1. \A i \in DOMAIN pool_queue : pool_queue[i] # r
    BY <1>1, <1>3 DEF Pool
  <2> QED BY <1>1, <1>2, <2>1 DEF Pool
<1>9. Mutex'
  BY <1>1, <1>2 DEF Mutex
<1> QED BY <1>5, <1>6, <1>7, <1>8, <1>9 DEF IInv

(* The mutexes are all of type; what a run that ends does to them.         *)
LEMMA EndsStep ==
  ASSUME IInv, NEW r \in Runs, OnThread(r), NEW outcome \in Ended,
         EndsAs(r, outcome), poisoned' \subseteq JobNumbers,
         UNCHANGED <<job, backend, pool_queue, waiter, result>>
  PROVE  IInv'
<1>1. /\ run' = [run EXCEPT ![r] = outcome] /\ wait_group' = wait_group \ {r}
      /\ probe_mutex' = [k \in JobNumbers |->
                           IF probe_mutex[k] = r THEN Free ELSE probe_mutex[k]]
  BY DEF EndsAs
<1>2. TypeOK /\ Mutex
  BY Parts
<1>3. outcome \notin Setup \cup {"live"}
  BY DEF Ended, Setup, OnProbe
<1>4. probe_mutex' \in [JobNumbers -> Runs \cup {Free}]
  BY <1>1, <1>2 DEF TypeOK
<1>5. \A s \in Runs : s # r /\ run[s] \in OnProbe =>
                        probe_mutex'[s[1]] = probe_mutex[s[1]]
  BY <1>1, <1>2, RunFacts DEF Mutex
<1> QED BY <1>1, <1>3, <1>4, <1>5, RunStep DEF Setup

LEMMA MovesStep ==
  ASSUME IInv, NEW r \in Runs, NEW from \in Setup \cup {"barrier"},
         NEW to \in (Setup \ OnProbe) \cup {"live"}, Moves(r, from, to),
         to \in Setup => from \in Setup, to = "live" => wait_group = {}
  PROVE  IInv'
<1>1. /\ run[r] = from /\ run' = [run EXCEPT ![r] = to]
      /\ UNCHANGED <<job, backend, pool_queue, waiter, wait_group, probe_mutex,
                     poisoned, result>>
  BY DEF Moves
<1>2. TypeOK
  BY Parts
<1>3. OnThread(r)
  BY <1>1 DEF OnThread
<1>4. to \notin OnProbe
  BY DEF OnProbe
<1>5. probe_mutex' \in [JobNumbers -> Runs \cup {Free}] /\ poisoned' \subseteq JobNumbers
  BY <1>1, <1>2 DEF TypeOK
<1> QED BY <1>1, <1>3, <1>4, <1>5, RunStep

LEMMA LocksProbesStep ==
  ASSUME IInv, NEW r \in Runs, LocksProbes(r) PROVE IInv'
<1> DEFINE to == IF run[r] = "get_probe" THEN "listing" ELSE "listing_again"
<1>1. TypeOK /\ Mutex
  BY Parts
<1>2. /\ run[r] \in Setup /\ OnThread(r) /\ to \in OnProbe
  BY DEF LocksProbes, Setup, OnThread, OnProbe
<1>3. /\ probe_mutex[r[1]] = Free /\ probe_mutex' = [probe_mutex EXCEPT ![r[1]] = r]
      /\ run' = [run EXCEPT ![r] = to]
      /\ UNCHANGED <<job, backend, pool_queue, waiter, wait_group, poisoned, result>>
  BY DEF LocksProbes
<1>4. to \in Setup /\ to # "live"
  BY DEF Setup, OnProbe
<1> HIDE DEF to
<1>5. /\ probe_mutex' \in [JobNumbers -> Runs \cup {Free}] /\ probe_mutex'[r[1]] = r
      /\ poisoned' \subseteq JobNumbers
      /\ \A k \in JobNumbers : k # r[1] => probe_mutex'[k] = probe_mutex[k]
  BY <1>1, <1>3, RunFacts DEF TypeOK
<1>6. \A s \in Runs : s # r /\ run[s] \in OnProbe =>
                        probe_mutex'[s[1]] = probe_mutex[s[1]]
  BY <1>1, <1>3, <1>5, RunFacts DEF Mutex
<1> QED BY <1>2, <1>3, <1>4, <1>5, <1>6, RunStep

LEMMA OpensProbeStep ==
  ASSUME IInv, NEW r \in Runs, OpensProbe(r) PROVE IInv'
<1> DEFINE to == IF run[r] = "listing" THEN "attach" ELSE "attach_under_reset"
<1>1. TypeOK /\ Mutex
  BY Parts
<1>2. /\ run[r] \in Setup /\ OnThread(r) /\ run[r] \in OnProbe
  BY DEF OpensProbe, Setup, OnThread, OnProbe
<1>3. /\ probe_mutex' = [probe_mutex EXCEPT ![r[1]] = Free]
      /\ run' = [run EXCEPT ![r] = to]
      /\ UNCHANGED <<job, backend, pool_queue, waiter, wait_group, poisoned, result>>
  BY DEF OpensProbe
<1>4. to \in Setup /\ to # "live" /\ to \notin OnProbe
  BY DEF Setup, OnProbe
<1> HIDE DEF to
<1>5. /\ probe_mutex' \in [JobNumbers -> Runs \cup {Free}]
      /\ poisoned' \subseteq JobNumbers
      /\ \A k \in JobNumbers : k # r[1] => probe_mutex'[k] = probe_mutex[k]
  BY <1>1, <1>3, RunFacts DEF TypeOK
<1>6. \A s \in Runs : s # r /\ run[s] \in OnProbe =>
                        probe_mutex'[s[1]] = probe_mutex[s[1]]
  <2>1. \A s \in Runs : run[s] \in OnProbe /\ s[1] = r[1] => s = r
    BY <1>1, <1>2 DEF Mutex
  <2> QED BY <2>1, <1>5, RunFacts
<1> QED BY <1>2, <1>3, <1>4, <1>5, <1>6, RunStep

LEMMA ArrivesStep ==
  ASSUME IInv, NEW r \in Runs, Arrives(r) PROVE IInv'
<1>1. TypeOK
  BY Parts
<1>2. /\ run[r] = "flash" /\ run' = [run EXCEPT ![r] = "barrier"]
      /\ wait_group' = wait_group \ {r}
      /\ UNCHANGED <<job, backend, pool_queue, waiter, probe_mutex, poisoned, result>>
  BY DEF Arrives
<1>3. OnThread(r) /\ "barrier" \notin Setup \cup OnProbe
  BY <1>2 DEF OnThread, Setup, OnProbe
<1>4. probe_mutex' \in [JobNumbers -> Runs \cup {Free}] /\ poisoned' \subseteq JobNumbers
  BY <1>1, <1>2 DEF TypeOK
<1> QED BY <1>2, <1>3, <1>4, RunStep

LEMMA RunInv == ASSUME IInv, NEW r \in Runs, Run(r) PROVE IInv'
<1>1. poisoned \subseteq JobNumbers /\ r[1] \in JobNumbers
  BY Parts, RunFacts DEF TypeOK
<1>2. CASE PoolStartsRun(r)
  BY <1>2, PoolStartsRunStep
<1>3. CASE Parses(r)
  BY <1>3, MovesStep DEF Parses, Setup, OnProbe
<1>4. CASE LocksProbes(r)
  BY <1>4, LocksProbesStep
<1>5. CASE LockPanics(r)
  <2>1. OnThread(r) /\ "panicked" \in Ended
    BY <1>5 DEF LockPanics, OnThread, Setup, Ended
  <2> QED BY <1>1, <1>5, <2>1, EndsStep DEF LockPanics
<1>6. CASE OpensProbe(r)
  BY <1>6, OpensProbeStep
<1>7. CASE Attaches(r)
  BY <1>7, MovesStep DEF Attaches, Setup, OnProbe
<1>8. CASE AttachFails(r)
  BY <1>8, MovesStep DEF AttachFails, Setup, OnProbe
<1>9. CASE Reattaches(r)
  BY <1>9, MovesStep DEF Reattaches, Setup, OnProbe
<1>a. CASE Arrives(r)
  BY <1>a, ArrivesStep
<1>b. CASE PassesBarrier(r)
  BY <1>b, MovesStep DEF PassesBarrier, Setup, OnProbe
<1>c. CASE Succeeds(r)
  <2>1. OnThread(r) /\ "ok" \in Ended
    BY <1>c DEF Succeeds, OnThread, Ended
  <2> QED BY <1>1, <1>c, <2>1, EndsStep DEF Succeeds
<1>d. CASE Fails(r)
  <2>1. OnThread(r) /\ "failed" \in Ended
    BY <1>d DEF Fails, OnThread, Setup, OnProbe, Ended
  <2> QED BY <1>1, <1>d, <2>1, EndsStep DEF Fails
<1>e. CASE Panics(r)
  <2>1. OnThread(r) /\ "panicked" \in Ended
    BY <1>e DEF Panics, OnThread, Setup, OnProbe, Ended
  <2>2. poisoned' \subseteq JobNumbers
    BY <1>1, <1>e DEF Panics
  <2> QED BY <1>e, <2>1, <2>2, EndsStep DEF Panics
<1> QED BY <1>2, <1>3, <1>4, <1>5, <1>6, <1>7, <1>8, <1>9, <1>a, <1>b, <1>c,
           <1>d, <1>e DEF Run

LEMMA InvStutter == ASSUME IInv, UNCHANGED vars PROVE IInv'
BY DEF vars, IInv, TypeOK, Schedule, Joined, Group, Pool, Mutex

LEMMA InvStep == IInv /\ [Next]_vars => IInv'
<1> SUFFICES ASSUME IInv, [Next]_vars PROVE IInv'
  OBVIOUS
<1>1. CASE Backend
  BY <1>1, RecvStep, SpawnStep, AwaitsBarrierStep, PassesBarrierStep, JoinsStep,
     JoinPanicsStep, SendsStep DEF Backend
<1>2. CASE PoolStartsWaiter
  BY <1>2, PoolStartsWaiterStep
<1>3. CASE \E r \in Runs : Run(r)
  BY <1>3, RunInv
<1>4. CASE AtRest \/ UNCHANGED vars
  BY <1>4, InvStutter DEF AtRest
<1> QED BY <1>1, <1>2, <1>3, <1>4 DEF Next

LEMMA InvAlways == Spec => []IInv
BY InvInit, InvStep, PTL DEF Spec
-----------------------------------------------------------------------------
(* What the invariant is for.                                              *)
LEMMA StartsTogether == IInv => StartTogether
<1> SUFFICES ASSUME IInv, NEW r \in Runs, NEW s \in Runs,
                    run[r] = "live", s[1] = r[1]
             PROVE  run[s] \in {"barrier", "live"} \cup Ended
  BY DEF StartTogether
<1>1. r[1] = job
  BY AtWork DEF Ended
<1>2. wait_group = {}
  BY <1>1, Parts DEF Group
<1>3. run[s] \notin Setup \cup {"queued"}
  BY <1>1, <1>2, Parts DEF Group
<1>4. run[s] # "new"
  BY <1>1, <1>2, Parts DEF Group, Schedule
<1> QED BY <1>3, <1>4, Parts DEF States

LEMMA ListsAlone == IInv => ProbeListUnique
<1>1. \A r \in Runs : IInv /\ run[r] \in OnProbe => r[1] = job
  BY AtWork DEF OnProbe, Ended
<1> QED BY <1>1, Parts DEF ProbeListUnique, Mutex

LEMMA JobsApart == IInv => OneJobAtATime
BY AtWork DEF OneJobAtATime

LEMMA ResultsComplete == IInv => ResultsAreOwn
BY Parts DEF ResultsAreOwn, Schedule, Joined

(* No job has more runs at work than it has runs.                          *)
LEMMA RunsOfJob ==
  ASSUME NEW k \in JobNumbers, NEW B, \A r \in B : r \in Runs /\ r[1] = k
  PROVE  /\ IsFiniteSet(B) /\ Cardinality(B) \in Nat
         /\ Cardinality(B) <= RunCount[k] /\ RunCount[k] \in Nat
<1>1. RunCount[k] \in Nat
  BY RunFacts
<1>2. IsFiniteSet(1 .. RunCount[k]) /\ Cardinality(1 .. RunCount[k]) = RunCount[k]
  <2>1. IsFiniteSet(1 .. RunCount[k])
        /\ Cardinality(1 .. RunCount[k]) =
             IF 1 > RunCount[k] THEN 0 ELSE RunCount[k] - 1 + 1
    BY <1>1, FS_Interval
  <2> QED BY <1>1, <2>1
<1> DEFINE number == [r \in B |-> r[2]]
<1>3. number \in Injection(B, 1 .. RunCount[k])
  <2>1. \A r \in B : number[r] = r[2] /\ r[2] \in 1 .. RunCount[k]
    BY RunFacts
  <2>2. number \in [B -> 1 .. RunCount[k]]
    BY <2>1
  <2>3. ASSUME NEW r \in B, NEW s \in B, number[r] = number[s] PROVE r = s
    <3>1. r[2] = s[2] /\ r[2] \in 1 .. RunCount[k]
      BY <2>1, <2>3
    <3> QED BY <3>1, RunIsPair
  <2> QED BY <2>2, <2>3 DEF Injection, IsInjective
<1>4. IsFiniteSet(B) /\ Cardinality(B) <= Cardinality(1 .. RunCount[k])
  BY <1>2, <1>3, FS_Injection
<1> QED BY <1>1, <1>2, <1>4, FS_CardinalityType

LEMMA HasRoom == IInv => PoolHasRoom
<1> SUFFICES ASSUME IInv, job # 0, RunCount[job] < PoolSize, pool_queue # <<>>
             PROVE  ThreadsBusy < PoolSize
  BY DEF PoolHasRoom
<1> DEFINE B == {r \in Runs : OnThread(r)}
<1>1. job \in JobNumbers /\ PoolSize \in Nat
  BY Parts, RunFacts, ExecutionAssumption DEF TypeOK
<1>2. \A r \in B : r \in Runs /\ r[1] = job
  BY AtWork DEF OnThread, Setup, OnProbe, Ended
<1>3. /\ IsFiniteSet(B) /\ Cardinality(B) \in Nat
      /\ Cardinality(B) <= RunCount[job] /\ RunCount[job] \in Nat
  BY <1>1, <1>2, RunsOfJob
<1>4. ThreadsBusy = Cardinality(B) + (IF waiter = "waiting" THEN 1 ELSE 0)
  BY DEF ThreadsBusy
<1>5. Head(pool_queue) = pool_queue[1] /\ 1 \in DOMAIN pool_queue
  BY PoolTail
<1>6. Head(pool_queue) \in Runs \cup {Server}
  BY <1>5, Parts
<1>7. CASE Head(pool_queue) \in Runs     \* is a run of the job without a thread
  <2> DEFINE q == Head(pool_queue)
  <2>1. run[q] = "queued"
    BY <1>5, <1>7, Parts DEF Pool
  <2>2. q[1] = job /\ q \notin B
    BY <1>7, <2>1, AtWork DEF OnThread, Setup, OnProbe, Ended
  <2>3. Cardinality(B \cup {q}) <= RunCount[job]
    <3>1. \A r \in B \cup {q} : r \in Runs /\ r[1] = job
      BY <1>2, <1>7, <2>2
    <3> QED BY <1>1, <3>1, RunsOfJob
  <2>4. Cardinality(B \cup {q}) = Cardinality(B) + 1
    BY <1>3, <2>2, FS_AddElement
  <2> QED BY <1>1, <1>3, <1>4, <2>3, <2>4
<1>8. CASE Head(pool_queue) = Server      \* the waiter has no thread yet
  <2>1. waiter = "queued"
    BY <1>5, <1>8, Parts DEF Pool
  <2> QED BY <1>1, <1>3, <1>4, <2>1
<1> QED BY <1>6, <1>7, <1>8
-----------------------------------------------------------------------------
(* Every reachable state of the backend, the pool and the runs is of type. *)
THEOREM ExecutionTypeCorrect == Spec => []TypeOK
<1>1. IInv => TypeOK
  BY DEF IInv
<1> QED BY <1>1, InvAlways, PTL

(* No core is started while another target of the job is still being set   *)
(* up, however many targets there are and however the pool schedules the   *)
(* runs: the clone the backend keeps while it spawns, and the one every run*)
(* holds until it is ready, are what the WaitGroup waits for.              *)
THEOREM TargetsStartTogether == Spec => []StartTogether
BY StartsTogether, InvAlways, PTL

(* Two runs never list the probes at once, even of different jobs, each of *)
(* which has a mutex of its own: jobs do not overlap.                      *)
THEOREM ProbesAreOpenedAlone == Spec => []ProbeListUnique
BY ListsAlone, InvAlways, PTL

(* All runs of a job have ended when the next job is received.             *)
THEOREM JobsDoNotOverlap == Spec => []OneJobAtATime
BY JobsApart, InvAlways, PTL

(* A job result that is sent holds the outcome of each of its runs.        *)
THEOREM ResultsAreComplete == Spec => []ResultsAreOwn
BY ResultsComplete, InvAlways, PTL

(* A job with fewer runs than the pool has threads finds a thread for each *)
(* of them and for its waiter, whatever the jobs before it were.           *)
THEOREM FittingJobsFindThreads == Spec => []PoolHasRoom
BY HasRoom, InvAlways, PTL
-----------------------------------------------------------------------------
(* The same invariant survives the steps of JobShutdown.                   *)
LEMMA DroppedStep == ASSUME IInv, BackendDropped PROVE IInv'
<1> USE RunFacts DEF IInv, BackendDropped
<1>1. TypeOK'
  BY DEF TypeOK, Task
<1>2. Schedule'
  BY DEF Schedule, Joined, Task, TypeOK
<1>3. Group'
  BY DEF Group, Task
<1>4. Pool'
  BY DEF Pool, Task, TypeOK
<1>5. Mutex'
  BY DEF Mutex
<1> QED BY <1>1, <1>2, <1>3, <1>4, <1>5

(* A run that is cancelled at once was new before: it is in no queue, holds*)
(* no clone, and has not been joined.                                      *)
LEMMA SpawnsCancelledStep == ASSUME IInv, SpawnsCancelled PROVE IInv'
<1> DEFINE s == <<job, backend.next>>
<1>1. /\ backend.pc = "spawn" /\ backend.next <= RunCount[job]
      /\ run' = [run EXCEPT ![s] = "panicked"]
      /\ backend'.pc = "spawn" /\ backend'.next = backend.next + 1
      /\ backend' = [pc |-> "spawn", next |-> backend.next + 1]
      /\ UNCHANGED <<job, pool_queue, waiter, wait_group, probe_mutex, poisoned, result>>
  BY DEF SpawnsCancelled, Task
<1>2. /\ TypeOK /\ Schedule /\ Group /\ Pool /\ Mutex
      /\ job \in Nat /\ backend.next \in Nat
      /\ run \in [Runs -> States] /\ pool_queue \in Seq(Runs \cup {Server})
  BY Parts
<1>3. /\ job \in JobNumbers /\ backend.next \in 1 .. RunCount[job]
      /\ RunCount[job] \in Nat
      /\ s \in Runs /\ s[1] = job /\ s[2] = backend.next
      /\ \A r \in Runs : r[1] = job /\ r[2] = backend.next => r = s
  BY <1>1, <1>2, CurrentRun
<1> HIDE DEF s
<1>4. /\ run' \in [Runs -> States] /\ run'[s] = "panicked"
      /\ \A r \in Runs : r # s => run'[r] = run[r]
  BY <1>1, <1>2, <1>3 DEF States, Ended
<1>5. run[s] = "new"
  BY <1>1, <1>3, <1>2 DEF Schedule
<1>6. TypeOK'
  <2>1. backend' \in [pc : {"recv", "spawn", "barrier", "join", "dead"},
                      next : 1 .. (IF job = 0 THEN 1 ELSE RunCount[job] + 1)]
    BY <1>1, <1>3, RunFacts
  <2>2. job # 0
    BY <1>3, RunFacts
  <2> QED BY <1>1, <1>2, <1>4, <2>1, <2>2 DEF TypeOK, States
<1>7. Schedule'
  <2>1. \A r \in Runs : Joined(r) => r # s
    BY <1>5 DEF Joined
  <2>2. \A r \in Runs : Joined(r) => Joined(r)'
    BY <2>1, <1>4, <1>1 DEF Joined
  <2>3. \A r \in Runs : r[2] \in Nat
    BY RunFacts
  <2> QED BY <1>1, <1>2, <1>3, <1>4, <2>2, <2>3 DEF Schedule
<1>8. Group'
  BY <1>1, <1>2, <1>3, <1>4 DEF Group, Setup, OnProbe
<1>9. Pool'
  <2>1. \A i \in DOMAIN pool_queue : pool_queue[i] # s
    BY <1>2, <1>3, <1>5 DEF Pool
  <2> QED BY <1>1, <1>2, <1>4, <2>1 DEF Pool
<1>a. Mutex'
  BY <1>1, <1>2, <1>3, <1>4 DEF Mutex, OnProbe
<1> QED BY <1>6, <1>7, <1>8, <1>9, <1>a DEF IInv

LEMMA AwaitsCancelledStep == ASSUME IInv, AwaitsCancelled PROVE IInv'
<1> USE RunFacts DEF IInv, AwaitsCancelled, WaiterCancelled
<1>1. TypeOK'
  BY DEF TypeOK, Task
<1>2. Schedule'
  BY DEF Schedule, Joined, Task, TypeOK
<1>3. Group'
  BY DEF Group, Task
<1>4. Pool'
  BY DEF Pool, Task, TypeOK
<1>5. Mutex'
  BY DEF Mutex
<1> QED BY <1>1, <1>2, <1>3, <1>4, <1>5

LEMMA FailsToJoinWaiterStep == ASSUME IInv, FailsToJoinWaiter PROVE IInv'
<1> USE RunFacts DEF IInv, FailsToJoinWaiter
<1>1. TypeOK'
  BY DEF TypeOK, Task
<1>2. Schedule'
  BY DEF Schedule, Joined, Task, TypeOK
<1>3. Group'
  BY DEF Group, Task
<1>4. Pool'
  BY DEF Pool, Task, TypeOK
<1>5. Mutex'
  BY DEF Mutex
<1> QED BY <1>1, <1>2, <1>3, <1>4, <1>5

LEMMA WaiterDoneStep == ASSUME IInv, WaiterDone PROVE IInv'
<1> USE RunFacts DEF IInv, WaiterDone
<1>1. TypeOK'
  BY DEF TypeOK
<1>2. Schedule'
  BY DEF Schedule, Joined
<1>3. Group'
  BY DEF Group
<1>4. Pool'
  BY DEF Pool
<1>5. Mutex'
  BY DEF Mutex
<1> QED BY <1>1, <1>2, <1>3, <1>4, <1>5
-----------------------------------------------------------------------------
(* A task leaves the queue: what remains is still in it.                   *)
LEMMA RemainingPool ==
  ASSUME IInv, pool_queue # <<>>, pool_queue' = Tail(pool_queue)
  PROVE  /\ pool_queue' \in Seq(Runs \cup {Server})
         /\ 1 \in DOMAIN pool_queue /\ Head(pool_queue) = pool_queue[1]
         /\ \A i, j \in DOMAIN pool_queue' : pool_queue'[i] = pool_queue'[j] => i = j
         /\ \A i \in DOMAIN pool_queue' :
              /\ pool_queue'[i] # Head(pool_queue)
              /\ \E k \in DOMAIN pool_queue : pool_queue'[i] = pool_queue[k]
<1>1. Pool
  BY Parts
<1>2. /\ pool_queue' \in Seq(Runs \cup {Server})
      /\ 1 \in DOMAIN pool_queue /\ Head(pool_queue) = pool_queue[1]
      /\ \A i \in DOMAIN pool_queue' :
           /\ i + 1 \in DOMAIN pool_queue /\ i \in Nat /\ i + 1 # 1
           /\ pool_queue'[i] = pool_queue[i + 1]
  BY PoolTail
<1>3. \A i, j \in DOMAIN pool_queue : pool_queue[i] = pool_queue[j] => i = j
  BY <1>1 DEF Pool
<1>4. \A i, j \in DOMAIN pool_queue' : i + 1 = j + 1 => i = j
  BY <1>2
<1>5. \A i, j \in DOMAIN pool_queue' : pool_queue'[i] = pool_queue'[j] => i = j
  BY <1>2, <1>3, <1>4
<1>6. \A i \in DOMAIN pool_queue' : pool_queue'[i] # Head(pool_queue)
  BY <1>2, <1>3
<1> QED BY <1>2, <1>5, <1>6

LEMMA CancelsRunStep ==
  ASSUME IInv, NEW r \in Runs, CancelsRun(r) PROVE IInv'
<1>1. /\ pool_queue # <<>> /\ Head(pool_queue) = r
      /\ pool_queue' = Tail(pool_queue) /\ run' = [run EXCEPT ![r] = "panicked"]
      /\ wait_group' = wait_group \ {r}
      /\ probe_mutex' = [k \in JobNumbers |->
                           IF probe_mutex[k] = r THEN Free ELSE probe_mutex[k]]
      /\ UNCHANGED <<job, backend, waiter, poisoned, result>>
  BY DEF CancelsRun, EndsAs
<1>2. /\ TypeOK /\ Schedule /\ Group /\ Pool /\ Mutex
      /\ run \in [Runs -> States]
  BY Parts
<1>3. /\ pool_queue' \in Seq(Runs \cup {Server})
      /\ 1 \in DOMAIN pool_queue /\ r = pool_queue[1]
      /\ \A i, j \in DOMAIN pool_queue' : pool_queue'[i] = pool_queue'[j] => i = j
      /\ \A i \in DOMAIN pool_queue' :
           /\ pool_queue'[i] # r
           /\ \E k \in DOMAIN pool_queue : pool_queue'[i] = pool_queue[k]
  BY <1>1, RemainingPool
<1>4. run[r] = "queued"
  BY <1>2, <1>3 DEF Pool
<1>5. /\ run' \in [Runs -> States] /\ run'[r] = "panicked"
      /\ \A s \in Runs : s # r => run'[s] = run[s]
  BY <1>1, <1>2 DEF States, Ended
<1>6. probe_mutex' \in [JobNumbers -> Runs \cup {Free}]
  BY <1>1, <1>2 DEF TypeOK
<1>7. TypeOK'
  BY <1>1, <1>2, <1>3, <1>5, <1>6 DEF TypeOK, States
<1>8. Schedule'
  <2>1. r[1] = job
    BY <1>4, AtWork DEF Ended
  <2>2. \A s \in Runs : Joined(s) => s # r
    BY <1>4 DEF Joined
  <2>3. \A s \in Runs : Joined(s) => Joined(s)'
    BY <2>2, <1>1, <1>5 DEF Joined
  <2>4. /\ ~ (r[1] > job)
        /\ ~ (backend.pc = "spawn" /\ backend.next <= r[2])
    BY <1>2, <1>4, <2>1 DEF Schedule
  <2> QED BY <1>1, <1>2, <1>5, <2>3, <2>4 DEF Schedule
<1>9. Group'
  BY <1>1, <1>2, <1>5, RunFacts DEF Group, Setup, OnProbe
<1>a. Pool'
  <2>1. \A i \in DOMAIN pool_queue :
          /\ pool_queue[i] \in Runs => run[pool_queue[i]] = "queued"
          /\ pool_queue[i] = Server => backend.pc \in {"barrier", "dead"} /\ waiter = "queued"
    BY <1>2 DEF Pool
  <2>2. \A i \in DOMAIN pool_queue' :
          /\ pool_queue'[i] \in Runs => run'[pool_queue'[i]] = "queued"
          /\ pool_queue'[i] = Server => backend'.pc \in {"barrier", "dead"} /\ waiter' = "queued"
    BY <1>1, <1>3, <1>5, <2>1
  <2> QED BY <1>3, <2>2 DEF Pool
<1>b. Mutex'
  BY <1>1, <1>2, <1>5, RunFacts DEF Mutex, OnProbe
<1> QED BY <1>7, <1>8, <1>9, <1>a, <1>b DEF IInv

LEMMA CancelsWaiterStep == ASSUME IInv, CancelsWaiter PROVE IInv'
<1>1. /\ pool_queue # <<>> /\ Head(pool_queue) = Server
      /\ pool_queue' = Tail(pool_queue) /\ waiter' = "done"
      /\ wait_group' = wait_group \ {Server}
      /\ UNCHANGED <<job, backend, run, probe_mutex, poisoned, result>>
  BY DEF CancelsWaiter, WaiterCancelled
<1>2. TypeOK /\ Schedule /\ Group /\ Pool /\ Mutex
  BY Parts
<1>3. /\ pool_queue' \in Seq(Runs \cup {Server})
      /\ 1 \in DOMAIN pool_queue /\ Server = pool_queue[1]
      /\ \A i, j \in DOMAIN pool_queue' : pool_queue'[i] = pool_queue'[j] => i = j
      /\ \A i \in DOMAIN pool_queue' :
           /\ pool_queue'[i] # Server
           /\ \E k \in DOMAIN pool_queue : pool_queue'[i] = pool_queue[k]
  BY <1>1, RemainingPool
<1>4. backend.pc \in {"barrier", "dead"}
  BY <1>2, <1>3 DEF Pool
<1>5. TypeOK'
  BY <1>1, <1>2, <1>3 DEF TypeOK
<1>6. Schedule'
  BY <1>1, <1>2 DEF Schedule, Joined
<1>7. Group'
  BY <1>1, <1>2, <1>4, RunFacts DEF Group
<1>8. Pool'
  <2>1. \A i \in DOMAIN pool_queue :
          pool_queue[i] \in Runs => run[pool_queue[i]] = "queued"
    BY <1>2 DEF Pool
  <2> QED BY <1>1, <1>3, <2>1 DEF Pool
<1>9. Mutex'
  BY <1>1, <1>2 DEF Mutex
<1> QED BY <1>5, <1>6, <1>7, <1>8, <1>9 DEF IInv
-----------------------------------------------------------------------------
LEMMA ShutdownInv == ShutdownSpec => []IInv
<1>1. ShutdownInit => IInv
  BY InvInit DEF ShutdownInit
<1>2. IInv /\ [ShutdownNext]_shutdownVars => IInv'
  <2> SUFFICES ASSUME IInv, [ShutdownNext]_shutdownVars PROVE IInv'
    OBVIOUS
  <2>1. CASE Next
    BY <2>1, InvStep
  <2>2. CASE BackendStops
    BY <2>2, DroppedStep, SpawnsCancelledStep, AwaitsCancelledStep,
       FailsToJoinWaiterStep DEF BackendStops
  <2>3. CASE CancelsWaiter \/ WaiterDone
    BY <2>3, CancelsWaiterStep, WaiterDoneStep
  <2>4. CASE \E r \in Runs : CancelsRun(r)
    BY <2>4, CancelsRunStep
  <2>5. CASE UNCHANGED vars
    BY <2>5, InvStutter
  <2>6. CtrlC \/ Down \/ UNCHANGED shutdownVars => UNCHANGED vars
    BY DEF CtrlC, Down, shutdownVars
  <2> QED BY <2>1, <2>2, <2>3, <2>4, <2>5, <2>6 DEF ShutdownNext
<1> QED BY <1>1, <1>2, PTL DEF ShutdownSpec

(* Ctrl-C at any moment neither starts a core whose job has a target that  *)
(* is still being set up (cancelled runs have ended) ...                   *)
THEOREM ShutdownKeepsTargetsTogether == ShutdownSpec => []StartTogether
BY StartsTogether, ShutdownInv, PTL

(* ... nor lets an incomplete job result out: a backend that comes to a    *)
(* cancelled run before it is dropped panics on it ...                     *)
THEOREM ShutdownKeepsResultsComplete == ShutdownSpec => []ResultsAreOwn
BY ResultsComplete, ShutdownInv, PTL

(* ... nor lets two runs list the probes at once ...                       *)
THEOREM ShutdownKeepsProbesAlone == ShutdownSpec => []ProbeListUnique
BY ListsAlone, ShutdownInv, PTL

(* ... nor starts a job while one before it is at work ...                 *)
THEOREM ShutdownKeepsJobsApart == ShutdownSpec => []OneJobAtATime
BY JobsApart, ShutdownInv, PTL

(* ... nor keeps a job that fits the pool from its threads, so that what is*)
(* queued is taken or cancelled.                                           *)
THEOREM ShutdownKeepsRoom == ShutdownSpec => []PoolHasRoom
BY HasRoom, ShutdownInv, PTL

(* The state stays of type as well.                                        *)
THEOREM ShutdownTypeCorrect == ShutdownSpec => []TypeOK
<1>1. IInv => TypeOK
  BY DEF IInv
<1> QED BY <1>1, ShutdownInv, PTL
=============================================================================
