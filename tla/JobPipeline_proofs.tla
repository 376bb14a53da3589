------------------------ MODULE JobPipeline_proofs ------------------------
(***************************************************************************)
(* Theorems about JobPipeline, for every set of jobs and requests, every   *)
(* capacity and every number of worker threads.                            *)
(***************************************************************************)
EXTENDS JobPipeline, SequenceFacts, TLAPS

(* The operations of the status record return a status record.             *)
LEMMA StatusOperations ==
  ASSUME NEW s \in Status!ServerStatusType(Jobs), NEW j \in Jobs
  PROVE  /\ Status!JobEnqueued(s, j) \in Status!ServerStatusType(Jobs)
         /\ s.jobs_in_queue # <<>> =>
              Status!JobStarted(s, j) \in Status!ServerStatusType(Jobs)
         /\ Status!JobFinished(s, j) \in Status!ServerStatusType(Jobs)
         /\ \A id : Status!JobCleared(s, id) \in Status!ServerStatusType(Jobs)
<1>1. /\ s.current_job \in Jobs \cup {NoJob}
      /\ s.jobs_in_queue \in Seq(Jobs)
      /\ s.jobs_finished \in SUBSET Jobs
  BY DEF Status!ServerStatusType
<1>2. Append(s.jobs_in_queue, j) \in Seq(Jobs)
  BY <1>1
<1>3. s.jobs_in_queue # <<>> => Tail(s.jobs_in_queue) \in Seq(Jobs)
  BY <1>1
<1> QED
  BY <1>1, <1>2, <1>3 DEF Status!ServerStatusType, Status!JobEnqueued,
     Status!JobStarted, Status!JobFinished, Status!JobCleared
(* Init, and one step per action.                                          *)
LEMMA TypeInit == Init => TypeOK
BY PipelineAssumption DEF Init, TypeOK, Request, Task, Mutexes,
   Status!EmptyStatus, Status!ServerStatusType

LEMMA TypeStep == TypeOK /\ [Next]_vars => TypeOK'
<1> SUFFICES ASSUME TypeOK, [Next]_vars PROVE TypeOK'
  OBVIOUS
<1>0. \A seq \in Seq(Jobs) : seq # <<>> => /\ Head(seq) \in Jobs
                                          /\ Tail(seq) \in Seq(Jobs)
  OBVIOUS
<1>c. /\ backend.pc \in {"start", "run", "send", "finish"} => backend.job \in Jobs
      /\ collector.pc \in {"push", "clear"} => collector.job \in Jobs
  BY DEF TypeOK
<1> USE DEF shared, channels, history
<1>1. ASSUME NEW j \in Jobs, PostInvalid(j) PROVE TypeOK'
  BY <1>1 DEF TypeOK, PostInvalid
<1>2. ASSUME NEW j \in Jobs, PostClosed(j) PROVE TypeOK'
  BY <1>2 DEF TypeOK, PostClosed
<1>3. ASSUME NEW j \in Jobs, PostTooMany(j) PROVE TypeOK'
  BY <1>3 DEF TypeOK, PostTooMany
<1>4. ASSUME NEW j \in Jobs, PostPanic(j) PROVE TypeOK'
  BY <1>4 DEF TypeOK, PostPanic
<1>5. ASSUME NEW j \in Jobs, PostSend(j) PROVE TypeOK'
  BY <1>5 DEF TypeOK, PostSend
<1>6. ASSUME NEW j \in Jobs, PostEnqueue(j) PROVE TypeOK'
  BY <1>6, StatusOperations DEF TypeOK, PostEnqueue
<1>7. ASSUME NEW g \in Gets, NEW id \in Jobs, GetStatus(g, id) PROVE TypeOK'
  <2>1. get' \in [Gets -> [pc : {"new", "answered", "panicked"}, id : {NoJob}]
                            \cup [pc : {"find"}, id : Jobs]]
    BY <1>7 DEF TypeOK, GetStatus, Request
  <2>2. holder' \in [Mutexes -> Gets \cup {"collector", Free}]
    BY <1>7 DEF TypeOK, GetStatus, Mutexes
  <2> QED
    BY <1>7, <2>1, <2>2 DEF TypeOK, GetStatus
<1>8. ASSUME NEW g \in Gets, GetPanic(g) PROVE TypeOK'
  BY <1>8 DEF TypeOK, Request, GetPanic
<1>9. ASSUME NEW g \in Gets, GetFind(g) PROVE TypeOK'
  BY <1>9 DEF TypeOK, Request, Mutexes, GetFind
<1>10. ASSUME NEW g \in Gets, GetUnreachable(g) PROVE TypeOK'
  BY <1>10 DEF TypeOK, Request, Mutexes, GetUnreachable
<1>11. CASE BackendRecv
  BY <1>0, <1>11 DEF TypeOK, Task, BackendDies, BackendRecv
<1>12. CASE BackendStart
  BY <1>0, <1>12, StatusOperations, <1>c DEF TypeOK, Task, BackendDies, BackendStart, Status!JobStartedPanics
<1>13. CASE BackendStartPanic
  BY <1>13 DEF TypeOK, Task, Mutexes, BackendDies, BackendStartPanic
<1>14. CASE BackendRuns
  BY <1>14, <1>c DEF TypeOK, Task, BackendDies, BackendRuns
<1>15. CASE BackendRunsPanic
  BY <1>15 DEF TypeOK, Task, BackendDies, BackendRunsPanic
<1>16. CASE BackendSend
  BY <1>16, <1>c DEF TypeOK, Task, BackendDies, BackendSend
<1>17. CASE BackendSendFails
  BY <1>17 DEF TypeOK, Task, BackendDies, BackendSendFails
<1>18. CASE BackendFinish
  BY <1>18, StatusOperations, <1>c DEF TypeOK, Task, BackendDies, BackendFinish
<1>19. CASE BackendFinishPanic
  BY <1>19 DEF TypeOK, Task, BackendDies, BackendFinishPanic
<1>20. CASE CollectorRecv
  BY <1>0, <1>20 DEF TypeOK, Task, CollectorDies, CollectorRecv
<1>21. CASE CollectorRecvPanic
  BY <1>21 DEF TypeOK, Task, CollectorDies, CollectorRecvPanic
<1>22. CASE CollectorPush
  BY <1>22, <1>c DEF TypeOK, Task, CollectorDies, CollectorPush
<1>23. CASE CollectorEvict
  <2>1. finished_job_queue' \in Seq(Jobs) /\ cleared' \in Seq(Jobs)
    <3>1. finished_job_queue # <<>>
      BY <1>23, PipelineAssumption DEF TypeOK, CollectorEvict
    <3> QED
      BY <3>1, <1>0, <1>23 DEF TypeOK, CollectorEvict
  <2>2. holder' \in [Mutexes -> Gets \cup {"collector", Free}]
    BY <1>23 DEF TypeOK, CollectorEvict, Mutexes
  <2> QED
    BY <1>23, <1>c, <2>1, <2>2 DEF TypeOK, CollectorEvict, Task
<1>24. CASE CollectorPushPanic
  BY <1>24 DEF TypeOK, Task, CollectorDies, CollectorPushPanic
<1>25. CASE CollectorClear
  BY <1>25, StatusOperations, <1>c DEF TypeOK, Task, CollectorDies, Mutexes, CollectorClear
<1>26. CASE CollectorClearPanic
  BY <1>26 DEF TypeOK, Task, CollectorDies, Mutexes, CollectorClearPanic
<1>27. CASE AtRest \/ UNCHANGED vars
  BY <1>27 DEF TypeOK, AtRest, vars
<1> QED
  BY <1>1, <1>2, <1>3, <1>4, <1>5, <1>6, <1>7, <1>8, <1>9, <1>10, <1>11, <1>12, <1>13, <1>14, <1>15, <1>16, <1>17, <1>18, <1>19, <1>20, <1>21, <1>22, <1>23, <1>24, <1>25, <1>26, <1>27 DEF Next, Post, Get, Backend, Collector

THEOREM TypeCorrect == Spec => []TypeOK
BY TypeInit, TypeStep, PTL DEF Spec
-----------------------------------------------------------------------------
(* Only three steps of the collector write the result queue and the list of*)
(* dropped results, and only CollectorEvict leads to "clear".              *)
LEMMA QueueWriters ==
  ASSUME [Next]_vars
  PROVE  \/ CollectorPush \/ CollectorEvict \/ CollectorClear
         \/ /\ UNCHANGED <<finished_job_queue, cleared>>
            /\ collector'.pc = "clear" => UNCHANGED collector
<1> USE DEF shared, channels, history
<1>1. CASE UNCHANGED vars
  BY <1>1 DEF vars
<1>2. ASSUME NEW j \in Jobs, Post(j)
      PROVE  UNCHANGED <<finished_job_queue, cleared, collector>>
  BY <1>2 DEF Post, PostInvalid, PostClosed, PostTooMany, PostSend, PostEnqueue, PostPanic
<1>3. ASSUME NEW g \in Gets, Get(g)
      PROVE  UNCHANGED <<finished_job_queue, cleared, collector>>
  BY <1>3 DEF Get, GetStatus, GetPanic, GetFind, GetUnreachable
<1>4. ASSUME Backend
      PROVE  UNCHANGED <<finished_job_queue, cleared, collector>>
  BY <1>4 DEF Backend, BackendRecv, BackendStart, BackendStartPanic, BackendRuns,
     BackendRunsPanic, BackendSend, BackendSendFails, BackendFinish, BackendFinishPanic
<1>5. ASSUME CollectorRecv \/ CollectorRecvPanic \/ CollectorPushPanic \/ CollectorClearPanic
      PROVE  UNCHANGED <<finished_job_queue, cleared>> /\ collector'.pc # "clear"
  BY <1>5 DEF CollectorRecv, CollectorRecvPanic, CollectorPushPanic,
     CollectorClearPanic, CollectorDies, Task
<1>6. CASE AtRest
  BY <1>6 DEF AtRest, vars
<1> QED
  BY <1>1, <1>2, <1>3, <1>4, <1>5, <1>6 DEF Next, Collector

LEMMA BoundedInit == Init => QueueBounded
BY PipelineAssumption DEF Init, QueueBounded, Task

LEMMA BoundedStep ==
  ASSUME TypeOK, QueueBounded, [Next]_vars
  PROVE  QueueBounded'
<1> USE PipelineAssumption DEF TypeOK, QueueBounded, Task
<1>1. CASE CollectorPush
  BY <1>1 DEF CollectorPush
<1>2. CASE CollectorEvict
  BY <1>2 DEF CollectorEvict
<1>3. CASE CollectorClear
  <2>1. Len(finished_job_queue') = MaxJobs /\ collector'.pc = "recv"
    BY <1>3 DEF CollectorClear
  <2> QED
    BY <2>1
<1>4. CASE /\ UNCHANGED <<finished_job_queue, cleared>>
           /\ collector'.pc = "clear" => UNCHANGED collector
  BY <1>4
<1> QED
  BY <1>1, <1>2, <1>3, <1>4, QueueWriters

(* The result queue never holds more than MaxJobs results, and exactly one *)
(* less while an eviction waits for the status mutex: `Ordering::Greater`  *)
(* is unreachable (app.rs:136-149).                                        *)
THEOREM QueueIsBounded == Spec => []QueueBounded
<1>1. TypeOK /\ QueueBounded /\ [Next]_vars => QueueBounded'
  BY BoundedStep
<1> QED
  BY <1>1, BoundedInit, TypeCorrect, PTL DEF Spec
-----------------------------------------------------------------------------
LEMMA PoisonedFirstInit == Init => StatusPoisonedFirst
BY DEF Init, StatusPoisonedFirst, Poisoned

LEMMA PoisonedFirstStep ==
  ASSUME StatusPoisonedFirst, [Next]_vars
  PROVE  StatusPoisonedFirst'
<1> USE DEF StatusPoisonedFirst, Poisoned, shared, channels, history
<1>1. CASE UNCHANGED poisoned
  BY <1>1
<1>2. ASSUME NEW g \in Gets, GetUnreachable(g) PROVE StatusPoisonedFirst'
  BY <1>2 DEF GetUnreachable, Mutexes
<1>3. CASE BackendStartPanic
  BY <1>3 DEF BackendStartPanic
<1>4. CASE CollectorClearPanic
  BY <1>4 DEF CollectorClearPanic
<1>5. ASSUME NEW j \in Jobs, Post(j) PROVE UNCHANGED poisoned
  BY <1>5 DEF Post, PostInvalid, PostClosed, PostTooMany, PostSend, PostEnqueue, PostPanic
<1>6. ASSUME NEW g \in Gets, Get(g), ~ GetUnreachable(g) PROVE UNCHANGED poisoned
  BY <1>6 DEF Get, GetStatus, GetPanic, GetFind
<1>7. ASSUME Backend, ~ BackendStartPanic PROVE UNCHANGED poisoned
  BY <1>7 DEF Backend, BackendRecv, BackendStart, BackendRuns, BackendRunsPanic,
     BackendSend, BackendSendFails, BackendFinish, BackendFinishPanic
<1>8. ASSUME Collector, ~ CollectorClearPanic PROVE UNCHANGED poisoned
  BY <1>8 DEF Collector, CollectorRecv, CollectorRecvPanic, CollectorPush,
     CollectorEvict, CollectorPushPanic, CollectorClear
<1>9. CASE AtRest \/ UNCHANGED vars
  BY <1>1, <1>9 DEF AtRest, vars
<1> QED
  BY <1>1, <1>2, <1>3, <1>4, <1>5, <1>6, <1>7, <1>8, <1>9 DEF Next

(* A handler that has the status guard never meets a poisoned queue: the   *)
(* only step that poisons the queue alone finds the status mutex poisoned  *)
(* already (routes.rs:60-70, app.rs:141).                                  *)
THEOREM StatusIsPoisonedFirst == Spec => []StatusPoisonedFirst
<1>1. StatusPoisonedFirst /\ [Next]_vars => StatusPoisonedFirst'
  BY PoisonedFirstStep
<1> QED
  BY <1>1, PoisonedFirstInit, PTL DEF Spec
-----------------------------------------------------------------------------
(* How a step changes the line while the collector lives.  It stays what it*)
(* is, or the accepted job joins at its end, or the death of `run` cuts the*)
(* jobs off that were not published yet.                                   *)
LEMMA LineParts ==
  ASSUME TypeOK
  PROVE  /\ InCollector \in Seq(Jobs) /\ InBackend \in Seq(Jobs)
         /\ Results \in Seq(Jobs) /\ cleared \o Results \in Seq(Jobs)
         /\ Line \in Seq(Jobs)
<1>1. InCollector \in Seq(Jobs) /\ InBackend \in Seq(Jobs)
  BY DEF TypeOK, InCollector, InBackend
<1>2. Results \in Seq(Jobs)
  BY <1>1, ConcatProperties DEF TypeOK, Results
<1>3. cleared \o Results \in Seq(Jobs)
  BY <1>2, ConcatProperties DEF TypeOK
<1>4. Line \in Seq(Jobs)
  BY <1>1, <1>3, ConcatProperties DEF TypeOK, Line
<1> QED
  BY <1>1, <1>2, <1>3, <1>4

LEMMA LinePushes ==
  ASSUME TypeOK, CollectorPush \/ CollectorClear
  PROVE  Line' = Line /\ Results' = Results
<1> DEFINE q == finished_job_queue
           f == finished_job
           one == <<collector.job>>
<1>1. /\ collector.job \in Jobs /\ q \in Seq(Jobs) /\ f \in Seq(Jobs)
      /\ InCollector = one /\ InCollector' = <<>>
      /\ q' = Append(q, collector.job) /\ f' = f
      /\ UNCHANGED <<cleared, InBackend, register_job>>
  BY DEF CollectorPush, CollectorClear, TypeOK, InCollector, InBackend, Task,
     shared, channels, history
<1>2. q' = q \o one /\ one \in Seq(Jobs) /\ q \o one \in Seq(Jobs)
  BY <1>1, AppendIsConcatOne, ConcatProperties
<1>3. Results' = (q \o one) \o f
  BY <1>1, <1>2, ConcatEmptySeq DEF Results
<1>4. Results' = Results
  BY <1>1, <1>3 DEF Results
<1> QED
  BY <1>1, <1>4 DEF Line

LEMMA LineReceives ==
  ASSUME TypeOK, CollectorRecv
  PROVE  Line' = Line /\ Results' = Results
<1> DEFINE q == finished_job_queue
           f == finished_job
<1>1. /\ q \in Seq(Jobs) /\ f \in Seq(Jobs) /\ f # <<>>
      /\ InCollector = <<>> /\ InCollector' = <<Head(f)>>
      /\ q' = q /\ f' = Tail(f)
      /\ UNCHANGED <<cleared, InBackend, register_job>>
  BY DEF CollectorRecv, TypeOK, InCollector, InBackend, Task, shared, channels, history
<1>2. Results' = (q \o <<Head(f)>>) \o Tail(f)
  BY <1>1 DEF Results
<1>3. Results = q \o f
  BY <1>1, ConcatEmptySeq DEF Results
<1>4. Results' = Results
  BY <1>1, <1>2, <1>3, HeadMovesOn
<1> QED
  BY <1>1, <1>4 DEF Line

LEMMA LineEvicts ==
  ASSUME TypeOK, CollectorEvict
  PROVE  Line' = Line /\ (cleared \o Results)' = cleared \o Results
<1> DEFINE q == finished_job_queue
           f == finished_job
           c == cleared
           one == <<collector.job>>
<1>1. /\ q \in Seq(Jobs) /\ f \in Seq(Jobs) /\ c \in Seq(Jobs) /\ one \in Seq(Jobs)
      /\ InCollector = one /\ InCollector' = one
      /\ q' = Tail(q) /\ f' = f /\ c' = Append(c, Head(q))
      /\ UNCHANGED <<InBackend, register_job>>
  BY DEF CollectorEvict, TypeOK, InCollector, InBackend, Task, shared, channels, history
<1>2. q # <<>>
  BY PipelineAssumption, EmptySeq DEF CollectorEvict, TypeOK
<1>3. Append(c, Head(q)) \o ((Tail(q) \o one) \o f) = c \o ((q \o one) \o f)
  <2>1. /\ q \in Seq(Jobs) /\ f \in Seq(Jobs) /\ c \in Seq(Jobs)
        /\ one \in Seq(Jobs) /\ q # <<>>
    BY <1>1, <1>2
  <2> HIDE DEF q, f, c, one
  <2> QED
    BY ONLY <2>1, EvictionKeepsOrder, SMTT(60)
<1>4. (cleared \o Results)' = Append(c, Head(q)) \o ((Tail(q) \o one) \o f)
  BY <1>1 DEF Results
<1>5. cleared \o Results = c \o ((q \o one) \o f)
  BY <1>1 DEF Results
<1> QED
  BY <1>1, <1>3, <1>4, <1>5 DEF Line

LEMMA LineBegins ==
  ASSUME TypeOK, BackendRecv
  PROVE  Line' = Line /\ Results' = Results
<1> DEFINE w == cleared \o Results
           r == register_job
<1>1. /\ r \in Seq(Jobs) /\ r # <<>>
      /\ InBackend = <<>> /\ InBackend' = <<Head(r)>> /\ r' = Tail(r)
      /\ UNCHANGED <<cleared, finished_job_queue, InCollector, finished_job>>
  BY DEF BackendRecv, TypeOK, InBackend, InCollector, Task, shared, history
<1>2. w' = w
  BY <1>1 DEF Results
<1>3. w \in Seq(Jobs)
  BY LineParts
<1>4. Line' = (w \o <<Head(r)>>) \o Tail(r)
  BY <1>1, <1>2 DEF Line
<1>5. Line = w \o r
  BY <1>1, <1>3, ConcatEmptySeq DEF Line
<1>6. Results' = Results
  BY <1>1 DEF Results
<1> HIDE DEF w, r
<1>7. (w \o <<Head(r)>>) \o Tail(r) = w \o r
  BY <1>1, <1>3, HeadMovesOn
<1> QED
  BY <1>4, <1>5, <1>6, <1>7

LEMMA LineSends ==
  ASSUME TypeOK, BackendSend
  PROVE  /\ Line' = Line
         /\ Results' = Append(Results, backend.job)
         /\ (cleared \o Results)' = (cleared \o Results) \o <<backend.job>>
<1> DEFINE p == finished_job_queue \o InCollector
           f == finished_job
           j == backend.job
<1>1. /\ j \in Jobs /\ f \in Seq(Jobs) /\ cleared \in Seq(Jobs)
      /\ finished_job_queue \in Seq(Jobs)
      /\ InBackend = <<j>> /\ InBackend' = <<>> /\ f' = Append(f, j)
      /\ UNCHANGED <<cleared, finished_job_queue, InCollector, register_job>>
  BY DEF BackendSend, TypeOK, InBackend, InCollector, Task, shared, history
<1>2. p \in Seq(Jobs) /\ p' = p
  BY <1>1, LineParts, ConcatProperties
<1>3. Results = p \o f /\ Results' = p \o Append(f, j)
  BY <1>1, <1>2 DEF Results
<1>4. cleared \o (p \o Append(f, j)) = (cleared \o (p \o f)) \o <<j>>
  <2>1. /\ cleared \in Seq(Jobs) /\ p \in Seq(Jobs) /\ f \in Seq(Jobs)
        /\ j \in Jobs
    BY <1>1, <1>2
  <2> HIDE DEF p, f, j
  <2> QED
    BY ONLY <2>1, SendingKeepsOrder
<1>5. Append(f, j) \in Seq(Jobs)
  BY <1>1, AppendProperties
<1>6. cleared \o (p \o Append(f, j)) \in Seq(Jobs)
  <2>1. p \o Append(f, j) \in Seq(Jobs)
    BY <1>2, <1>5, ConcatProperties
  <2> QED
    BY <1>1, <2>1, ConcatProperties
<1>7. Line' = ((cleared \o (p \o Append(f, j))) \o <<>>) \o register_job
  BY <1>1, <1>3 DEF Line
<1>8. Line = ((cleared \o (p \o f)) \o <<j>>) \o register_job
  BY <1>1, <1>3 DEF Line
<1>9. (cleared \o (p \o Append(f, j))) \o <<>> = cleared \o (p \o Append(f, j))
  BY <1>6, ConcatEmptySeq
<1>10. p \o Append(f, j) = Append(p \o f, j)
  <2>1. p \in Seq(Jobs) /\ f \in Seq(Jobs) /\ j \in Jobs
    BY <1>1, <1>2
  <2> HIDE DEF p, f, j
  <2> QED
    BY ONLY <2>1, AppendToConcat
<1>11. Results' = Append(Results, j)
  BY <1>3, <1>10
<1>12. (cleared \o Results)' = (cleared \o Results) \o <<j>>
  BY <1>1, <1>3, <1>4
<1> QED
  BY <1>4, <1>7, <1>8, <1>9, <1>11, <1>12

LEMMA LineAccepts ==
  ASSUME TypeOK, NEW j \in Jobs, PostSend(j)
  PROVE  Line' = Append(Line, j) /\ UNCHANGED <<cleared, Results>>
<1> DEFINE w == cleared \o Results \o InBackend
           r == register_job
<1>1. /\ r \in Seq(Jobs) /\ r' = Append(r, j)
      /\ UNCHANGED <<cleared, finished_job_queue, InCollector, finished_job, InBackend>>
  BY DEF PostSend, TypeOK, InBackend, InCollector, shared
<1>2. w' = w
  BY <1>1 DEF Results
<1>3. w \in Seq(Jobs)
  BY LineParts, ConcatProperties
<1>4. Line' = w \o Append(r, j) /\ Line = w \o r
  BY <1>1, <1>2 DEF Line
<1>5. UNCHANGED <<cleared, Results>>
  BY <1>1 DEF Results
<1> HIDE DEF w, r
<1>6. w \o Append(r, j) = Append(w \o r, j)
  BY <1>1, <1>3, AppendToConcat
<1> QED
  BY <1>4, <1>5, <1>6
(* The death of `run` drops its job and the jobs in `register_job`.        *)
LEMMA LineIsCut ==
  ASSUME TypeOK, BackendStartPanic \/ BackendRunsPanic \/ BackendFinishPanic
  PROVE  /\ IsPrefix(Line', Line)
         /\ backend.pc # "dead" /\ backend'.pc = "dead"
         /\ UNCHANGED <<collector, accepted, cleared, Results>>
<1> DEFINE w == cleared \o Results
<1>1. /\ InBackend' = <<>> /\ register_job' = <<>>
      /\ backend.pc # "dead" /\ backend'.pc = "dead"
      /\ UNCHANGED <<cleared, finished_job_queue, InCollector, finished_job,
                     collector, accepted>>
  BY DEF BackendStartPanic, BackendRunsPanic, BackendFinishPanic, BackendDies,
     InBackend, InCollector, Task, shared, history
<1>2. w' = w /\ w \in Seq(Jobs)
  BY <1>1, LineParts DEF Results
<1>3. Line' = w
  <2>1. Line' = (w \o <<>>) \o <<>>
    BY <1>1, <1>2 DEF Line
  <2> QED
    BY <1>2, <2>1, ConcatEmptySeq
<1>4. PICK b \in Seq(Jobs) : b = InBackend
  BY LineParts
<1>5. PICK r \in Seq(Jobs) : r = register_job
  BY DEF TypeOK
<1>6. Line = w \o (b \o r)
  <2>1. PICK v \in Seq(Jobs) : v = w
    BY <1>2
  <2>2. PICK vb \in Seq(Jobs) : Joins(Jobs, v, b, vb)
    BY JoinsExists
  <2>3. PICK br \in Seq(Jobs) : Joins(Jobs, b, r, br)
    BY JoinsExists
  <2>4. PICK vbr \in Seq(Jobs) : Joins(Jobs, vb, r, vbr)
    BY JoinsExists
  <2>5. Joins(Jobs, v, br, vbr)
    BY <2>2, <2>3, <2>4, Assoc
  <2> QED
    BY <1>4, <1>5, <2>1, <2>2, <2>3, <2>4, <2>5 DEF Line, Joins
<1>7. b \o r \in Seq(Jobs)
  BY ConcatProperties
<1>8. Results' = Results
  BY <1>1 DEF Results
<1> HIDE DEF w
<1> QED
  BY <1>1, <1>2, <1>3, <1>6, <1>7, <1>8, PrefixOfConcat

(* The steps that neither move a job along the line nor end a task.        *)
LEMMA LineStays ==
  ASSUME TypeOK,
         \/ \E j \in Jobs : Post(j) /\ ~ PostSend(j)
         \/ \E g \in Gets : Get(g)
         \/ BackendStart \/ BackendRuns \/ BackendFinish
         \/ AtRest \/ UNCHANGED vars
  PROVE  /\ Line' = Line /\ UNCHANGED <<accepted, collector, cleared, Results>>
         /\ backend'.pc = "dead" <=> backend.pc = "dead"
<1> USE DEF shared, channels, history
<1> DEFINE Same == UNCHANGED <<cleared, finished_job_queue, finished_job, register_job,
                               collector, accepted>>
<1>1. ASSUME NEW j \in Jobs, Post(j), ~ PostSend(j) PROVE Same /\ UNCHANGED backend
  BY <1>1 DEF Post, PostInvalid, PostClosed, PostTooMany, PostEnqueue, PostPanic
<1>2. ASSUME NEW g \in Gets, Get(g) PROVE Same /\ UNCHANGED backend
  BY <1>2 DEF Get, GetStatus, GetPanic, GetFind, GetUnreachable
<1>3. CASE AtRest \/ UNCHANGED vars
  BY <1>3 DEF AtRest, vars, Line, Results, InBackend, InCollector
<1>4. ASSUME BackendStart \/ BackendRuns \/ BackendFinish
      PROVE  Same /\ UNCHANGED InBackend /\ backend.pc # "dead" /\ backend'.pc # "dead"
  BY <1>4 DEF BackendStart, BackendRuns, BackendFinish, InBackend, Task
<1>5. ASSUME Same, UNCHANGED InBackend PROVE Line' = Line /\ Results' = Results
  BY <1>5 DEF Line, Results, InCollector
<1>6. UNCHANGED backend => UNCHANGED InBackend
  BY DEF InBackend
<1> QED
  BY <1>1, <1>2, <1>3, <1>4, <1>5, <1>6

LEMMA OrderInit == Init => FirstComeFirstServed
<1> SUFFICES ASSUME Init PROVE FirstComeFirstServed
  OBVIOUS
<1>1. Line = <<>> /\ accepted = <<>>
  BY DEF Init, Line, Results, InBackend, InCollector, Task
<1>2. IsPrefix(<<>>, <<>>)
  BY PrefixReflexive, EmptySeq
<1> QED
  BY <1>1, <1>2 DEF FirstComeFirstServed

LEMMA OrderStep ==
  ASSUME TypeOK, TypeOK', FirstComeFirstServed, [Next]_vars
  PROVE  FirstComeFirstServed'
<1> USE DEF FirstComeFirstServed
<1>1. CASE Line' = Line /\ UNCHANGED accepted /\ collector.pc # "dead"
           /\ (backend'.pc # "dead" => backend.pc # "dead")
  BY <1>1
<1>2. CASE collector'.pc = "dead"
  BY <1>2
<1>3. ASSUME NEW j \in Jobs, PostSend(j) PROVE FirstComeFirstServed'
  <2>1. /\ backend.pc # "dead" /\ UNCHANGED collector
        /\ accepted' = Append(accepted, j) /\ Line' = Append(Line, j)
    BY <1>3, LineAccepts DEF PostSend, shared
  <2>2. IsPrefix(accepted', accepted')
    BY PrefixReflexive DEF TypeOK
  <2> QED
    BY <2>1, <2>2
<1>4. CASE BackendStartPanic \/ BackendRunsPanic \/ BackendFinishPanic
  <2>1. /\ IsPrefix(Line', Line) /\ UNCHANGED <<collector, accepted>>
        /\ backend.pc # "dead" /\ backend'.pc = "dead"
    BY <1>4, LineIsCut
  <2> QED
    BY <2>1
<1>5. CASE BackendRecv \/ BackendSend
  BY <1>1, <1>2, <1>5, LineBegins, LineSends DEF BackendRecv, BackendSend,
     history, shared
<1>6. CASE BackendSendFails
  BY <1>2, <1>6 DEF BackendSendFails
<1>7. CASE CollectorRecv \/ CollectorPush \/ CollectorEvict \/ CollectorClear
  <2>1. Line' = Line
    BY <1>7, LineReceives, LinePushes, LineEvicts
  <2>2. UNCHANGED <<accepted, backend>> /\ collector.pc # "dead"
    BY <1>7 DEF CollectorRecv, CollectorPush, CollectorEvict, CollectorClear,
       history, shared
  <2> QED
    BY <1>1, <2>1, <2>2
<1>8. CASE CollectorRecvPanic \/ CollectorPushPanic \/ CollectorClearPanic
  BY <1>2, <1>8 DEF CollectorRecvPanic, CollectorPushPanic, CollectorClearPanic,
     CollectorDies, Task
<1>9. CASE \/ \E j \in Jobs : Post(j) /\ ~ PostSend(j)
           \/ \E g \in Gets : Get(g)
           \/ BackendStart \/ BackendRuns \/ BackendFinish
           \/ AtRest \/ UNCHANGED vars
  BY <1>1, <1>2, <1>9, LineStays
<1> QED
  BY <1>3, <1>4, <1>5, <1>6, <1>7, <1>8, <1>9 DEF Next, Backend, Collector

(* Every accepted job is executed, published and dropped in the order of   *)
(* acceptance, exactly once, whatever the interleaving of the handlers, the*)
(* backend and the collector, and for every capacity (app.rs:28-94,        *)
(* 127-150).  The line of jobs, from the oldest dropped result to the job  *)
(* that waits last, is inductive as it stands: a step moves the border of  *)
(* two neighbouring parts, extends the last, or cuts the end off.          *)
THEOREM InOrderOfAcceptance == Spec => []FirstComeFirstServed
<1>1. TypeOK /\ TypeOK' /\ FirstComeFirstServed /\ [Next]_vars => FirstComeFirstServed'
  BY OrderStep
<1> QED
  BY <1>1, OrderInit, TypeCorrect, PTL DEF Spec
=============================================================================
