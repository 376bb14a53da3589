---------------------- MODULE JobPipelineStatus_proofs ----------------------
(***************************************************************************)
(* The status record agrees with the pipeline: theorems about JobPipeline, *)
(* for every set of jobs and requests, every capacity and every number of  *)
(* worker threads.  Some steps of a job change where it is and others what *)
(* ServerStatus says of it, under different locks or none.                 *)
(***************************************************************************)
EXTENDS JobPipeline_proofs, FiniteSetTheorems

(* A job is accepted once: only a handler that has not yet sent its job    *)
(* sends it.                                                               *)
AcceptedOnce ==
  /\ IsInjective(accepted)
  /\ \A j \in Jobs : post[j] = "new" => j \notin ToSet(accepted)

(* The job that `run` has sent and not yet marked finished has the newest  *)
(* result, which the collector keeps: it drops the oldest.                 *)
NewestIsMarkedNext ==
  collector.pc # "dead" /\ backend.pc = "finish" =>
    Results # <<>> /\ Last(cleared \o Results) = backend.job

(* What is being dropped is the last of what has been dropped.             *)
DropsOne == collector.pc = "clear" => cleared # <<>>

StatusInv ==
  FirstComeFirstServed /\ AcceptedOnce /\ NewestIsMarkedNext /\ DropsOne
    /\ FinishedMeansKept

(* What `run` has still to mark: nothing of it is marked finished or new,  *)
(* and nothing of it comes twice.  This also holds after the collector has *)
(* died and taken results with it.                                         *)
Unmarked == ToSet(register_job) \cup {backend.job}

CurrentInv ==
  /\ backend.pc \in {"run", "send", "finish"} =>
       server_status.current_job = backend.job
  /\ IsInjective(register_job) /\ backend.job \notin ToSet(register_job)
  /\ server_status.jobs_finished \cap Unmarked = {}
  /\ \A j \in Jobs : post[j] = "new" =>
       j \notin Unmarked \cup server_status.jobs_finished

(* From the first eviction on the queue is full, unless the eviction is    *)
(* not completed: then its mutex is held, or poisoned for good.            *)
FullAfterEviction ==
  /\ cleared # <<>> =>
       \/ Len(finished_job_queue) = MaxJobs
       \/ collector.pc = "clear" \/ Poisoned("queue")
  /\ collector.pc = "clear" => holder["queue"] = "collector"
-----------------------------------------------------------------------------
(* A mutex stays poisoned and a task that is gone does not come back.      *)
LEMMA BreaksForGood ==
  ASSUME TypeOK, [Next]_vars
  PROVE  /\ poisoned \subseteq poisoned'
         /\ collector.pc = "dead" => collector'.pc = "dead"
         /\ backend.pc = "dead" => backend'.pc = "dead"
<1> USE DEF shared, channels, history
<1>1. ASSUME NEW j \in Jobs, Post(j) PROVE UNCHANGED <<poisoned, collector, backend>>
  BY <1>1 DEF Post, PostInvalid, PostClosed, PostTooMany, PostSend, PostEnqueue, PostPanic
<1>2. ASSUME NEW g \in Gets, Get(g)
      PROVE  poisoned \subseteq poisoned' /\ UNCHANGED <<collector, backend>>
  BY <1>2 DEF Get, GetStatus, GetPanic, GetFind, GetUnreachable, TypeOK
<1>3. ASSUME Backend
      PROVE  poisoned \subseteq poisoned' /\ UNCHANGED collector /\ backend.pc # "dead"
  BY <1>3 DEF Backend, BackendRecv, BackendStart, BackendStartPanic, BackendRuns,
     BackendRunsPanic, BackendSend, BackendSendFails, BackendFinish, BackendFinishPanic
<1>4. ASSUME Collector
      PROVE  poisoned \subseteq poisoned' /\ UNCHANGED backend /\ collector.pc # "dead"
  BY <1>4 DEF Collector, CollectorRecv, CollectorRecvPanic, CollectorPush,
     CollectorEvict, CollectorPushPanic, CollectorClear, CollectorClearPanic
<1>5. CASE AtRest \/ UNCHANGED vars
  BY <1>5 DEF AtRest, vars
<1> QED
  BY <1>1, <1>2, <1>3, <1>4, <1>5 DEF Next

(* Only `try_send` accepts a job, and no handler begins anew.              *)
LEMMA PostWriters ==
  ASSUME TypeOK, [Next]_vars
  PROVE  \/ \E j \in Jobs : PostSend(j)
         \/ /\ UNCHANGED accepted
            /\ \A j \in Jobs : post'[j] = "new" => post[j] = "new"
<1> USE DEF shared, channels, history
<1> DEFINE Same == /\ UNCHANGED accepted
                   /\ \A j \in Jobs : post'[j] = "new" => post[j] = "new"
<1>1. ASSUME NEW j \in Jobs, Post(j), ~ PostSend(j) PROVE Same
  BY <1>1 DEF Post, PostInvalid, PostClosed, PostTooMany, PostEnqueue, PostPanic, TypeOK
<1>2. ASSUME NEW g \in Gets, Get(g) PROVE Same
  BY <1>2 DEF Get, GetStatus, GetPanic, GetFind, GetUnreachable
<1>3. CASE Backend
  BY <1>3 DEF Backend, BackendRecv, BackendStart, BackendStartPanic, BackendRuns,
     BackendRunsPanic, BackendSend, BackendSendFails, BackendFinish, BackendFinishPanic
<1>4. CASE Collector
  BY <1>4 DEF Collector, CollectorRecv, CollectorRecvPanic, CollectorPush,
     CollectorEvict, CollectorPushPanic, CollectorClear, CollectorClearPanic
<1>5. CASE AtRest \/ UNCHANGED vars
  BY <1>5 DEF AtRest, vars
<1> QED
  BY <1>1, <1>2, <1>3, <1>4, <1>5 DEF Next

LEMMA AcceptedOnceStep ==
  ASSUME TypeOK, AcceptedOnce, [Next]_vars
  PROVE  AcceptedOnce'
<1>1. ASSUME NEW j \in Jobs, PostSend(j) PROVE AcceptedOnce'
  <2>1. /\ accepted \in Seq(Jobs) /\ accepted' = Append(accepted, j)
        /\ post[j] = "new" /\ post' = [post EXCEPT ![j] = "sent"]
        /\ post \in [Jobs -> {post[k] : k \in Jobs}]
    BY <1>1 DEF PostSend, TypeOK
  <2>2. IsInjective(accepted')
    BY <2>1, DistinctAppend DEF AcceptedOnce
  <2>3. ToSet(accepted') = ToSet(accepted) \cup {j}
    BY <2>1, ElementsOfAppend
  <2>4. ASSUME NEW k \in Jobs, post'[k] = "new" PROVE k \notin ToSet(accepted')
    BY <2>1, <2>3, <2>4 DEF AcceptedOnce
  <2> QED
    BY <2>2, <2>4 DEF AcceptedOnce
<1>2. CASE /\ UNCHANGED accepted
           /\ \A j \in Jobs : post'[j] = "new" => post[j] = "new"
  BY <1>2 DEF AcceptedOnce
<1> QED
  BY <1>1, <1>2, PostWriters

(* While the collector lives no job is at two places of the line.          *)
LEMMA PlacesAreDistinct ==
  ASSUME TypeOK, FirstComeFirstServed, AcceptedOnce, collector.pc # "dead"
  PROVE  /\ ToSet(cleared) \cap ToSet(Results) = {}
         /\ ToSet(cleared \o Results) = ToSet(cleared) \cup ToSet(Results)
         /\ backend.pc \in {"start", "run", "send"} =>
              backend.job \notin ToSet(cleared) \cup ToSet(Results)
<1>1. PICK c \in Seq(Jobs) : c = cleared
  BY DEF TypeOK
<1>2. PICK t \in Seq(Jobs) : t = Results
  BY LineParts
<1>3. PICK b \in Seq(Jobs) : b = InBackend
  BY LineParts
<1>4. PICK r \in Seq(Jobs) : r = register_job
  BY DEF TypeOK
<1>5. PICK ct \in Seq(Jobs) : ct = c \o t
  BY ConcatProperties
<1>6. PICK ctb \in Seq(Jobs) : ctb = ct \o b
  BY ConcatProperties
<1>7. PICK line \in Seq(Jobs) : line = Line
  BY LineParts
<1>8. line = ctb \o r
  BY <1>1, <1>2, <1>3, <1>4, <1>5, <1>6, <1>7 DEF Line
<1>9. IsInjective(line)
  BY <1>7, DistinctPrefix DEF FirstComeFirstServed, AcceptedOnce, TypeOK
<1>10. IsInjective(ctb)
  BY <1>8, <1>9, DistinctConcat
<1>11. IsInjective(ct) /\ ToSet(ct) \cap ToSet(b) = {}
  BY <1>6, <1>10, DistinctConcat
<1>12. ToSet(c) \cap ToSet(t) = {} /\ ToSet(ct) = ToSet(c) \cup ToSet(t)
  BY <1>5, <1>11, DistinctConcat, ElementsOfConcat
<1>13. backend.pc \in {"start", "run", "send"} => backend.job \in ToSet(b)
  BY <1>3, ElementsOfOne DEF InBackend
<1> QED
  BY <1>1, <1>2, <1>5, <1>11, <1>12, <1>13

(* What FinishedMeansKept relates to the ids marked finished.              *)
Marked == (ToSet(Results) \cup BeingDropped) \ BeingMarked

(* The steps that neither move a result nor mark one.                      *)
LEMMA MarksStay ==
  ASSUME TypeOK,
         \/ \E j \in Jobs : Post(j)
         \/ \E g \in Gets : Get(g)
         \/ BackendStart \/ BackendRuns
         \/ AtRest \/ UNCHANGED vars
  PROVE  /\ UNCHANGED <<Results, cleared, collector, Marked>>
         /\ UNCHANGED server_status.jobs_finished
         /\ backend'.pc = "finish" => UNCHANGED backend
<1> USE DEF shared, channels, history
<1>1. UNCHANGED <<Results, cleared, collector>>
  <2>1. ASSUME NEW j \in Jobs, PostSend(j) PROVE UNCHANGED <<Results, cleared, collector>>
    BY <2>1, LineAccepts DEF PostSend
  <2> QED
    BY <2>1, LineStays
<1>2. UNCHANGED server_status.jobs_finished
  <2>1. ASSUME NEW j \in Jobs, Post(j) PROVE UNCHANGED server_status.jobs_finished
    BY <2>1 DEF Post, PostInvalid, PostClosed, PostTooMany, PostSend, PostEnqueue,
       PostPanic, TypeOK, Status!JobEnqueued, Status!ServerStatusType
  <2>2. ASSUME NEW g \in Gets, Get(g) PROVE UNCHANGED server_status.jobs_finished
    BY <2>2 DEF Get, GetStatus, GetPanic, GetFind, GetUnreachable
  <2>3. CASE BackendStart
    BY <2>3 DEF BackendStart, TypeOK, Status!JobStarted, Status!ServerStatusType
  <2>4. CASE BackendRuns
    BY <2>4 DEF BackendRuns
  <2>5. CASE AtRest \/ UNCHANGED vars
    BY <2>5 DEF AtRest, vars
  <2> QED
    BY <2>1, <2>2, <2>3, <2>4, <2>5
<1>3. UNCHANGED backend \/ (backend.pc # "finish" /\ backend'.pc # "finish")
  <2>1. ASSUME NEW j \in Jobs, Post(j) PROVE UNCHANGED backend
    BY <2>1 DEF Post, PostInvalid, PostClosed, PostTooMany, PostSend, PostEnqueue, PostPanic
  <2>2. ASSUME NEW g \in Gets, Get(g) PROVE UNCHANGED backend
    BY <2>2 DEF Get, GetStatus, GetPanic, GetFind, GetUnreachable
  <2>3. CASE BackendStart \/ BackendRuns
    BY <2>3 DEF BackendStart, BackendRuns, Task
  <2>4. CASE AtRest \/ UNCHANGED vars
    BY <2>4 DEF AtRest, vars
  <2> QED
    BY <2>1, <2>2, <2>3, <2>4
<1>4. UNCHANGED <<BeingDropped, BeingMarked>>
  BY <1>1, <1>3 DEF BeingDropped, BeingMarked, DroppedJob
<1> QED
  BY <1>1, <1>2, <1>3, <1>4 DEF Marked

(* The newest result stays the newest while `run` waits to mark it.        *)
LEMMA NewestStep ==
  ASSUME TypeOK, NewestIsMarkedNext, DropsOne, [Next]_vars
  PROVE  NewestIsMarkedNext' /\ DropsOne'
<1> USE DEF shared, channels, history
<1>1. CASE \/ \E j \in Jobs : Post(j)
           \/ \E g \in Gets : Get(g)
           \/ BackendStart \/ BackendRuns
           \/ AtRest \/ UNCHANGED vars
  BY <1>1, MarksStay DEF NewestIsMarkedNext, DropsOne
<1>2. CASE BackendSend
  <2>1. /\ backend.job \in Jobs /\ backend'.job = backend.job
        /\ UNCHANGED <<collector, cleared>>
    BY <1>2 DEF BackendSend, TypeOK, Task
  <2>2. /\ Results \in Seq(Jobs) /\ Results' = Append(Results, backend.job)
        /\ (cleared \o Results)' = (cleared \o Results) \o <<backend.job>>
    BY <1>2, LineSends, LineParts
  <2>3. PICK all \in Seq(Jobs) : all = cleared \o Results
    BY LineParts
  <2>4. PICK j \in Jobs : j = backend.job
    BY <2>1
  <2>5. <<j>> \in Seq(Jobs) /\ <<j>> # <<>> /\ Last(<<j>>) = j
    BY DEF Last
  <2>6. Last((cleared \o Results)') = backend.job
    <3>1. Last(all \o <<j>>) = Last(<<j>>)
      BY <2>5, LastOfConcat
    <3>2. (cleared \o Results)' = all \o <<j>>
      BY <2>2, <2>3, <2>4
    <3> QED
      BY <2>4, <2>5, <3>1, <3>2
  <2>7. Results' # <<>>
    BY <2>1, <2>2, LastOfAppend
  <2> QED
    BY <2>1, <2>6, <2>7 DEF NewestIsMarkedNext, DropsOne
<1>3. CASE \/ BackendRecv \/ BackendStartPanic \/ BackendRunsPanic \/ BackendSendFails
           \/ BackendFinish \/ BackendFinishPanic
  BY <1>3 DEF BackendRecv, BackendStartPanic, BackendRunsPanic, BackendSendFails,
     BackendFinish, BackendFinishPanic, BackendDies, Task, NewestIsMarkedNext, DropsOne
<1>4. CASE CollectorRecv \/ CollectorPush \/ CollectorClear
  <2>1. Results' = Results
    BY <1>4, LineReceives, LinePushes
  <2>2. UNCHANGED <<backend, cleared>> /\ collector.pc # "dead" /\ collector'.pc # "clear"
    BY <1>4 DEF CollectorRecv, CollectorPush, CollectorClear, Task
  <2> QED
    BY <2>1, <2>2 DEF NewestIsMarkedNext, DropsOne
<1>5. CASE CollectorEvict
  <2>1. (cleared \o Results)' = cleared \o Results
    BY <1>5, LineEvicts
  <2>2. UNCHANGED backend /\ collector.pc # "dead"
        /\ InCollector' = <<collector.job>> /\ cleared' # <<>>
        /\ finished_job_queue' \in Seq(Jobs) /\ finished_job' \in Seq(Jobs)
        /\ collector.job \in Jobs
    BY <1>5, TypeStep DEF CollectorEvict, InCollector, Task, TypeOK
  <2>3. Results' # <<>>
    BY <2>2 DEF Results
  <2> QED
    BY <2>1, <2>2, <2>3 DEF NewestIsMarkedNext, DropsOne
<1>6. CASE CollectorRecvPanic \/ CollectorPushPanic \/ CollectorClearPanic
  BY <1>6 DEF CollectorRecvPanic, CollectorPushPanic, CollectorClearPanic,
     CollectorDies, Task, NewestIsMarkedNext, DropsOne
<1> QED
  BY <1>1, <1>2, <1>3, <1>4, <1>5, <1>6 DEF Next, Backend, Collector

(* The job to be marked next has a result, and not one that was dropped.   *)
LEMMA NewestIsKept ==
  ASSUME TypeOK, FirstComeFirstServed, AcceptedOnce, NewestIsMarkedNext,
         collector.pc # "dead", backend.pc = "finish"
  PROVE  backend.job \in ToSet(Results) /\ backend.job \notin ToSet(cleared)
<1>1. PICK t \in Seq(Jobs) : t = Results
  BY LineParts
<1>2. PICK c \in Seq(Jobs) : c = cleared
  BY DEF TypeOK
<1>3. t # <<>> /\ Last(c \o t) = backend.job
  BY <1>1, <1>2 DEF NewestIsMarkedNext
<1>4. Last(c \o t) = Last(t) /\ Last(t) \in ToSet(t)
  BY <1>3, LastOfConcat
<1> QED
  BY <1>1, <1>3, <1>4, PlacesAreDistinct

LEMMA DroppedIsGone ==
  ASSUME TypeOK, FirstComeFirstServed, AcceptedOnce, DropsOne,
         collector.pc = "clear"
  PROVE  DroppedJob \in ToSet(cleared) /\ DroppedJob \notin ToSet(Results)
<1>1. PICK c \in Seq(Jobs) : c = cleared
  BY DEF TypeOK
<1>2. <<>> \in Seq(Jobs)
  BY EmptySeq
<1>3. Last(c) \in ToSet(c)
  BY <1>1, <1>2, LastOfConcat DEF DropsOne
<1> QED
  BY <1>1, <1>3, PlacesAreDistinct DEF DroppedJob

(* One step per action that moves a result or marks one.                   *)
LEMMA FinishedStep ==
  ASSUME TypeOK, TypeOK', StatusInv, [Next]_vars
  PROVE  FinishedMeansKept'
<1> DEFINE finished == server_status.jobs_finished
<1> USE DEF shared, channels, history
<1>0. FinishedMeansKept <=>
        (~ Poisoned("status") /\ collector.pc # "dead" => finished = Marked)
  BY DEF FinishedMeansKept, Marked
<1>00. FinishedMeansKept' <=>
        (~ Poisoned("status")' /\ collector'.pc # "dead" => finished' = Marked')
  BY DEF FinishedMeansKept, Marked
<1> SUFFICES ASSUME ~ Poisoned("status")', collector'.pc # "dead"
             PROVE  finished' = Marked'
  BY <1>00
<1>1. ~ Poisoned("status") /\ collector.pc # "dead"
  BY BreaksForGood DEF Poisoned
<1>2. finished = Marked
  BY <1>0, <1>1 DEF StatusInv
<1> USE <1>1 DEF StatusInv
<1>3. CASE \/ \E j \in Jobs : Post(j)
           \/ \E g \in Gets : Get(g)
           \/ BackendStart \/ BackendRuns
           \/ AtRest \/ UNCHANGED vars
  BY <1>2, <1>3, MarksStay
<1>4. CASE BackendRecv \/ BackendRunsPanic
  <2>1. Results' = Results
    BY <1>4, LineBegins, LineIsCut
  <2>2. UNCHANGED <<server_status, cleared, collector>>
        /\ BeingMarked = {} /\ BeingMarked' = {}
    BY <1>4 DEF BackendRecv, BackendRunsPanic, BackendDies, Task, BeingMarked
  <2> QED
    BY <1>2, <2>1, <2>2 DEF Marked, BeingDropped, DroppedJob
<1>5. CASE BackendSend
  <2>1. /\ backend.job \in Jobs /\ UNCHANGED <<server_status, cleared, collector>>
        /\ BeingMarked = {} /\ BeingMarked' = {backend.job}
    BY <1>5 DEF BackendSend, TypeOK, Task, BeingMarked
  <2>2. PICK t \in Seq(Jobs) : t = Results
    BY LineParts
  <2>3. ToSet(Results') = ToSet(Results) \cup {backend.job}
    <3>1. PICK j \in Jobs : j = backend.job
      BY <2>1
    <3>2. Results' = Append(t, j)
      BY <1>5, <2>2, <3>1, LineSends
    <3>3. ToSet(Append(t, j)) = ToSet(t) \cup {j}
      BY ElementsOfAppend
    <3> QED
      BY <2>2, <3>1, <3>2, <3>3
  <2>4. backend.job \notin ToSet(cleared) \cup ToSet(Results)
    BY <1>5, PlacesAreDistinct DEF BackendSend
  <2>5. BeingDropped \subseteq ToSet(cleared) /\ BeingDropped' = BeingDropped
    BY <2>1, DroppedIsGone DEF BeingDropped, DroppedJob
  <2> QED
    BY <1>2, <2>1, <2>3, <2>4, <2>5 DEF Marked
<1>6. CASE BackendFinish
  <2>1. /\ backend.job \in Jobs /\ UNCHANGED <<cleared, collector>>
        /\ BeingMarked = {backend.job} /\ BeingMarked' = {}
        /\ finished' = finished \cup {backend.job}
    BY <1>6 DEF BackendFinish, TypeOK, Task, BeingMarked, Status!JobFinished,
       Status!ServerStatusType
  <2>2. Results' = Results
    BY <1>6, LineStays
  <2>3. backend.job \in ToSet(Results)
    BY <1>6, NewestIsKept DEF BackendFinish
  <2> QED
    BY <1>2, <2>1, <2>2, <2>3 DEF Marked, BeingDropped, DroppedJob
<1>7. CASE CollectorRecv \/ CollectorPush
  <2>1. Results' = Results
    BY <1>7, LineReceives, LinePushes
  <2>2. UNCHANGED <<server_status, cleared, backend>>
        /\ BeingDropped = {} /\ BeingDropped' = {}
    BY <1>7 DEF CollectorRecv, CollectorPush, Task, BeingDropped
  <2> QED
    BY <1>2, <2>1, <2>2 DEF Marked, BeingMarked
<1>8. CASE CollectorEvict
  <2>1. /\ finished_job_queue # <<>> /\ finished_job_queue \in Seq(Jobs)
        /\ Tail(finished_job_queue) \in Seq(Jobs) /\ Head(finished_job_queue) \in Jobs
        /\ cleared \in Seq(Jobs) /\ finished_job \in Seq(Jobs) /\ InCollector \in Seq(Jobs)
    BY <1>8, LineParts, PipelineAssumption DEF CollectorEvict, TypeOK
  <2>2. PICK q \in Seq(Jobs) : q = finished_job_queue
    BY <2>1
  <2>3. PICK tq \in Seq(Jobs) : tq = Tail(finished_job_queue)
    BY <2>1
  <2>4. PICK i \in Seq(Jobs) : i = InCollector
    BY <2>1
  <2>5. PICK f \in Seq(Jobs) : f = finished_job
    BY <2>1
  <2>6. /\ cleared' = Append(cleared, Head(q)) /\ finished_job_queue' = tq
        /\ InCollector' = i /\ finished_job' = f
        /\ UNCHANGED <<server_status, backend>>
        /\ BeingDropped = {} /\ BeingDropped' = {DroppedJob'}
    BY <1>8, <2>2, <2>3, <2>4, <2>5 DEF CollectorEvict, InCollector, Task, BeingDropped
  <2>7. /\ ToSet((q \o i) \o f) = ToSet(q) \cup ToSet(i) \cup ToSet(f)
        /\ ToSet((tq \o i) \o f) = ToSet(tq) \cup ToSet(i) \cup ToSet(f)
    BY ElementsOfThree
  <2>8. ToSet(q) = {Head(q)} \cup ToSet(tq)
    BY <2>1, <2>2, <2>3, ElementsOfHeadTail
  <2>9. Results = (q \o i) \o f /\ Results' = (tq \o i) \o f
    BY <2>2, <2>4, <2>5, <2>6 DEF Results
  <2>10. DroppedJob' = Head(q)
    BY <2>1, <2>2, <2>6, LastOfAppend DEF DroppedJob
  <2> QED
    BY <1>2, <2>6, <2>7, <2>8, <2>9, <2>10 DEF Marked, BeingMarked
<1>9. CASE CollectorClear
  <2>1. Results' = Results
    BY <1>9, LinePushes
  <2>2. /\ UNCHANGED <<cleared, backend>>
        /\ BeingDropped = {DroppedJob} /\ BeingDropped' = {}
        /\ finished' = finished \ {DroppedJob}
    BY <1>9 DEF CollectorClear, TypeOK, Task, BeingDropped, Status!JobCleared,
       Status!ServerStatusType
  <2>3. DroppedJob \notin ToSet(Results)
    BY <1>9, DroppedIsGone DEF CollectorClear
  <2> QED
    BY <1>2, <2>1, <2>2, <2>3 DEF Marked, BeingMarked
<1>10. CASE \/ BackendStartPanic \/ BackendFinishPanic \/ BackendSendFails
            \/ CollectorRecvPanic \/ CollectorPushPanic \/ CollectorClearPanic
  BY <1>10 DEF BackendStartPanic, BackendFinishPanic, BackendSendFails, Poisoned,
     CollectorRecvPanic, CollectorPushPanic, CollectorClearPanic, CollectorDies, Task
<1> QED
  BY <1>3, <1>4, <1>5, <1>6, <1>7, <1>8, <1>9, <1>10 DEF Next, Backend, Collector

LEMMA StatusInit == Init => StatusInv
<1> SUFFICES ASSUME Init PROVE StatusInv
  OBVIOUS
<1>1. /\ cleared = <<>> /\ accepted = <<>> /\ Results = <<>>
      /\ backend.pc = "recv" /\ collector.pc = "recv"
      /\ server_status.jobs_finished = {}
  BY DEF Init, Task, Results, InCollector, Status!EmptyStatus
<1>2. AcceptedOnce
  BY <1>1, ElementsOfOne, DistinctNone DEF AcceptedOnce
<1>3. FinishedMeansKept
  BY <1>1, ElementsOfOne DEF FinishedMeansKept, BeingDropped, BeingMarked
<1> QED
  BY <1>1, <1>2, <1>3, OrderInit DEF StatusInv, NewestIsMarkedNext, DropsOne

LEMMA StatusStep ==
  ASSUME TypeOK, TypeOK', StatusInv, [Next]_vars
  PROVE  StatusInv'
BY OrderStep, AcceptedOnceStep, NewestStep, FinishedStep DEF StatusInv

LEMMA StatusCorrect == Spec => []StatusInv
<1>1. TypeOK /\ TypeOK' /\ StatusInv /\ [Next]_vars => StatusInv'
  BY StatusStep
<1> QED
  BY <1>1, StatusInit, TypeCorrect, PTL DEF Spec

(* The ids marked finished are exactly the results the server has, up to   *)
(* the one being marked and the one being dropped: no mark leaks when a    *)
(* result is dropped, and none is lost, although the marks are made and    *)
(* removed under another lock than the results are moved under             *)
(* (app.rs:90-91, 136-147).                                                *)
THEOREM FinishedIsKept == Spec => []FinishedMeansKept
<1>1. StatusInv => FinishedMeansKept
  BY DEF StatusInv
<1> QED
  BY <1>1, StatusCorrect, PTL

(* A result that is dropped was marked finished before: its eviction never *)
(* overtakes the mark, although the collector does not wait for it, for    *)
(* `run` sends nothing until it has made the mark (lib.rs:85-88).          *)
THEOREM ClearedIsFinished == Spec => []ClearedWasFinished
<1>1. TypeOK /\ StatusInv => ClearedWasFinished
  <2> SUFFICES ASSUME TypeOK, StatusInv, collector.pc = "clear", ~ Poisoned("status")
               PROVE  DroppedJob \in server_status.jobs_finished
    BY DEF ClearedWasFinished, Status!JobClearedAsExpected
  <2>1. server_status.jobs_finished = (ToSet(Results) \cup {DroppedJob}) \ BeingMarked
    BY DEF StatusInv, FinishedMeansKept, BeingDropped
  <2>2. DroppedJob \notin BeingMarked
    BY DroppedIsGone, NewestIsKept DEF StatusInv, BeingMarked
  <2> QED
    BY <2>1, <2>2
<1> QED
  BY <1>1, StatusCorrect, TypeCorrect, PTL
-----------------------------------------------------------------------------
LEMMA CurrentStep ==
  ASSUME TypeOK, CurrentInv, [Next]_vars
  PROVE  CurrentInv'
<1> USE PipelineAssumption DEF shared, channels, history
<1>0. /\ register_job \in Seq(Jobs) /\ server_status.jobs_finished \subseteq Jobs
      /\ backend.pc \in {"start", "run", "send", "finish"} => backend.job \in Jobs
      /\ backend.pc \in {"recv", "dead"} => backend.job = NoJob
  BY DEF TypeOK, Status!ServerStatusType
<1>n. ToSet(register_job) \subseteq Jobs /\ NoJob \notin Jobs
  BY <1>0 DEF ToSet
<1>1. ASSUME NEW j \in Jobs, PostSend(j) PROVE CurrentInv'
  <2>1. /\ register_job' = Append(register_job, j) /\ post[j] = "new"
        /\ post' = [post EXCEPT ![j] = "sent"] /\ DOMAIN post = Jobs
        /\ UNCHANGED <<backend, server_status>>
    BY <1>1 DEF PostSend, TypeOK
  <2>2. ToSet(register_job') = ToSet(register_job) \cup {j}
    BY <1>0, <2>1, ElementsOfAppend
  <2>3. IsInjective(register_job')
    BY <1>0, <2>1, DistinctAppend DEF CurrentInv, Unmarked
  <2>4. \A k \in Jobs : post'[k] = "new" => k # j /\ post[k] = "new"
    BY <2>1
  <2> QED
    BY <2>1, <2>2, <2>3, <2>4 DEF CurrentInv, Unmarked
<1>2. ASSUME NEW j \in Jobs, Post(j), ~ PostSend(j) PROVE CurrentInv'
  <2>1. /\ UNCHANGED <<backend, register_job>>
        /\ server_status' = server_status \/ server_status' = Status!JobEnqueued(server_status, j)
        /\ \A k \in Jobs : post'[k] = "new" => post[k] = "new"
    BY <1>2 DEF Post, PostInvalid, PostClosed, PostTooMany, PostEnqueue, PostPanic, TypeOK
  <2>2. UNCHANGED <<server_status.jobs_finished, server_status.current_job>>
    BY <2>1 DEF TypeOK, Status!JobEnqueued, Status!ServerStatusType
  <2> QED
    BY <2>1, <2>2 DEF CurrentInv, Unmarked
<1>3. ASSUME NEW g \in Gets, Get(g) PROVE CurrentInv'
  BY <1>3 DEF Get, GetStatus, GetPanic, GetFind, GetUnreachable, CurrentInv, Unmarked
<1>4. CASE BackendRecv
  <2>1. /\ register_job # <<>> /\ register_job' = Tail(register_job)
        /\ backend' = Task("start", Head(register_job))
        /\ UNCHANGED <<server_status, post>>
    BY <1>4 DEF BackendRecv
  <2>2. /\ ToSet(register_job) = {Head(register_job)} \cup ToSet(register_job')
        /\ IsInjective(register_job') /\ Head(register_job) \notin ToSet(register_job')
    BY <1>0, <2>1, ElementsOfHeadTail, DistinctHeadTail DEF CurrentInv
  <2>3. Unmarked' \subseteq Unmarked /\ backend'.pc = "start"
        /\ backend'.job = Head(register_job)
    BY <2>1, <2>2 DEF Unmarked, Task
  <2> QED
    BY <2>1, <2>2, <2>3 DEF CurrentInv
<1>5. CASE BackendStart
  <2>1. /\ UNCHANGED <<register_job, post>> /\ UNCHANGED backend.job
        /\ server_status' = Status!JobStarted(server_status, backend.job)
    BY <1>5 DEF BackendStart, Task
  <2>2. UNCHANGED server_status.jobs_finished /\ server_status'.current_job = backend.job
    BY <2>1 DEF TypeOK, Status!JobStarted, Status!ServerStatusType
  <2> QED
    BY <2>1, <2>2 DEF CurrentInv, Unmarked
<1>6. CASE BackendRuns \/ BackendSend
  BY <1>6 DEF BackendRuns, BackendSend, Task, CurrentInv, Unmarked
<1>7. CASE BackendFinish
  <2>1. /\ UNCHANGED <<register_job, post>>
        /\ backend'.pc = "recv" /\ backend'.job = NoJob
        /\ server_status'.jobs_finished = server_status.jobs_finished \cup {backend.job}
        /\ backend.job \in Unmarked
    BY <1>7 DEF BackendFinish, Task, TypeOK, Status!JobFinished,
       Status!ServerStatusType, Unmarked
  <2>2. Unmarked' = ToSet(register_job) \cup {NoJob}
    BY <2>1 DEF Unmarked
  <2>3. server_status'.jobs_finished \cap Unmarked' = {}
    BY <1>0, <1>n, <1>7, <2>1, <2>2 DEF CurrentInv, Unmarked, BackendFinish
  <2> QED
    BY <1>n, <2>1, <2>2, <2>3 DEF CurrentInv, Unmarked
<1>8. CASE BackendSendFails
  <2>1. UNCHANGED <<register_job, post, server_status>>
        /\ backend'.pc = "recv" /\ backend'.job = NoJob
    BY <1>8 DEF BackendSendFails, Task
  <2> QED
    BY <1>0, <1>n, <2>1 DEF CurrentInv, Unmarked
<1>9. CASE BackendStartPanic \/ BackendRunsPanic \/ BackendFinishPanic
  <2>1. register_job' = <<>> /\ UNCHANGED <<post, server_status>>
        /\ backend'.pc = "dead" /\ backend'.job = NoJob
    BY <1>9 DEF BackendStartPanic, BackendRunsPanic, BackendFinishPanic, BackendDies, Task
  <2>2. ToSet(register_job') = {} /\ IsInjective(register_job')
    BY <2>1, ElementsOfOne, DistinctNone
  <2> QED
    BY <1>0, <1>n, <2>1, <2>2 DEF CurrentInv, Unmarked
<1>10. CASE Collector /\ ~ CollectorClear
  BY <1>10 DEF Collector, CollectorRecv, CollectorRecvPanic, CollectorPush,
     CollectorEvict, CollectorPushPanic, CollectorClearPanic, CurrentInv, Unmarked
<1>11. CASE CollectorClear
  <2>1. UNCHANGED <<register_job, post, backend>>
        /\ server_status'.jobs_finished \subseteq server_status.jobs_finished
        /\ UNCHANGED server_status.current_job
    BY <1>11 DEF CollectorClear, TypeOK, Status!JobCleared, Status!ServerStatusType
  <2> QED
    BY <2>1 DEF CurrentInv, Unmarked
<1>12. CASE AtRest \/ UNCHANGED vars
  BY <1>12 DEF AtRest, vars, CurrentInv, Unmarked
<1> QED
  BY <1>1, <1>2, <1>3, <1>4, <1>5, <1>6, <1>7, <1>8, <1>9, <1>10, <1>11, <1>12
     DEF Next, Backend, Collector

LEMMA CurrentInit == Init => CurrentInv
<1> SUFFICES ASSUME Init PROVE CurrentInv
  OBVIOUS
<1>1. /\ register_job = <<>> /\ backend.pc = "recv" /\ backend.job = NoJob
      /\ server_status.jobs_finished = {}
  BY DEF Init, Task, Status!EmptyStatus
<1>2. ToSet(register_job) = {} /\ IsInjective(register_job)
  BY <1>1, ElementsOfOne, DistinctNone
<1> QED
  BY <1>1, <1>2, PipelineAssumption DEF CurrentInv, Unmarked

(* `job_finished` is always called for the current job, which is not marked*)
(* finished yet: neither of the expectations it logs about fails, also not *)
(* after the collector has died (lib.rs:78-82).                            *)
THEOREM FinishedIsCurrent == Spec => []FinishedWasCurrent
<1>1. TypeOK /\ CurrentInv /\ [Next]_vars => CurrentInv'
  BY CurrentStep
<1>2. CurrentInv => FinishedWasCurrent
  BY DEF CurrentInv, Unmarked, FinishedWasCurrent, Status!JobFinishedAsExpected
<1> QED
  BY <1>1, <1>2, CurrentInit, TypeCorrect, PTL DEF Spec
-----------------------------------------------------------------------------
LEMMA FullStep ==
  ASSUME TypeOK, TypeOK', QueueBounded, FullAfterEviction, [Next]_vars
  PROVE  FullAfterEviction'
<1> USE DEF shared, channels, history
<1>0. poisoned \subseteq poisoned'
  BY BreaksForGood
<1>1. CASE CollectorPush
  <2>1. /\ collector'.pc = "recv" /\ UNCHANGED <<cleared, holder, poisoned>>
        /\ Len(finished_job_queue) < MaxJobs /\ ~ Poisoned("queue")
        /\ collector.pc = "push"
    BY <1>1 DEF CollectorPush, Task
  <2>2. cleared = <<>>
    BY <2>1 DEF FullAfterEviction, TypeOK
  <2> QED
    BY <2>1, <2>2 DEF FullAfterEviction
<1>2. CASE CollectorEvict
  BY <1>2 DEF CollectorEvict, FullAfterEviction, Task, TypeOK, Mutexes
<1>3. CASE CollectorClear
  <2>1. Len(finished_job_queue') = MaxJobs /\ collector'.pc = "recv"
    BY <1>3, PipelineAssumption DEF CollectorClear, QueueBounded, Task, TypeOK
  <2> QED
    BY <2>1 DEF FullAfterEviction
<1>4. CASE CollectorClearPanic
  BY <1>4 DEF CollectorClearPanic, CollectorDies, Task, FullAfterEviction, Poisoned
<1>5. CASE CollectorRecv \/ CollectorRecvPanic \/ CollectorPushPanic
  BY <1>0, <1>5 DEF CollectorRecv, CollectorRecvPanic, CollectorPushPanic,
     CollectorDies, Task, FullAfterEviction, Poisoned
<1>6. ASSUME UNCHANGED <<collector, cleared, finished_job_queue>>,
             UNCHANGED holder["queue"]
      PROVE  FullAfterEviction'
  BY <1>0, <1>6 DEF FullAfterEviction, Poisoned
<1>7. ASSUME NEW j \in Jobs, Post(j) PROVE FullAfterEviction'
  BY <1>6, <1>7 DEF Post, PostInvalid, PostClosed, PostTooMany, PostSend, PostEnqueue, PostPanic
<1>8. ASSUME NEW g \in Gets, Get(g) PROVE FullAfterEviction'
  <2>1. UNCHANGED <<collector, cleared, finished_job_queue>>
    BY <1>8 DEF Get, GetStatus, GetPanic, GetFind, GetUnreachable
  <2>2. \/ UNCHANGED holder
        \/ \E to \in Gets \cup {Free} : holder' = [holder EXCEPT !["status"] = to]
    BY <1>8 DEF Get, GetStatus, GetPanic, GetFind, GetUnreachable
  <2>3. UNCHANGED holder["queue"]
    BY <2>2 DEF TypeOK, Mutexes
  <2> QED
    BY <1>6, <2>1, <2>3
<1>9. CASE Backend
  BY <1>6, <1>9 DEF Backend, BackendRecv, BackendStart, BackendStartPanic, BackendRuns,
     BackendRunsPanic, BackendSend, BackendSendFails, BackendFinish, BackendFinishPanic
<1>10. CASE AtRest \/ UNCHANGED vars
  BY <1>6, <1>10 DEF AtRest, vars
<1> QED
  BY <1>1, <1>2, <1>3, <1>4, <1>5, <1>7, <1>8, <1>9, <1>10 DEF Next, Collector

LEMMA FullMeansThere ==
  ASSUME TypeOK, FullAfterEviction
  PROVE  LastJobStays
<1> SUFFICES ASSUME cleared # <<>>, Lockable("queue"), ~ Poisoned("queue")
             PROVE  LastJob # NoJob
  BY DEF LastJobStays
<1>1. Len(finished_job_queue) = MaxJobs
  BY PipelineAssumption DEF FullAfterEviction, Lockable
<1>2. PICK q \in Seq(Jobs) : q = finished_job_queue
  BY DEF TypeOK
<1>3. q # <<>> /\ <<>> \in Seq(Jobs)
  BY <1>1, <1>2, PipelineAssumption, EmptySeq
<1>4. Last(q) \in Jobs
  BY <1>3, LastOfConcat
<1> QED
  BY <1>2, <1>3, <1>4, PipelineAssumption DEF LastJob

(* GET /job/last never answers NotFound once there has been a result that  *)
(* was dropped: whoever gets the queue mutex finds the queue full, even if *)
(* it holds one result only (routes.rs:79-86, app.rs:135-147).             *)
THEOREM LastJobIsThere == Spec => []LastJobStays
<1>1. Init => FullAfterEviction
  BY DEF Init, FullAfterEviction, Task
<1>2. TypeOK /\ TypeOK' /\ QueueBounded /\ FullAfterEviction /\ [Next]_vars
        => FullAfterEviction'
  BY FullStep
<1>3. TypeOK /\ FullAfterEviction => LastJobStays
  BY FullMeansThere
<1> QED
  BY <1>1, <1>2, <1>3, TypeCorrect, QueueIsBounded, PTL DEF Spec
-----------------------------------------------------------------------------
(* With one worker thread nobody else is polled while somebody is.         *)
Alone == Workers = 1 => \A a, b \in Polling : a = b

(* So the record lags behind the channel by the job of whoever is polled,  *)
(* and else not at all.                                                    *)
Lag ==
  Workers = 1 /\ ~ Poisoned("status") /\ backend.pc # "dead" =>
    /\ backend.pc # "start" => server_status.current_job = backend.job
    /\ backend.pc = "start" =>
         /\ server_status.current_job = NoJob
         /\ server_status.jobs_in_queue = <<backend.job>> \o register_job
    /\ \A j \in Jobs : post[j] = "sent" =>
         register_job = Append(server_status.jobs_in_queue, j)
    /\ backend.pc # "start" /\ (\A j \in Jobs : post[j] # "sent") =>
         server_status.jobs_in_queue = register_job

(* The collector dies of a poisoned mutex, or because `run` is gone.       *)
CollectorDiesLast ==
  collector.pc = "dead" => Poisoned("status") \/ backend.pc = "dead"

LEMMA NobodyIsPolled ==
  ASSUME Workers = 1, WorkerFree
  PROVE  Polling = {}
<1>1. IsFiniteSet(Polling)
  <2>1. IsFiniteSet({j \in Jobs : post[j] = "sent"} \cup {g \in Gets : get[g].pc = "find"})
    BY PipelineAssumption, FS_Subset, FS_Union
  <2>2. IsFiniteSet({t \in {"backend"} : backend.pc \in {"start", "finish"}})
    BY FS_Singleton, FS_Subset
  <2>3. IsFiniteSet({t \in {"collector"} : collector.pc \in {"push", "clear"}})
    BY FS_Singleton, FS_Subset
  <2> QED
    BY <2>1, <2>2, <2>3, FS_Union DEF Polling
<1> QED
  BY <1>1, FS_CardinalityType, FS_EmptySet DEF WorkerFree

(* A step that takes up a handler or a task finds a free worker; all others*)
(* go on with the one that is being polled, or leave it.                   *)
LEMMA AloneStep ==
  ASSUME TypeOK, Alone, Workers = 1, [Next]_vars
  PROVE  Alone'
<1> USE DEF shared, channels, history
<1>0. ASSUME Polling' \subseteq Polling PROVE Alone'
  BY <1>0 DEF Alone
<1>00. ASSUME WorkerFree, NEW a, Polling' \subseteq {a} \cup Polling PROVE Alone'
  BY <1>00, NobodyIsPolled DEF Alone
<1>1. ASSUME NEW j \in Jobs, Post(j) PROVE Alone'
  <2>1. UNCHANGED <<get, backend, collector>>
    BY <1>1 DEF Post, PostInvalid, PostClosed, PostTooMany, PostSend, PostEnqueue, PostPanic
  <2>2. CASE PostSend(j)
    <3>1. WorkerFree /\ \A k \in Jobs : post'[k] = "sent" => k = j \/ post[k] = "sent"
      BY <2>2 DEF PostSend, TypeOK
    <3> QED
      BY <1>00, <2>1, <3>1 DEF Polling
  <2>3. CASE ~ PostSend(j)
    <3>1. \A k \in Jobs : post'[k] = "sent" => post[k] = "sent"
      BY <1>1, <2>3 DEF Post, PostInvalid, PostClosed, PostTooMany, PostEnqueue,
         PostPanic, TypeOK
    <3> QED
      BY <1>0, <2>1, <3>1 DEF Polling
  <2> QED
    BY <2>2, <2>3
<1>2. ASSUME NEW g \in Gets, Get(g) PROVE Alone'
  <2>1. UNCHANGED <<post, backend, collector>>
    BY <1>2 DEF Get, GetStatus, GetPanic, GetFind, GetUnreachable
  <2>2. ASSUME NEW id \in Jobs, GetStatus(g, id) PROVE Alone'
    <3>1. WorkerFree /\ \A h \in Gets : get'[h].pc = "find" => h = g \/ get[h].pc = "find"
      BY <2>2 DEF GetStatus, TypeOK
    <3> QED
      BY <1>00, <2>1, <3>1 DEF Polling
  <2>3. CASE GetPanic(g) \/ GetFind(g) \/ GetUnreachable(g)
    <3>1. \E pc \in {"panicked", "answered"} : get' = [get EXCEPT ![g] = Request(pc, NoJob)]
      BY <2>3 DEF GetPanic, GetFind, GetUnreachable
    <3>2. DOMAIN get = Gets
      BY DEF TypeOK
    <3>3. \A h \in Gets : get'[h].pc = "find" => get[h].pc = "find"
      BY <3>1, <3>2 DEF Request
    <3> QED
      BY <1>0, <2>1, <3>3 DEF Polling
  <2> QED
    BY <1>2, <2>2, <2>3 DEF Get
<1>3. CASE Backend
  <2>1. UNCHANGED <<post, get, collector>>
    BY <1>3 DEF Backend, BackendRecv, BackendStart, BackendStartPanic, BackendRuns,
       BackendRunsPanic, BackendSend, BackendSendFails, BackendFinish, BackendFinishPanic
  <2>2. WorkerFree \/ backend'.pc \notin {"start", "finish"}
    BY <1>3 DEF Backend, BackendRecv, BackendStart, BackendStartPanic, BackendRuns,
       BackendRunsPanic, BackendSend, BackendSendFails, BackendFinish,
       BackendFinishPanic, BackendDies, Task
  <2>3. Polling' \subseteq {"backend"} \cup Polling
    BY <2>1 DEF Polling
  <2>4. backend'.pc \notin {"start", "finish"} => Polling' \subseteq Polling
    BY <2>1 DEF Polling
  <2> QED
    BY <1>0, <1>00, <2>2, <2>3, <2>4
<1>4. CASE Collector
  <2>1. UNCHANGED <<post, get, backend>>
    BY <1>4 DEF Collector, CollectorRecv, CollectorRecvPanic, CollectorPush,
       CollectorEvict, CollectorPushPanic, CollectorClear, CollectorClearPanic
  <2>2. WorkerFree \/ collector'.pc \notin {"push", "clear"} \/ collector.pc = "push"
    BY <1>4 DEF Collector, CollectorRecv, CollectorRecvPanic, CollectorPush,
       CollectorEvict, CollectorPushPanic, CollectorClear, CollectorClearPanic,
       CollectorDies, Task
  <2>3. Polling' \subseteq {"collector"} \cup Polling
    BY <2>1 DEF Polling
  <2>4. collector'.pc \notin {"push", "clear"} \/ collector.pc = "push"
          => Polling' \subseteq Polling
    BY <2>1 DEF Polling
  <2> QED
    BY <1>0, <1>00, <2>2, <2>3, <2>4
<1>5. CASE AtRest \/ UNCHANGED vars
  BY <1>0, <1>5 DEF AtRest, vars, Polling
<1> QED
  BY <1>1, <1>2, <1>3, <1>4, <1>5 DEF Next

LEMMA CollectorDiesStep ==
  ASSUME TypeOK, StatusPoisonedFirst, CollectorDiesLast, [Next]_vars
  PROVE  CollectorDiesLast'
<1> USE DEF shared, channels, history
<1>1. CASE CollectorRecvPanic \/ CollectorPushPanic \/ CollectorClearPanic
  BY <1>1 DEF CollectorRecvPanic, CollectorPushPanic, CollectorClearPanic,
     CollectorDies, Task, StatusPoisonedFirst, CollectorDiesLast, Poisoned
<1>2. ASSUME collector'.pc = "dead" => collector.pc = "dead" PROVE CollectorDiesLast'
  BY <1>2, BreaksForGood DEF CollectorDiesLast, Poisoned
<1>3. ASSUME NEW j \in Jobs, Post(j) PROVE UNCHANGED collector
  BY <1>3 DEF Post, PostInvalid, PostClosed, PostTooMany, PostSend, PostEnqueue, PostPanic
<1>4. ASSUME NEW g \in Gets, Get(g) PROVE UNCHANGED collector
  BY <1>4 DEF Get, GetStatus, GetPanic, GetFind, GetUnreachable
<1>5. ASSUME Backend PROVE UNCHANGED collector
  BY <1>5 DEF Backend, BackendRecv, BackendStart, BackendStartPanic, BackendRuns,
     BackendRunsPanic, BackendSend, BackendSendFails, BackendFinish, BackendFinishPanic
<1>6. ASSUME CollectorRecv \/ CollectorPush \/ CollectorEvict \/ CollectorClear
      PROVE  collector'.pc # "dead"
  BY <1>6 DEF CollectorRecv, CollectorPush, CollectorEvict, CollectorClear, Task
<1>7. ASSUME AtRest \/ UNCHANGED vars PROVE UNCHANGED collector
  BY <1>7 DEF AtRest, vars
<1> QED
  BY <1>1, <1>2, <1>3, <1>4, <1>5, <1>6, <1>7 DEF Next, Collector

LEMMA LagStep ==
  ASSUME TypeOK, Alone, Alone', CollectorDiesLast, Lag, Workers = 1, [Next]_vars
  PROVE  Lag'
<1> DEFINE queued == server_status.jobs_in_queue
           current == server_status.current_job
<1> USE DEF shared, channels, history
<1>0. /\ server_status \in Status!ServerStatusType(Jobs)
      /\ queued \in Seq(Jobs) /\ register_job \in Seq(Jobs)
  BY DEF TypeOK, Status!ServerStatusType
<1>s. \A j \in Jobs : j # "backend"
  BY PipelineAssumption
<1>p. ASSUME NEW j \in Jobs, post[j] = "sent"
      PROVE  /\ backend.pc # "start"
             /\ \A k \in Jobs : post[k] = "sent" => k = j
  BY <1>p, <1>s DEF Alone, Polling
<1>w. WorkerFree => backend.pc # "start" /\ \A j \in Jobs : post[j] # "sent"
  BY NobodyIsPolled DEF Polling
<1> SUFFICES ASSUME ~ Poisoned("status")', backend'.pc # "dead" PROVE Lag'
  BY DEF Lag
<1>1. ~ Poisoned("status") /\ backend.pc # "dead"
  BY BreaksForGood DEF Poisoned
<1>2. ASSUME UNCHANGED <<register_job, post, backend>>, UNCHANGED <<queued, current>>
      PROVE  Lag'
  BY <1>1, <1>2 DEF Lag
<1>3. ASSUME NEW j \in Jobs, Post(j) PROVE Lag'
  <2>1. CASE PostSend(j)
    <3>1. /\ WorkerFree /\ register_job' = Append(register_job, j)
          /\ post' = [post EXCEPT ![j] = "sent"] /\ DOMAIN post = Jobs
          /\ UNCHANGED <<server_status, backend>>
      BY <2>1 DEF PostSend, TypeOK
    <3>2. queued = register_job /\ current = backend.job /\ backend.pc # "start"
      BY <1>1, <1>w, <3>1 DEF Lag
    <3>3. post'[j] = "sent" /\ \A k \in Jobs : post'[k] = "sent" => k = j
      BY <1>w, <3>1
    <3> QED
      BY <3>1, <3>2, <3>3 DEF Lag
  <2>2. CASE PostEnqueue(j)
    <3>1. /\ post[j] = "sent" /\ post' = [post EXCEPT ![j] = "accepted"]
          /\ DOMAIN post = Jobs
          /\ server_status' = Status!JobEnqueued(server_status, j)
          /\ UNCHANGED <<register_job, backend>>
      BY <2>2 DEF PostEnqueue, TypeOK
    <3>2. queued' = Append(queued, j) /\ current' = current
      BY <1>0, <3>1 DEF Status!JobEnqueued, Status!ServerStatusType
    <3>3. \A k \in Jobs : post'[k] # "sent"
      BY <1>p, <3>1
    <3>4. backend.pc # "start" /\ register_job = Append(queued, j) /\ current = backend.job
      BY <1>1, <1>p, <3>1 DEF Lag
    <3> QED
      BY <3>1, <3>2, <3>3, <3>4 DEF Lag
  <2>3. CASE PostPanic(j)
    BY <1>1, <2>3 DEF PostPanic
  <2>4. CASE PostInvalid(j) \/ PostClosed(j) \/ PostTooMany(j)
    <3>1. /\ UNCHANGED <<register_job, server_status, backend>>
          /\ \A k \in Jobs : post'[k] = "sent" <=> post[k] = "sent"
      BY <2>4 DEF PostInvalid, PostClosed, PostTooMany, TypeOK
    <3> QED
      BY <1>1, <3>1 DEF Lag
  <2> QED
    BY <1>3, <2>1, <2>2, <2>3, <2>4 DEF Post
<1>4. ASSUME NEW g \in Gets, Get(g) PROVE Lag'
  BY <1>2, <1>4 DEF Get, GetStatus, GetPanic, GetFind, GetUnreachable
<1>5. CASE BackendRecv
  <2>1. /\ WorkerFree /\ register_job # <<>>
        /\ register_job' = Tail(register_job)
        /\ backend'.pc = "start" /\ backend'.job = Head(register_job)
        /\ UNCHANGED <<server_status, post>>
    BY <1>5 DEF BackendRecv, Task
  <2>2. /\ queued = register_job /\ current = NoJob
        /\ \A j \in Jobs : post[j] # "sent"
    BY <1>1, <1>5, <1>w, <2>1 DEF Lag, BackendRecv, TypeOK
  <2>3. <<Head(register_job)>> \o Tail(register_job) = register_job
    BY <1>0, <2>1
  <2> QED
    BY <2>1, <2>2, <2>3 DEF Lag
<1>6. CASE BackendStart
  <2>1. /\ backend.pc = "start" /\ backend'.pc = "run" /\ backend'.job = backend.job
        /\ server_status' = Status!JobStarted(server_status, backend.job)
        /\ UNCHANGED <<register_job, post>>
    BY <1>6 DEF BackendStart, Task
  <2>2. queued' = Tail(queued) /\ current' = backend.job
    BY <1>0, <2>1 DEF Status!JobStarted, Status!ServerStatusType
  <2>3. queued = <<backend.job>> \o register_job
    BY <1>1, <2>1 DEF Lag
  <2>4. Tail(queued) = register_job
    <3>1. PICK r \in Seq(Jobs) : r = register_job
      BY <1>0
    <3>2. PICK j \in Jobs : j = backend.job
      BY <2>1 DEF TypeOK
    <3>3. Tail(<<j>> \o r) = r
      OBVIOUS
    <3> QED
      BY <2>3, <3>1, <3>2, <3>3
  <2>5. \A j \in Jobs : post[j] # "sent"
    BY <1>p, <2>1
  <2> QED
    BY <2>1, <2>2, <2>4, <2>5 DEF Lag
<1>7. CASE BackendRuns \/ BackendSend
  <2>1. /\ backend.pc # "start" /\ backend'.pc # "start" /\ backend'.job = backend.job
        /\ UNCHANGED <<register_job, post, server_status>>
    BY <1>7 DEF BackendRuns, BackendSend, Task
  <2> QED
    BY <1>1, <2>1 DEF Lag
<1>8. CASE BackendFinish
  <2>1. /\ backend.pc # "start" /\ backend'.pc # "start" /\ backend'.job = NoJob
        /\ server_status' = Status!JobFinished(server_status, backend.job)
        /\ UNCHANGED <<register_job, post>>
    BY <1>8 DEF BackendFinish, Task
  <2>2. queued' = queued /\ current' = NoJob
    BY <1>0, <2>1 DEF Status!JobFinished, Status!ServerStatusType
  <2> QED
    BY <1>1, <2>1, <2>2 DEF Lag
<1>9. CASE \/ BackendStartPanic \/ BackendRunsPanic \/ BackendFinishPanic
           \/ BackendSendFails
  BY <1>1, <1>9 DEF BackendStartPanic, BackendRunsPanic, BackendFinishPanic,
     BackendSendFails, BackendDies, Task, CollectorDiesLast
<1>10. CASE Collector /\ ~ CollectorClear
  BY <1>2, <1>10 DEF Collector, CollectorRecv, CollectorRecvPanic, CollectorPush,
     CollectorEvict, CollectorPushPanic, CollectorClearPanic
<1>11. CASE CollectorClear
  <2>1. /\ UNCHANGED <<register_job, post, backend>>
        /\ server_status' = Status!JobCleared(server_status, DroppedJob)
    BY <1>11 DEF CollectorClear
  <2>2. UNCHANGED <<queued, current>>
    BY <1>0, <2>1 DEF Status!JobCleared, Status!ServerStatusType
  <2> QED
    BY <1>2, <2>1, <2>2
<1>12. CASE AtRest \/ UNCHANGED vars
  BY <1>2, <1>12 DEF AtRest, vars
<1> QED
  BY <1>3, <1>4, <1>5, <1>6, <1>7, <1>8, <1>9, <1>10, <1>11, <1>12
     DEF Next, Backend, Collector

SingleWorkerInv == CollectorDiesLast /\ (Workers = 1 => Alone /\ Lag)

LEMMA SingleWorkerInit == Init => SingleWorkerInv
BY PipelineAssumption DEF Init, SingleWorkerInv, CollectorDiesLast, Alone, Lag,
   Polling, Task, Request, Status!EmptyStatus

LEMMA SingleWorkerStep ==
  ASSUME TypeOK, StatusPoisonedFirst, SingleWorkerInv, [Next]_vars
  PROVE  SingleWorkerInv'
BY CollectorDiesStep, AloneStep, LagStep DEF SingleWorkerInv

LEMMA MirrorsWhenIdle == SingleWorkerInv => StatusMirrorsChannel
BY DEF SingleWorkerInv, Lag, StatusMirrorsChannel, Polling

(* On a runtime with one worker thread the record that GET /status shows   *)
(* is true whenever nobody is being polled: nothing comes between a step   *)
(* of the channel and the one of the record that goes with it              *)
(* (routes.rs:38-41, app.rs:29-32).                                        *)
THEOREM StatusIsTrue == Spec => []StatusMirrorsChannel
<1>1. TypeOK /\ StatusPoisonedFirst /\ SingleWorkerInv /\ [Next]_vars => SingleWorkerInv'
  BY SingleWorkerStep
<1> QED
  BY <1>1, SingleWorkerInit, MirrorsWhenIdle, TypeCorrect, StatusIsPoisonedFirst, PTL
     DEF Spec
-----------------------------------------------------------------------------
(* All that holds of the server, for those who start its handlers.         *)
ServerInv ==
  /\ TypeOK /\ QueueBounded /\ StatusPoisonedFirst
  /\ StatusInv /\ CurrentInv /\ FullAfterEviction /\ SingleWorkerInv

LEMMA ServerInit == Init => ServerInv
<1>1. Init => FullAfterEviction
  BY DEF Init, FullAfterEviction, Task
<1> QED
  BY <1>1, TypeInit, BoundedInit, PoisonedFirstInit, StatusInit, CurrentInit,
     SingleWorkerInit DEF ServerInv

LEMMA ServerStep ==
  ASSUME ServerInv, [Next]_vars
  PROVE  ServerInv'
<1>1. TypeOK /\ TypeOK'
  BY TypeStep DEF ServerInv
<1>2. QueueBounded' /\ StatusPoisonedFirst' /\ CurrentInv'
  BY <1>1, BoundedStep, PoisonedFirstStep, CurrentStep DEF ServerInv
<1>3. StatusInv'
  BY <1>1, StatusStep DEF ServerInv
<1>4. FullAfterEviction' /\ SingleWorkerInv'
  BY <1>1, FullStep, SingleWorkerStep DEF ServerInv
<1> QED
  BY <1>1, <1>2, <1>3, <1>4 DEF ServerInv
=============================================================================
