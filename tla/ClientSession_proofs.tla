-------------------------- MODULE ClientSession_proofs --------------------------
(***************************************************************************)
(* The server as it is seen from outside, for every set of jobs and        *)
(* requests, every capacity and every number of worker threads.  First:    *)
(* it implements the promised service of JobService.  Each step of the     *)
(* server is matched with the step of the service it performs, or with     *)
(* none.  Then: what the clients of ClientSession, who make the handlers   *)
(* run, are told, and that all the rest holds with them as well.           *)
(***************************************************************************)
EXTENDS ClientSession, JobPipelineStatus_proofs

Completed == cleared \o Results
Up == backend.pc # "dead" /\ collector.pc # "dead"

(* What the service sees of the server.                                    *)
Visible == <<ToSet(accepted), register_job, Executing, Completed, Len(cleared), Up>>

LEMMA CompletedIsLonger ==
  ASSUME TypeOK
  PROVE  /\ Completed \in Seq(Jobs) /\ cleared \in Seq(Jobs)
         /\ Len(cleared) \in Nat /\ Len(Completed) \in Nat
         /\ Len(Completed) = Len(cleared) + Len(Results)
         /\ Len(Results) \in Nat
         /\ SubSeq(Completed, 1, Len(Completed)) = Completed
<1>1. PICK c \in Seq(Jobs) : c = cleared
  BY DEF TypeOK
<1>2. PICK t \in Seq(Jobs) : t = Results
  BY LineParts
<1>3. PICK ct \in Seq(Jobs) : ct = c \o t
  BY ConcatProperties
<1>4. Len(ct) = Len(c) + Len(t) /\ Len(c) \in Nat /\ Len(t) \in Nat
  BY <1>3, ConcatProperties, LenProperties
<1>5. SubSeq(ct, 1, Len(ct)) = ct
  BY SubSeqFull
<1> QED
  BY <1>1, <1>2, <1>3, <1>4, <1>5 DEF Completed
-----------------------------------------------------------------------------
(* The steps that the service does not see: bookkeeping in the record,     *)
(* results on their way into the queue, and requests that change nothing.  *)
LEMMA Unseen ==
  ASSUME TypeOK,
         \/ \E j \in Jobs : Post(j) /\ ~ PostSend(j)
         \/ \E g \in Gets : Get(g)
         \/ BackendStart \/ BackendRuns \/ BackendFinish
         \/ CollectorRecv \/ CollectorPush \/ CollectorClear
         \/ AtRest \/ UNCHANGED vars
  PROVE  Visible' = Visible
<1> USE DEF shared, channels, history
<1> DEFINE Same == UNCHANGED <<accepted, register_job, Executing, cleared, Results, Up>>
<1>1. Same => Visible' = Visible
  BY DEF Visible, Completed
<1>2. CASE \/ \E j \in Jobs : Post(j) /\ ~ PostSend(j)
           \/ \E g \in Gets : Get(g)
           \/ BackendStart \/ BackendRuns \/ BackendFinish
           \/ AtRest \/ UNCHANGED vars
  <2>1. UNCHANGED <<accepted, cleared, Results, Up>>
    BY <1>2, LineStays DEF Up
  <2>2. UNCHANGED <<register_job, Executing>>
    <3>1. ASSUME NEW j \in Jobs, Post(j), ~ PostSend(j) PROVE UNCHANGED <<register_job, backend>>
      BY <3>1 DEF Post, PostInvalid, PostClosed, PostTooMany, PostEnqueue, PostPanic
    <3>2. ASSUME NEW g \in Gets, Get(g) PROVE UNCHANGED <<register_job, backend>>
      BY <3>2 DEF Get, GetStatus, GetPanic, GetFind, GetUnreachable
    <3>3. ASSUME BackendStart \/ BackendRuns \/ BackendFinish
          PROVE  UNCHANGED <<register_job, Executing>>
      BY <3>3 DEF BackendStart, BackendRuns, BackendFinish, Executing, Task
    <3>4. ASSUME AtRest \/ UNCHANGED vars PROVE UNCHANGED <<register_job, backend>>
      BY <3>4 DEF AtRest, vars
    <3>5. UNCHANGED backend => UNCHANGED Executing
      BY DEF Executing
    <3> QED
      BY <1>2, <3>1, <3>2, <3>3, <3>4, <3>5
  <2> QED
    BY <1>1, <2>1, <2>2
<1>3. CASE CollectorRecv \/ CollectorPush \/ CollectorClear
  <2>1. Results' = Results
    BY <1>3, LineReceives, LinePushes
  <2>2. /\ UNCHANGED <<accepted, register_job, backend, cleared>>
        /\ collector.pc # "dead" /\ collector'.pc # "dead"
    BY <1>3 DEF CollectorRecv, CollectorPush, CollectorClear, Task
  <2> QED
    BY <1>1, <2>1, <2>2 DEF Executing, Up
<1> QED
  BY <1>2, <1>3

LEMMA SendAccepts ==
  ASSUME TypeOK, AcceptedOnce, NEW j \in Jobs, PostSend(j)
  PROVE  Promise!Accept(j)
<1>1. /\ accepted' = Append(accepted, j) /\ register_job' = Append(register_job, j)
      /\ Len(register_job) < MaxJobs /\ post[j] = "new"
      /\ UNCHANGED <<backend, collector>>
  BY DEF PostSend, HasRoom, shared
<1>2. UNCHANGED <<cleared, Results>>
  BY LineAccepts
<1>3. j \notin ToSet(accepted) /\ ToSet(accepted') = ToSet(accepted) \cup {j}
  BY <1>1, ElementsOfAppend DEF AcceptedOnce, TypeOK
<1> QED
  BY <1>1, <1>2, <1>3 DEF Promise!Accept, Executing

LEMMA RecvBegins ==
  ASSUME TypeOK, BackendRecv
  PROVE  Promise!Begin
<1>1. /\ register_job # <<>> /\ register_job' = Tail(register_job)
      /\ Executing = NoJob /\ Executing' = Head(register_job)
      /\ UNCHANGED <<accepted, cleared, collector>>
      /\ backend.pc # "dead" /\ backend'.pc # "dead"
  BY DEF BackendRecv, Executing, Task, shared, history
<1>2. Results' = Results
  BY LineBegins
<1> QED
  BY <1>1, <1>2 DEF Promise!Begin

LEMMA SendCompletes ==
  ASSUME TypeOK, BackendSend
  PROVE  Promise!Complete
<1>1. /\ Executing = backend.job /\ Executing' = NoJob /\ backend.job \in Jobs
      /\ UNCHANGED <<accepted, cleared, collector, register_job>>
      /\ backend.pc # "dead" /\ backend'.pc # "dead" /\ collector.pc # "dead"
  BY DEF BackendSend, Executing, Task, shared, history, TypeOK
<1>2. (cleared \o Results)' = (cleared \o Results) \o <<backend.job>>
  BY LineSends
<1>3. PICK j \in Jobs : j = backend.job
  BY <1>1
<1>4. PICK all \in Seq(Jobs) : all = cleared \o Results
  BY LineParts
<1>5. Append(all, j) = all \o <<j>>
  BY AppendIsConcatOne
<1>6. (cleared \o Results)' = Append(cleared \o Results, Executing)
  BY <1>1, <1>2, <1>3, <1>4, <1>5
<1> QED
  BY <1>1, <1>6, PipelineAssumption DEF Promise!Complete

LEMMA EvictionDrops ==
  ASSUME TypeOK, CollectorEvict
  PROVE  Promise!Drop
<1>1. /\ UNCHANGED <<accepted, register_job, backend>>
      /\ collector.pc # "dead" /\ collector'.pc # "dead"
      /\ cleared' = Append(cleared, Head(finished_job_queue))
      /\ Len(finished_job_queue) = MaxJobs
      /\ InCollector = <<collector.job>> /\ collector.job \in Jobs
  BY DEF CollectorEvict, InCollector, Task, channels, TypeOK
<1>2. (cleared \o Results)' = cleared \o Results
  BY LineEvicts
<1>3. Len(cleared') = Len(cleared) + 1
  BY <1>1 DEF TypeOK
<1>4. Len(Results) > MaxJobs
  <2>1. PICK q \in Seq(Jobs) : q = finished_job_queue
    BY DEF TypeOK
  <2>2. PICK f \in Seq(Jobs) : f = finished_job
    BY DEF TypeOK
  <2>3. PICK j \in Jobs : j = collector.job
    BY <1>1
  <2>4. Len((q \o <<j>>) \o f) > Len(q)
    OBVIOUS
  <2> QED
    BY <1>1, <2>1, <2>2, <2>3, <2>4 DEF Results
<1>5. Len(cleared \o Results) - Len(cleared) > MaxJobs
  BY <1>4, CompletedIsLonger, PipelineAssumption DEF Completed
<1> QED
  BY <1>1, <1>2, <1>3, <1>5 DEF Promise!Drop, Executing

(* The death of `run`, and a result that nobody takes any more.            *)
LEMMA BackendFails ==
  ASSUME TypeOK,
         BackendStartPanic \/ BackendRunsPanic \/ BackendFinishPanic \/ BackendSendFails
  PROVE  Promise!Fail
<1>1. /\ Executing' = NoJob /\ register_job' \in {register_job, <<>>}
      /\ UNCHANGED <<accepted, cleared, finished_job_queue, InCollector, finished_job>>
      /\ ~ Up'
  BY DEF BackendStartPanic, BackendRunsPanic, BackendFinishPanic, BackendSendFails,
     BackendDies, InCollector, Executing, Up, Task, shared, channels, history
<1>2. Completed' = Completed
  BY <1>1 DEF Completed, Results
<1>3. /\ Len(Completed) \in Len(cleared) .. Len(Completed)
      /\ Completed' = SubSeq(Completed, 1, Len(Completed))
  BY <1>2, CompletedIsLonger
<1> QED
  BY <1>1, <1>3 DEF Promise!Fail, Completed, Up

(* The collector takes with it the result it has and those in its channel. *)
LEMMA CollectorFails ==
  ASSUME TypeOK, CollectorRecvPanic \/ CollectorPushPanic \/ CollectorClearPanic
  PROVE  Promise!Fail
<1>1. /\ UNCHANGED <<accepted, cleared, finished_job_queue, register_job, backend>>
      /\ InCollector' = <<>> /\ finished_job' = <<>> /\ ~ Up'
  BY DEF CollectorRecvPanic, CollectorPushPanic, CollectorClearPanic, CollectorDies,
     InCollector, Up, Task, shared, history
<1>2. PICK c \in Seq(Jobs) : c = cleared
  BY DEF TypeOK
<1>3. PICK q \in Seq(Jobs) : q = finished_job_queue
  BY DEF TypeOK
<1>4. PICK i \in Seq(Jobs) : i = InCollector
  BY LineParts
<1>5. PICK f \in Seq(Jobs) : f = finished_job
  BY DEF TypeOK
<1>6. PICK cq \in Seq(Jobs) : cq = c \o q
  BY ConcatProperties
<1>7. PICK all \in Seq(Jobs) : all = c \o ((q \o i) \o f)
  <2>1. PICK qi \in Seq(Jobs) : qi = q \o i
    BY ConcatProperties
  <2>2. PICK qif \in Seq(Jobs) : qif = qi \o f
    BY ConcatProperties
  <2> QED
    BY <2>1, <2>2, ConcatProperties
<1>8. Completed = all
  BY <1>2, <1>3, <1>4, <1>5, <1>7 DEF Completed, Results
<1>9. Completed' = cq
  <2>1. (q \o <<>>) \o <<>> = q
    BY ConcatEmptySeq
  <2> QED
    BY <1>1, <1>2, <1>3, <1>6, <2>1 DEF Completed, Results
<1>10. Len(cq) \in Len(c) .. Len(all) /\ cq = SubSeq(all, 1, Len(cq))
  BY <1>6, <1>7, CutAfterTwo
<1> QED
  BY <1>1, <1>2, <1>8, <1>9, <1>10 DEF Promise!Fail, Executing, Completed, Up
-----------------------------------------------------------------------------
LEMMA ServiceInit == Init => Promise!Init
<1> SUFFICES ASSUME Init PROVE Promise!Init
  OBVIOUS
<1>1. /\ accepted = <<>> /\ register_job = <<>> /\ Executing = NoJob
      /\ cleared = <<>> /\ Results = <<>> /\ Up
  BY DEF Init, Task, Executing, Results, InCollector, Up
<1>2. ToSet(<<>>) = {} /\ <<>> \o <<>> = <<>> /\ Len(<<>>) = 0
  <2>1. <<>> \in Seq(Jobs)
    BY EmptySeq
  <2> QED
    BY <2>1, ElementsOfOne, ConcatEmptySeq, EmptySeq
<1> QED
  BY <1>1, <1>2 DEF Promise!Init, Up

LEMMA ServiceStep ==
  ASSUME TypeOK, AcceptedOnce, [Next]_vars
  PROVE  [Promise!Next]_(Promise!vars)
<1>1. CASE \/ \E j \in Jobs : Post(j) /\ ~ PostSend(j)
           \/ \E g \in Gets : Get(g)
           \/ BackendStart \/ BackendRuns \/ BackendFinish
           \/ CollectorRecv \/ CollectorPush \/ CollectorClear
           \/ AtRest \/ UNCHANGED vars
  <2>1. Visible' = Visible
    BY <1>1, Unseen
  <2> QED
    BY <2>1 DEF Visible, Completed, Up, Promise!vars
<1>2. ASSUME NEW j \in Jobs, PostSend(j) PROVE Promise!Next
  BY <1>2, SendAccepts DEF Promise!Next
<1>3. CASE BackendRecv
  BY <1>3, RecvBegins DEF Promise!Next
<1>4. CASE BackendSend
  BY <1>4, SendCompletes DEF Promise!Next
<1>5. CASE CollectorEvict
  BY <1>5, EvictionDrops DEF Promise!Next
<1>6. CASE BackendStartPanic \/ BackendRunsPanic \/ BackendFinishPanic \/ BackendSendFails
  BY <1>6, BackendFails DEF Promise!Next
<1>7. CASE CollectorRecvPanic \/ CollectorPushPanic \/ CollectorClearPanic
  BY <1>7, CollectorFails DEF Promise!Next
<1> QED
  BY <1>1, <1>2, <1>3, <1>4, <1>5, <1>6, <1>7 DEF Next, Backend, Collector

(* The server keeps the promise of JobService: whatever the interleaving of*)
(* the handlers, `run` and the collector, and whatever panics, an accepted *)
(* job is executed at most once and in its turn, its result is kept until  *)
(* there are more than max_jobs_in_queue newer ones or a part of the server*)
(* has failed, and nothing completes after that (app.rs:20-95, 121-151).   *)
THEOREM ServerKeepsPromise == Spec => ImplementsJobService
<1>1. Init => Promise!Init
  BY ServiceInit
<1>2. TypeOK /\ StatusInv /\ [Next]_vars => [Promise!Next]_(Promise!vars)
  BY ServiceStep DEF StatusInv
<1> QED
  BY <1>1, <1>2, TypeCorrect, StatusCorrect, PTL
     DEF Spec, ImplementsJobService, Promise!Spec
-----------------------------------------------------------------------------
(* The turns of a session: which answers it can be waiting for where it is,*)
(* and how far the handlers of its job have come then.                     *)
PostAnswers == {"accepted", "invalid", "closed", "too_many", "unauthorized",
                "panicked"}
GetAnswers == {"found", "not_found", "too_early", "panicked"}

InTurnOf(j) ==
  /\ session[j] = "new" => answer[j] = "none" /\ post[j] = "new"
  /\ session[j] = "posting" =>
       /\ answer[j] \in {"awaited"} \cup PostAnswers
       /\ answer[j] = "awaited" => post[j] \in {"new", "sent"}
  /\ session[j] = "polls" => answer[j] = "none"
  /\ session[j] = "polling" => answer[j] \in {"awaited"} \cup GetAnswers
  /\ session[j] \in {"polls", "polling"} \/ answer[j] = "accepted"
       => post[j] = "accepted"
  /\ get[GetOf[j]].pc = "find" => answer[j] = "awaited" /\ post[j] = "accepted"

InTurn == \A j \in Jobs : InTurnOf(j)

RequestStates ==
  [pc : {"new", "answered", "panicked"}, id : {NoJob}] \cup [pc : {"find"}, id : Jobs]

(* A session makes the handlers of the server run, and changes the server  *)
(* by nothing else but a request of its own.                               *)
LEMMA SessionsRunServer ==
  ASSUME [SessionNext]_sessionVars
  PROVE  [Next]_vars \/ \E j \in Jobs : ClientPolls(j)
<1>1. ASSUME NEW j \in Jobs,
             ClientPosts(j) \/ Client(j) \/ ConnectionLost(j)
      PROVE  UNCHANGED vars \/ ClientPolls(j)
  BY <1>1 DEF ClientPosts, Client, ClientReceivesPost, ClientReceivesGet, ConnectionLost
<1>2. ASSUME NEW j \in Jobs, Server(j) PROVE [Next]_vars
  <2>1. GetOf[j] \in Gets
    BY SessionAssumption
  <2>2. CASE ServerRefuses(j)
    BY <2>2 DEF ServerRefuses
  <2>3. CASE ServerPosts(j)
    BY <2>3 DEF ServerPosts, Next
  <2>4. CASE ServerGets(j)
    BY <2>1, <2>4 DEF ServerGets, ServerLooks, ServerFinds, ServerPanics, Get, Next
  <2> QED
    BY <1>2, <2>2, <2>3, <2>4 DEF Server
<1>3. CASE Tasks
  BY <1>3 DEF Tasks, Next
<1>4. CASE SessionsAtRest \/ UNCHANGED sessionVars
  BY <1>4 DEF SessionsAtRest, sessionVars
<1> QED
  BY <1>1, <1>2, <1>3, <1>4 DEF SessionNext

(* A new request takes the place of one that was answered.                 *)
LEMMA PollingKeepsServer ==
  ASSUME ServerInv, InTurn, NEW j \in Jobs, ClientPolls(j)
  PROVE  ServerInv'
<1> USE DEF shared, channels, history, ServerInv
<1>1. /\ get' = [get EXCEPT ![GetOf[j]] = Request("new", NoJob)]
      /\ UNCHANGED <<server_status, finished_job_queue, holder, poisoned,
                     register_job, finished_job, post, backend, collector,
                     accepted, cleared>>
  BY DEF ClientPolls
<1>2. get[GetOf[j]].pc # "find" /\ GetOf[j] \in Gets
  BY SessionAssumption DEF InTurn, InTurnOf, ClientPolls
<1>3. TypeOK'
  BY <1>1, <1>2 DEF TypeOK, Request
<1>4. QueueBounded' /\ StatusPoisonedFirst' /\ FullAfterEviction'
  BY <1>1 DEF QueueBounded, StatusPoisonedFirst, FullAfterEviction, Poisoned
<1>5. UNCHANGED <<Results, Line, BeingDropped, BeingMarked>>
  BY <1>1 DEF Results, Line, InCollector, InBackend, BeingDropped, BeingMarked, DroppedJob
<1>6. StatusInv'
  BY <1>1, <1>5 DEF StatusInv, FirstComeFirstServed, AcceptedOnce,
     NewestIsMarkedNext, DropsOne, FinishedMeansKept, Poisoned
<1>7. CurrentInv'
  BY <1>1 DEF CurrentInv, Unmarked
<1>8. Polling' = Polling
  <2>1. DOMAIN get = Gets
    BY DEF TypeOK
  <2>2. \A g \in Gets : get'[g].pc = "find" <=> get[g].pc = "find"
    BY <1>1, <1>2, <2>1 DEF Request
  <2> QED
    BY <1>1, <2>2 DEF Polling
<1>9. SingleWorkerInv'
  BY <1>1, <1>8 DEF SingleWorkerInv, CollectorDiesLast, Alone, Lag, Poisoned
<1> QED
  BY <1>3, <1>4, <1>6, <1>7, <1>9
-----------------------------------------------------------------------------
LEMMA TurnsStep ==
  ASSUME TypeOK, TypeOK', SessionTypeOK, InTurn, NEW j \in Jobs,
         ClientPosts(j) \/ Client(j) \/ ConnectionLost(j) \/ Server(j)
  PROVE  SessionTypeOK' /\ InTurn'
<1> DEFINE Others == \A k \in Jobs : k # j =>
             UNCHANGED <<session[k], answer[k], post[k], get[GetOf[k]]>>
<1> USE DEF shared, channels, history, clientVars
<1>0. /\ DOMAIN session = Jobs /\ DOMAIN answer = Jobs
      /\ DOMAIN post = Jobs /\ DOMAIN get = Gets
      /\ \A k \in Jobs : GetOf[k] \in Gets /\ (GetOf[k] = GetOf[j] => k = j)
      /\ InTurnOf(j)
  BY SessionAssumption DEF TypeOK, SessionTypeOK, InTurn
<1>a. ASSUME Others, InTurnOf(j)' PROVE InTurn'
  <2>1. ASSUME NEW k \in Jobs, k # j PROVE InTurnOf(k)'
    BY <1>a, <2>1 DEF InTurn, InTurnOf
  <2> QED
    BY <1>a, <2>1 DEF InTurn
<1>b. ASSUME NEW s \in {"new", "posting", "polls", "polling"} \cup Ended,
             NEW a \in {"none", "awaited"} \cup PostAnswers \cup GetAnswers,
             session' \in {session, [session EXCEPT ![j] = s]},
             answer' \in {answer, [answer EXCEPT ![j] = a]},
             overtaken' = overtaken
      PROVE  SessionTypeOK'
  BY <1>b DEF SessionTypeOK, PostAnswers, GetAnswers
<1>1. CASE ClientPosts(j)
  <2>1. /\ session' = [session EXCEPT ![j] = "posting"]
        /\ answer' = [answer EXCEPT ![j] = "awaited"]
        /\ UNCHANGED <<post, get, overtaken>> /\ session[j] = "new"
    BY <1>1 DEF ClientPosts, vars
  <2>2. Others /\ InTurnOf(j)'
    BY <1>0, <2>1 DEF InTurnOf
  <2> QED
    BY <1>a, <1>b, <2>1, <2>2
<1>2. CASE ClientReceivesPost(j)
  <2>1. /\ session[j] = "posting" /\ answer[j] \in PostAnswers
        /\ session' = [session EXCEPT ![j] = AfterPost(answer[j])]
        /\ answer' = [answer EXCEPT ![j] = "none"]
        /\ UNCHANGED <<post, get, overtaken>>
    BY <1>0, <1>2 DEF ClientReceivesPost, vars, InTurnOf
  <2>2. /\ AfterPost(answer[j]) \in {"polls"} \cup Ended
        /\ AfterPost(answer[j]) \notin {"new", "posting", "polling"}
        /\ (AfterPost(answer[j]) = "polls" => answer[j] = "accepted")
    BY <2>1 DEF AfterPost, PostAnswers, Ended
  <2>3. Others /\ InTurnOf(j)'
    BY <1>0, <2>1, <2>2 DEF InTurnOf, PostAnswers
  <2> QED
    BY <1>a, <1>b, <2>1, <2>2, <2>3
<1>3. CASE ClientPolls(j)
  <2>1. /\ session[j] = "polls"
        /\ session' = [session EXCEPT ![j] = "polling"]
        /\ answer' = [answer EXCEPT ![j] = "awaited"]
        /\ get' = [get EXCEPT ![GetOf[j]] = Request("new", NoJob)]
        /\ UNCHANGED <<post, overtaken>>
    BY <1>3 DEF ClientPolls
  <2>2. get'[GetOf[j]].pc = "new"
    BY <1>0, <2>1 DEF Request
  <2>3. Others
    BY <1>0, <2>1
  <2>4. InTurnOf(j)'
    BY <1>0, <2>1, <2>2 DEF InTurnOf
  <2> QED
    BY <1>a, <1>b, <2>1, <2>3, <2>4
<1>4. CASE ClientReceivesGet(j)
  <2>1. /\ session[j] = "polling" /\ answer[j] \in GetAnswers
        /\ session' = [session EXCEPT ![j] = AfterGet(answer[j])]
        /\ answer' = [answer EXCEPT ![j] = "none"]
        /\ UNCHANGED <<post, get, overtaken>>
    BY <1>0, <1>4 DEF ClientReceivesGet, vars, InTurnOf
  <2>2. /\ AfterGet(answer[j]) \in {"polls"} \cup Ended
        /\ AfterGet(answer[j]) \notin {"new", "posting", "polling"}
    BY <2>1 DEF AfterGet, GetAnswers, Ended
  <2>3. Others /\ InTurnOf(j)'
    BY <1>0, <2>1, <2>2 DEF InTurnOf, GetAnswers
  <2> QED
    BY <1>a, <1>b, <2>1, <2>2, <2>3
<1>5. CASE ConnectionLost(j)
  <2>1. /\ session' = [session EXCEPT ![j] = "request_error"]
        /\ UNCHANGED <<answer, post, get, overtaken>>
    BY <1>5 DEF ConnectionLost, vars
  <2>2. Others
    BY <1>0, <2>1
  <2>3. session'[j] = "request_error" /\ UNCHANGED <<answer[j], post[j], get[GetOf[j]]>>
    BY <1>0, <2>1
  <2>4. InTurnOf(j)'
    BY <1>0, <2>1, <2>3 DEF InTurnOf
  <2> QED
    BY <1>a, <1>b, <2>1, <2>2, <2>4 DEF Ended
<1>6. CASE ServerRefuses(j)
  <2>1. /\ answer[j] = "awaited" /\ post[j] = "new"
        /\ answer' = [answer EXCEPT ![j] = "unauthorized"]
        /\ UNCHANGED <<session, post, get, overtaken>>
    BY <1>6 DEF ServerRefuses, Requested, vars
  <2>2. Others /\ InTurnOf(j)'
    BY <1>0, <2>1 DEF InTurnOf, PostAnswers
  <2> QED
    BY <1>a, <1>b, <2>1, <2>2 DEF PostAnswers
<1>7. CASE ServerPosts(j)
  <2>1. /\ answer[j] = "awaited" /\ post[j] \in {"new", "sent"}
        /\ UNCHANGED <<session, get, overtaken>>
        /\ \E to \in {"sent"} \cup PostAnswers : post' = [post EXCEPT ![j] = to]
        /\ answer' = [answer EXCEPT ![j] = IF post'[j] = "sent" THEN @ ELSE post'[j]]
    BY <1>7 DEF ServerPosts, Requested, Post, PostInvalid, PostClosed, PostTooMany,
       PostSend, PostEnqueue, PostPanic, PostAnswers
  <2>2. PICK to \in {"sent"} \cup PostAnswers : post' = [post EXCEPT ![j] = to]
    BY <2>1
  <2>3. post'[j] = to
    BY <1>0, <2>2
  <2>4. answer' = [answer EXCEPT ![j] = IF to = "sent" THEN "awaited" ELSE to]
    BY <2>1, <2>3
  <2>5. answer'[j] = (IF to = "sent" THEN "awaited" ELSE to)
    BY <1>0, <2>4
  <2>6. Others
    BY <1>0, <2>1, <2>2, <2>4
  <2>7. InTurnOf(j)'
    BY <1>0, <2>1, <2>3, <2>5 DEF InTurnOf, PostAnswers
  <2> QED
    BY <1>a, <1>b, <2>1, <2>4, <2>6, <2>7
<1>8. CASE ServerGets(j)
  <2>0. answer[j] = "awaited" /\ post[j] = "accepted"
        /\ session[j] \notin {"new", "posting", "polls"}
    BY <1>0, <1>8 DEF ServerGets, ServerLooks, ServerFinds, ServerPanics, Requested, InTurnOf
  <2>1. /\ UNCHANGED <<session, post, overtaken>>
        /\ \E to \in RequestStates, a \in {"awaited"} \cup GetAnswers :
             /\ get' = [get EXCEPT ![GetOf[j]] = to]
             /\ answer' = [answer EXCEPT ![j] = a]
             /\ to.pc = "find" => a = "awaited"
    <3> USE DEF RequestStates, Request
    <3>1. CASE ServerLooks(j)
      BY <3>1 DEF ServerLooks, GetStatus, Request, Answer, Status!JobStatus, GetAnswers
    <3>2. CASE ServerFinds(j)
      BY <3>2 DEF ServerFinds, GetFind, Request, GetAnswers
    <3>3. CASE ServerPanics(j)
      BY <3>3 DEF ServerPanics, GetPanic, GetUnreachable, Request, GetAnswers
    <3> QED
      BY <1>8, <3>1, <3>2, <3>3 DEF ServerGets
  <2>2. PICK to \in RequestStates, a \in {"awaited"} \cup GetAnswers :
             /\ get' = [get EXCEPT ![GetOf[j]] = to]
             /\ answer' = [answer EXCEPT ![j] = a]
             /\ to.pc = "find" => a = "awaited"
    BY <2>1
  <2>3. get'[GetOf[j]] = to /\ answer'[j] = a
    BY <1>0, <2>2
  <2>4. Others
    BY <1>0, <2>1, <2>2
  <2>5. InTurnOf(j)'
    BY <1>0, <2>0, <2>1, <2>2, <2>3 DEF InTurnOf, GetAnswers
  <2> QED
    BY <1>a, <1>b, <2>1, <2>2, <2>4, <2>5
<1> QED
  BY <1>1, <1>2, <1>3, <1>4, <1>5, <1>6, <1>7, <1>8 DEF Client, Server

LEMMA TurnsKept ==
  ASSUME TypeOK, TypeOK', SessionTypeOK, InTurn, [SessionNext]_sessionVars
  PROVE  SessionTypeOK' /\ InTurn'
<1> USE DEF shared, channels, history, clientVars
<1>1. ASSUME NEW j \in Jobs,
             ClientPosts(j) \/ Client(j) \/ ConnectionLost(j) \/ Server(j)
      PROVE  SessionTypeOK' /\ InTurn'
  BY <1>1, TurnsStep
<1>2. CASE Tasks
  <2>1. UNCHANGED <<session, answer>> /\ overtaken' \in BOOLEAN
    BY <1>2 DEF Tasks, SessionTypeOK
  <2>2. UNCHANGED <<post, get>>
    <3>1. CASE Backend
      BY <3>1 DEF Backend, BackendRecv, BackendStart, BackendStartPanic, BackendRuns,
         BackendRunsPanic, BackendSend, BackendSendFails, BackendFinish, BackendFinishPanic
    <3>2. CASE Collector
      BY <3>2 DEF Collector, CollectorRecv, CollectorRecvPanic, CollectorPush,
         CollectorEvict, CollectorPushPanic, CollectorClear, CollectorClearPanic
    <3> QED
      BY <1>2, <3>1, <3>2 DEF Tasks
  <2> QED
    BY <2>1, <2>2 DEF SessionTypeOK, InTurn, InTurnOf
<1>3. CASE SessionsAtRest \/ UNCHANGED sessionVars
  BY <1>3 DEF SessionsAtRest, sessionVars, vars, SessionTypeOK, InTurn, InTurnOf
<1> QED
  BY <1>1, <1>2, <1>3 DEF SessionNext
-----------------------------------------------------------------------------
(* The record knows every job that was accepted, from the answer to the    *)
(* POST until its result is dropped, unless an id was popped in place of   *)
(* another.                                                                *)
AllKnown ==
  \A j \in Jobs : post[j] = "accepted" =>
    Status!JobStatus(server_status, j) # "NotFound" \/ j \in ToSet(cleared)

LEMMA KnownMeans ==
  ASSUME NEW s, NEW j
  PROVE  Status!JobStatus(s, j) # "NotFound" <=>
           s.current_job = j \/ j \in ToSet(s.jobs_in_queue) \/ j \in s.jobs_finished
BY DEF Status!JobStatus, Status!ToSet, ToSet

LEMMA ClearedGrows ==
  ASSUME TypeOK, [Next]_vars
  PROVE  ToSet(cleared) \subseteq ToSet(cleared')
<1>1. CASE CollectorEvict
  <2>1. cleared' = Append(cleared, Head(finished_job_queue))
        /\ Head(finished_job_queue) \in Jobs
    BY <1>1, PipelineAssumption DEF CollectorEvict, TypeOK
  <2> QED
    BY <2>1, ElementsOfAppend DEF TypeOK
<1>2. CASE CollectorPush \/ CollectorClear
  BY <1>2 DEF CollectorPush, CollectorClear, history
<1> QED
  BY <1>1, <1>2, QueueWriters

LEMMA KnownStep ==
  ASSUME ServerInv, AllKnown, [Next]_vars,
         BackendStart => Status!JobStartedAsExpected(server_status, backend.job)
  PROVE  AllKnown'
<1> DEFINE queued == server_status.jobs_in_queue
           current == server_status.current_job
           finished == server_status.jobs_finished
           In(j) == current = j \/ j \in ToSet(queued) \/ j \in finished
                      \/ j \in ToSet(cleared)
<1> USE DEF shared, channels, history
<1>0. /\ TypeOK /\ queued \in Seq(Jobs) /\ NoJob \notin Jobs
      /\ server_status \in Status!ServerStatusType(Jobs)
  BY PipelineAssumption DEF ServerInv, TypeOK, Status!ServerStatusType
<1>a. ASSUME \A j \in Jobs : /\ post'[j] = "accepted" => post[j] = "accepted" \/ In(j)'
                             /\ In(j) => In(j)'
      PROVE  AllKnown'
  BY <1>a, KnownMeans DEF AllKnown
<1>b. ASSUME UNCHANGED server_status,
             \A j \in Jobs : post'[j] = "accepted" => post[j] = "accepted"
      PROVE  AllKnown'
  BY <1>0, <1>a, <1>b, ClearedGrows
<1>1. ASSUME NEW j \in Jobs, PostEnqueue(j) PROVE AllKnown'
  <2>1. /\ server_status' = Status!JobEnqueued(server_status, j) /\ UNCHANGED cleared
        /\ post' = [post EXCEPT ![j] = "accepted"] /\ DOMAIN post = Jobs
    BY <1>0, <1>1 DEF PostEnqueue, TypeOK
  <2>2. queued' = Append(queued, j) /\ UNCHANGED <<current, finished>>
    BY <1>0, <2>1 DEF Status!JobEnqueued, Status!ServerStatusType
  <2>3. ToSet(queued') = ToSet(queued) \cup {j}
    BY <1>0, <2>2, ElementsOfAppend
  <2> QED
    BY <1>a, <2>1, <2>2, <2>3
<1>2. ASSUME NEW j \in Jobs, Post(j), ~ PostEnqueue(j) PROVE AllKnown'
  <2>1. /\ UNCHANGED server_status
        /\ \A k \in Jobs : post'[k] = "accepted" => post[k] = "accepted"
    BY <1>0, <1>2 DEF Post, PostInvalid, PostClosed, PostTooMany, PostSend, PostPanic, TypeOK
  <2> QED
    BY <1>b, <2>1
<1>3. ASSUME NEW g \in Gets, Get(g) PROVE AllKnown'
  BY <1>b, <1>3 DEF Get, GetStatus, GetPanic, GetFind, GetUnreachable
<1>4. CASE BackendStart
  <2>1. /\ server_status' = Status!JobStarted(server_status, backend.job)
        /\ UNCHANGED <<cleared, post>>
        /\ queued # <<>> /\ Head(queued) = backend.job /\ current = NoJob
    BY <1>4 DEF BackendStart, Status!JobStartedAsExpected
  <2>2. queued' = Tail(queued) /\ current' = backend.job /\ UNCHANGED finished
    BY <1>0, <2>1 DEF Status!JobStarted, Status!ServerStatusType
  <2>3. ToSet(queued) = {Head(queued)} \cup ToSet(Tail(queued))
    BY <1>0, <2>1, ElementsOfHeadTail
  <2> QED
    BY <1>0, <1>a, <2>1, <2>2, <2>3
<1>5. CASE BackendFinish
  <2>1. /\ server_status' = Status!JobFinished(server_status, backend.job)
        /\ UNCHANGED <<cleared, post>> /\ current = backend.job
    BY <1>5 DEF BackendFinish, ServerInv, CurrentInv
  <2>2. /\ UNCHANGED queued /\ current' = NoJob
        /\ finished' = finished \cup {backend.job}
    BY <1>0, <2>1 DEF Status!JobFinished, Status!ServerStatusType
  <2> QED
    BY <1>0, <1>a, <2>1, <2>2
<1>6. CASE Backend /\ ~ BackendStart /\ ~ BackendFinish
  BY <1>b, <1>6 DEF Backend, BackendRecv, BackendStartPanic, BackendRuns,
     BackendRunsPanic, BackendSend, BackendSendFails, BackendFinishPanic
<1>7. CASE CollectorClear
  <2>1. /\ server_status' = Status!JobCleared(server_status, DroppedJob)
        /\ UNCHANGED <<cleared, post>>
    BY <1>7 DEF CollectorClear
  <2>2. UNCHANGED <<queued, current>> /\ finished' = finished \ {DroppedJob}
    BY <1>0, <2>1 DEF Status!JobCleared, Status!ServerStatusType
  <2>3. DroppedJob \in ToSet(cleared)
    BY <1>7, DroppedIsGone DEF ServerInv, StatusInv, CollectorClear, CollectorDies
  <2> QED
    BY <1>a, <2>1, <2>2, <2>3
<1>8. CASE Collector /\ ~ CollectorClear
  BY <1>b, <1>8 DEF Collector, CollectorRecv, CollectorRecvPanic, CollectorPush,
     CollectorEvict, CollectorPushPanic, CollectorClearPanic
<1>9. CASE AtRest \/ UNCHANGED vars
  BY <1>b, <1>9 DEF AtRest, vars
<1> QED
  BY <1>1, <1>2, <1>3, <1>4, <1>5, <1>6, <1>7, <1>8, <1>9 DEF Next, Backend, Collector

-----------------------------------------------------------------------------
(* With a single worker nothing is overtaken: the job that `run` starts is *)
(* the first in the record, and none is current.                           *)
LEMMA NothingOvertakes ==
  ASSUME ServerInv, Workers = 1, BackendStart
  PROVE  Status!JobStartedAsExpected(server_status, backend.job)
<1>1. /\ backend.pc = "start" /\ ~ Poisoned("status")
      /\ register_job \in Seq(Jobs) /\ backend.job \in Jobs
  BY DEF BackendStart, ServerInv, TypeOK
<1>2. /\ server_status.current_job = NoJob
      /\ server_status.jobs_in_queue = <<backend.job>> \o register_job
  BY <1>1 DEF ServerInv, SingleWorkerInv, Lag
<1>3. PICK r \in Seq(Jobs) : r = register_job
  BY <1>1
<1>4. PICK j \in Jobs : j = backend.job
  BY <1>1
<1>5. <<j>> \o r # <<>> /\ Head(<<j>> \o r) = j
  OBVIOUS
<1> QED
  BY <1>2, <1>3, <1>4, <1>5 DEF Status!JobStartedAsExpected

(* What `overtaken` remembers.                                             *)
LEMMA OvertakenStep ==
  ASSUME ServerInv, [SessionNext]_sessionVars
  PROVE  /\ overtaken => overtaken'
         /\ overtaken' /\ ~ overtaken => Workers # 1
         /\ BackendStart /\ ~ overtaken' =>
              Status!JobStartedAsExpected(server_status, backend.job)
<1> USE DEF shared, channels, history, clientVars
<1>1. CASE Tasks
  <2>1. overtaken' = (overtaken \/ /\ backend.pc = "start" /\ backend'.pc = "run"
                                   /\ ~ Status!JobStartedAsExpected(server_status, backend.job))
    BY <1>1 DEF Tasks
  <2>2. BackendStart => backend.pc = "start" /\ backend'.pc = "run"
    BY DEF BackendStart, Task
  <2>3. backend.pc = "start" /\ backend'.pc = "run" => BackendStart
    <3>1. Collector => UNCHANGED backend
      BY DEF Collector, CollectorRecv, CollectorRecvPanic, CollectorPush,
         CollectorEvict, CollectorPushPanic, CollectorClear, CollectorClearPanic
    <3>2. Backend /\ ~ BackendStart => backend.pc # "start" \/ backend'.pc # "run"
      BY DEF Backend, BackendRecv, BackendStartPanic, BackendRuns, BackendRunsPanic,
         BackendSend, BackendSendFails, BackendFinish, BackendFinishPanic,
         BackendDies, Task
    <3> QED
      BY <1>1, <3>1, <3>2 DEF Tasks
  <2> QED
    BY <2>1, <2>2, <2>3, NothingOvertakes
<1>2. CASE ~ Tasks
  <2>1. UNCHANGED <<overtaken, backend>>
    <3>1. ASSUME NEW j \in Jobs,
                 ClientPosts(j) \/ Client(j) \/ ConnectionLost(j)
          PROVE  UNCHANGED <<overtaken, backend>>
      BY <3>1 DEF ClientPosts, Client, ClientReceivesPost, ClientPolls,
         ClientReceivesGet, ConnectionLost, vars
    <3>2. ASSUME NEW j \in Jobs, ServerRefuses(j) \/ ServerPosts(j)
          PROVE  UNCHANGED <<overtaken, backend>>
      BY <3>2 DEF ServerRefuses, ServerPosts, vars, Post, PostInvalid, PostClosed,
         PostTooMany, PostSend, PostEnqueue, PostPanic
    <3>3. ASSUME NEW j \in Jobs, ServerGets(j) PROVE UNCHANGED <<overtaken, backend>>
      BY <3>3 DEF ServerGets, ServerLooks, ServerFinds, ServerPanics, GetStatus,
         GetPanic, GetFind, GetUnreachable
    <3>4. ASSUME SessionsAtRest \/ UNCHANGED sessionVars
          PROVE  UNCHANGED <<overtaken, backend>>
      BY <3>4 DEF SessionsAtRest, sessionVars, vars
    <3> QED
      BY <1>2, <3>1, <3>2, <3>3, <3>4 DEF SessionNext, Server
  <2>2. ~ BackendStart
    BY <2>1 DEF BackendStart, Task
  <2> QED
    BY <2>1, <2>2
<1> QED
  BY <1>1, <1>2
-----------------------------------------------------------------------------
Told(j) == "not_found" \in {answer[j], session[j]}

(* A client is told NotFound by one look at the record, or has been told.  *)
LEMMA ToldStep ==
  ASSUME TypeOK, SessionTypeOK, InTurn, [SessionNext]_sessionVars, NEW k \in Jobs, Told(k)'
  PROVE  \/ Told(k)
         \/ post[k] = "accepted" /\ Status!JobStatus(server_status, k) = "NotFound"
<1> USE DEF shared, channels, history, clientVars
<1>0. /\ DOMAIN session = Jobs /\ DOMAIN answer = Jobs /\ DOMAIN post = Jobs
      /\ InTurnOf(k)
  BY DEF TypeOK, SessionTypeOK, InTurn
<1>1. ASSUME UNCHANGED <<session[k], answer[k]>> PROVE Told(k)
  BY <1>1 DEF Told
<1>2. ASSUME NEW j \in Jobs, ClientPosts(j) \/ ClientPolls(j) \/ ConnectionLost(j)
      PROVE  Told(k)
  BY <1>0, <1>1, <1>2 DEF ClientPosts, ClientPolls, ConnectionLost, Told
<1>3. ASSUME NEW j \in Jobs, ClientReceivesPost(j) PROVE Told(k)
  <2>1. CASE j # k
    BY <1>0, <1>1, <1>3, <2>1 DEF ClientReceivesPost
  <2>2. CASE j = k
    <3>1. /\ answer[k] \in PostAnswers
          /\ session'[k] = AfterPost(answer[k]) /\ answer'[k] = "none"
      BY <1>0, <1>3, <2>2 DEF ClientReceivesPost, InTurnOf
    <3>2. session'[k] # "not_found"
      BY <3>1 DEF AfterPost, PostAnswers
    <3> QED
      BY <3>1, <3>2 DEF Told
  <2> QED
    BY <2>1, <2>2
<1>4. ASSUME NEW j \in Jobs, ClientReceivesGet(j) PROVE Told(k)
  <2>1. CASE j # k
    BY <1>0, <1>1, <1>4, <2>1 DEF ClientReceivesGet
  <2>2. CASE j = k
    <3>1. /\ answer[k] \in GetAnswers
          /\ session'[k] = AfterGet(answer[k]) /\ answer'[k] = "none"
      BY <1>0, <1>4, <2>2 DEF ClientReceivesGet, InTurnOf
    <3>2. session'[k] = "not_found" => answer[k] = "not_found"
      BY <3>1 DEF AfterGet, GetAnswers
    <3> QED
      BY <3>1, <3>2 DEF Told
  <2> QED
    BY <2>1, <2>2
<1>5. ASSUME NEW j \in Jobs, ServerRefuses(j) \/ ServerFinds(j) \/ ServerPanics(j)
      PROVE  Told(k)
  BY <1>0, <1>1, <1>5 DEF ServerRefuses, ServerFinds, ServerPanics, Told
<1>6. ASSUME NEW j \in Jobs, ServerPosts(j) PROVE Told(k)
  <2>1. /\ UNCHANGED session
        /\ \E a \in {"awaited"} \cup PostAnswers : answer' = [answer EXCEPT ![j] = a]
    <3>1. \E to \in {"sent"} \cup PostAnswers : post' = [post EXCEPT ![j] = to]
      BY <1>6 DEF ServerPosts, Post, PostInvalid, PostClosed, PostTooMany,
         PostSend, PostEnqueue, PostPanic, PostAnswers
    <3>2. post'[j] \in {"sent"} \cup PostAnswers
      BY <1>0, <3>1
    <3> QED
      BY <1>6, <3>2 DEF ServerPosts, Requested, PostAnswers
  <2> QED
    BY <1>0, <2>1 DEF Told, PostAnswers
<1>7. ASSUME NEW j \in Jobs, ServerLooks(j), post[j] = "accepted"
      PROVE  \/ Told(k)
             \/ post[k] = "accepted" /\ Status!JobStatus(server_status, k) = "NotFound"
  <2>1. UNCHANGED session /\ answer' = [answer EXCEPT ![j] = Answer(j)]
    BY <1>7 DEF ServerLooks
  <2>2. Answer(j) = "not_found" => Status!JobStatus(server_status, j) = "NotFound"
    BY DEF Answer, Status!JobStatus
  <2> QED
    BY <1>0, <1>7, <2>1, <2>2 DEF Told
<1>8. CASE Tasks \/ SessionsAtRest \/ UNCHANGED sessionVars
  BY <1>1, <1>8 DEF Tasks, SessionsAtRest, sessionVars
<1> QED
  BY <1>2, <1>3, <1>4, <1>5, <1>6, <1>7, <1>8 DEF SessionNext, Client, Server, ServerGets

-----------------------------------------------------------------------------
SessionInv ==
  /\ ServerInv /\ SessionTypeOK /\ InTurn
  /\ overtaken \/ AllKnown
  /\ overtaken => Workers > 1
  /\ MissedOnlyIfSlow

LEMMA SessionInvInit == SessionInit => SessionInv
<1> SUFFICES ASSUME SessionInit PROVE SessionInv
  OBVIOUS
<1>1. /\ ServerInv /\ overtaken = FALSE
      /\ session = [j \in Jobs |-> "new"] /\ answer = [j \in Jobs |-> "none"]
      /\ post = [j \in Jobs |-> "new"]
      /\ get = [g \in Gets |-> Request("new", NoJob)]
  BY ServerInit DEF SessionInit, Init
<1>2. SessionTypeOK
  BY <1>1 DEF SessionTypeOK
<1>3. InTurn
  <2> SUFFICES ASSUME NEW j \in Jobs PROVE InTurnOf(j)
    BY DEF InTurn
  <2>1. GetOf[j] \in Gets
    BY SessionAssumption
  <2>2. get[GetOf[j]].pc = "new"
    BY <1>1, <2>1 DEF Request
  <2> QED
    BY <1>1, <2>2 DEF InTurnOf
<1>4. AllKnown /\ MissedOnlyIfSlow
  BY <1>1 DEF AllKnown, MissedOnlyIfSlow
<1> QED
  BY <1>1, <1>2, <1>3, <1>4 DEF SessionInv

LEMMA SessionInvStep ==
  ASSUME SessionInv, [SessionNext]_sessionVars
  PROVE  SessionInv'
<1> USE DEF SessionInv
<1>1. ServerInv'
  BY SessionsRunServer, ServerStep, PollingKeepsServer
<1>2. TypeOK /\ TypeOK'
  BY <1>1 DEF ServerInv
<1>3. SessionTypeOK' /\ InTurn'
  BY <1>2, TurnsKept
<1>4. (overtaken => Workers > 1)'
  BY OvertakenStep, PipelineAssumption
<1>5. ToSet(cleared) \subseteq ToSet(cleared')
  <2>1. ASSUME NEW j \in Jobs, ClientPolls(j) PROVE UNCHANGED cleared
    BY <2>1 DEF ClientPolls, history
  <2> QED
    BY <1>2, <2>1, SessionsRunServer, ClearedGrows
<1>6. (overtaken \/ AllKnown)'
  <2> SUFFICES ASSUME ~ overtaken' PROVE AllKnown'
    OBVIOUS
  <2>1. AllKnown /\ (BackendStart => Status!JobStartedAsExpected(server_status, backend.job))
    BY OvertakenStep
  <2>2. CASE [Next]_vars
    BY <2>1, <2>2, KnownStep
  <2>3. ASSUME NEW j \in Jobs, ClientPolls(j) PROVE AllKnown'
    BY <2>1, <2>3 DEF ClientPolls, AllKnown, shared, history
  <2> QED
    BY <2>2, <2>3, SessionsRunServer
<1>7. MissedOnlyIfSlow'
  <2> SUFFICES ASSUME NEW j \in Jobs, Told(j)'
               PROVE  (j \in ToSet(cleared) \/ (overtaken /\ Workers > 1))'
    BY DEF MissedOnlyIfSlow, Told
  <2>1. CASE Told(j)
    <3>1. j \in ToSet(cleared) \/ (overtaken /\ Workers > 1)
      BY <2>1 DEF MissedOnlyIfSlow, Told
    <3> QED
      BY <1>5, <3>1, OvertakenStep
  <2>2. CASE post[j] = "accepted" /\ Status!JobStatus(server_status, j) = "NotFound"
    <3>1. j \in ToSet(cleared) \/ overtaken
      BY <2>2 DEF AllKnown
    <3> QED
      BY <1>5, <3>1, OvertakenStep
  <2> QED
    BY <1>2, <2>1, <2>2, ToldStep
<1> QED
  BY <1>1, <1>3, <1>4, <1>6, <1>7

LEMMA SessionCorrect == SessionSpec => []SessionInv
<1>1. SessionInv /\ [SessionNext]_sessionVars => SessionInv'
  BY SessionInvStep
<1> QED
  BY <1>1, SessionInvInit, PTL DEF SessionSpec

(* A session is where its last answer sends it, and every answer of the    *)
(* server is one that the client has a branch for (client/src/lib.rs:      *)
(* 62-115).                                                                *)
THEOREM SessionTypeCorrect == SessionSpec => []SessionTypeOK
<1>1. SessionInv => SessionTypeOK
  BY DEF SessionInv
<1> QED
  BY <1>1, SessionCorrect, PTL

(* A client is told NotFound only if its result was dropped for newer ones,*)
(* or if, with a second worker thread, `job_started` popped an id in place *)
(* of another.  Nothing else loses the id of a job between the answer to   *)
(* its POST and the end of its result, also not the death of a task or a   *)
(* connection (client/src/lib.rs:82-115, lib.rs:67-110).                   *)
THEOREM NotFoundHasACause == SessionSpec => []MissedOnlyIfSlow
<1>1. SessionInv => MissedOnlyIfSlow
  BY DEF SessionInv
<1> QED
  BY <1>1, SessionCorrect, PTL

(* What holds of the server whoever calls its handlers also holds with the *)
(* clients, who call them again and again for one job: its queue is        *)
(* bounded, jobs keep their order, marks stand for results, and on one     *)
(* worker the record is true (routes.rs:28-86, app.rs:20-151).             *)
THEOREM ServerHoldsWithClients ==
  SessionSpec => [](/\ QueueBounded /\ FirstComeFirstServed /\ FinishedMeansKept
                    /\ LastJobStays /\ StatusMirrorsChannel)
<1>1. SessionInv => /\ QueueBounded /\ FirstComeFirstServed /\ FinishedMeansKept
                    /\ LastJobStays /\ StatusMirrorsChannel
  BY FullMeansThere, MirrorsWhenIdle DEF SessionInv, ServerInv, StatusInv
<1> QED
  BY <1>1, SessionCorrect, PTL

(* And it keeps the promise of JobService towards them.                    *)
THEOREM PromiseHoldsWithClients == SessionSpec => ImplementsJobService
<1>1. SessionInit => Promise!Init
  BY ServiceInit DEF SessionInit
<1>2. SessionInv /\ [SessionNext]_sessionVars => [Promise!Next]_(Promise!vars)
  <2> SUFFICES ASSUME SessionInv, [SessionNext]_sessionVars
               PROVE  [Promise!Next]_(Promise!vars)
    OBVIOUS
  <2>1. CASE [Next]_vars
    BY <2>1, ServiceStep DEF SessionInv, ServerInv, StatusInv
  <2>2. ASSUME NEW j \in Jobs, ClientPolls(j) PROVE UNCHANGED Promise!vars
    BY <2>2 DEF ClientPolls, shared, channels, history, Promise!vars, Executing,
       Results, InCollector
  <2> QED
    BY <2>1, <2>2, SessionsRunServer
<1> QED
  BY <1>1, <1>2, SessionCorrect, PTL DEF SessionSpec, ImplementsJobService, Promise!Spec
=============================================================================
