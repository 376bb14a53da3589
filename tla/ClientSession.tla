---------------------------- MODULE ClientSession ----------------------------
(***************************************************************************)
(* Clients of the server of JobPipeline (client/src/lib.rs).  Each session *)
(* is one call of `Client::run`: it posts a job, and when that is accepted *)
(* asks for the result of the id it was given, again and again, until an   *)
(* answer other than 425 arrives.  A session is named by the id its job has*)
(* on the server.                                                          *)
(*                                                                         *)
(* The handlers are those of JobPipeline, and a session makes them run:    *)
(* `post_job` once, `get_job_by_id` for each of its requests.  A session   *)
(* has one request at a time, so one handler record of JobPipeline serves  *)
(* all its requests and is renewed for each.  A connection may be lost; the*)
(* request may be handled all the same, but nobody reads the answer.       *)
(***************************************************************************)
EXTENDS JobPipelineRefinement

CONSTANTS
  GetOf,        \* per session, the handler of its GET requests
  Unreliable    \* the sessions whose connection may be lost

ASSUME SessionAssumption ==
  /\ GetOf \in [Jobs -> Gets]
  /\ Unreliable \subseteq Jobs
  /\ \A j, k \in Jobs : GetOf[j] = GetOf[k] => j = k

VARIABLES
  session,    \* per session, where `run` is, or how it ended
  answer,     \* per session, the answer to its last request
  overtaken   \* history: `job_started` has popped the id of another job

clientVars == <<session, answer>>
sessionVars == <<vars, clientVars, overtaken>>

Ended == {"result", "not_found", "invalid", "unauthorized", "unexpected",
          "request_error"}

SessionInit ==
  /\ Init
  /\ session = [j \in Jobs |-> "new"]
  /\ answer = [j \in Jobs |-> "none"]
  /\ overtaken = FALSE

(* Mutant: the status of an answer is handed on as it is.                  *)
AfterPostRaw(status) == status

(* `post_job`, the answers to POST /job.                                   *)
AfterPost(status) ==
  CASE status = "accepted"     -> "polls"
    [] status = "invalid"      -> "invalid"
    [] status = "unauthorized" -> "unauthorized"
    [] status \in {"too_many", "closed", "panicked"} -> "unexpected"

(* `poll_job_result`, the answers to GET /job/by-id.  After 425 the client *)
(* sleeps for a second and asks again, without limit.                      *)
AfterGet(status) ==
  CASE status = "found"     -> "result"
    [] status = "not_found" -> "not_found"
    [] status = "too_early" -> "polls"
    [] status = "panicked"  -> "unexpected"
-----------------------------------------------------------------------------
(* Steps of a session.                                                     *)
ClientPosts(j) ==
  /\ session[j] = "new"
  /\ session' = [session EXCEPT ![j] = "posting"]
  /\ answer' = [answer EXCEPT ![j] = "awaited"]
  /\ UNCHANGED <<vars, overtaken>>

ClientReceivesPost(j) ==
  /\ session[j] = "posting" /\ answer[j] \notin {"none", "awaited"}
  /\ session' = [session EXCEPT ![j] = AfterPost(answer[j])]
  /\ answer' = [answer EXCEPT ![j] = "none"]
  /\ UNCHANGED <<vars, overtaken>>

ClientPolls(j) ==
  /\ session[j] = "polls"
  /\ session' = [session EXCEPT ![j] = "polling"]
  /\ answer' = [answer EXCEPT ![j] = "awaited"]
  /\ get' = [get EXCEPT ![GetOf[j]] = Request("new", NoJob)]
  /\ UNCHANGED <<shared, channels, post, backend, collector, history, overtaken>>

ClientReceivesGet(j) ==
  /\ session[j] = "polling" /\ answer[j] \notin {"none", "awaited"}
  /\ session' = [session EXCEPT ![j] = AfterGet(answer[j])]
  /\ answer' = [answer EXCEPT ![j] = "none"]
  /\ UNCHANGED <<vars, overtaken>>

(* `send` or `json` fails: Error::Request.  The request may still be on its*)
(* way to the server, or be being handled.                                 *)
ConnectionLost(j) ==
  /\ j \in Unreliable /\ session[j] \in {"posting", "polling"}
  /\ session' = [session EXCEPT ![j] = "request_error"]
  /\ UNCHANGED <<vars, answer, overtaken>>

Client(j) == ClientReceivesPost(j) \/ ClientPolls(j) \/ ClientReceivesGet(j)
-----------------------------------------------------------------------------
(* Steps of the handlers of a session.  A request is handled while its     *)
(* answer is awaited, also when the client has gone away.                  *)
Requested(j) == answer[j] = "awaited"

(* The token guard of the route fails: the handler is not called.          *)
ServerRefuses(j) ==
  /\ Requested(j) /\ post[j] = "new" /\ WorkerFree
  /\ answer' = [answer EXCEPT ![j] = "unauthorized"]
  /\ UNCHANGED <<vars, session, overtaken>>

ServerPosts(j) ==
  /\ Requested(j) /\ Post(j)
  /\ answer' = [answer EXCEPT ![j] = IF post'[j] = "sent" THEN @ ELSE post'[j]]
  /\ UNCHANGED <<session, overtaken>>

Answer(id) ==
  CASE Status!JobStatus(server_status, id) = "NotFound" -> "not_found"
    [] Status!JobStatus(server_status, id) \in {"InQueue", "Running"} -> "too_early"
    [] Status!JobStatus(server_status, id) = "Finished" -> "awaited"

ServerLooks(j) ==
  /\ Requested(j) /\ GetStatus(GetOf[j], j)
  /\ answer' = [answer EXCEPT ![j] = Answer(j)]
  /\ UNCHANGED <<session, overtaken>>

ServerFinds(j) ==
  /\ Requested(j) /\ GetFind(GetOf[j])
  /\ answer' = [answer EXCEPT ![j] = "found"]
  /\ UNCHANGED <<session, overtaken>>

ServerPanics(j) ==
  /\ Requested(j)
  /\ GetPanic(GetOf[j]) \/ GetUnreachable(GetOf[j])
  /\ answer' = [answer EXCEPT ![j] = "panicked"]
  /\ UNCHANGED <<session, overtaken>>

ServerGets(j) ==
  /\ post[j] = "accepted"
  /\ ServerLooks(j) \/ ServerFinds(j) \/ ServerPanics(j)

Server(j) == ServerRefuses(j) \/ ServerPosts(j) \/ ServerGets(j)
-----------------------------------------------------------------------------
(* The tasks of the server, which no client waits for.                     *)
Tasks ==
  /\ Backend \/ Collector
  /\ overtaken' = (overtaken \/ /\ backend.pc = "start" /\ backend'.pc = "run"
                                /\ ~ Status!JobStartedAsExpected(server_status, backend.job))
  /\ UNCHANGED clientVars

(* Every session has ended and the server has nothing to do.               *)
SessionsAtRest ==
  /\ \A j \in Jobs : session[j] \in Ended /\ ~ Requested(j)
  /\ backend.pc \in {"recv", "dead"} /\ register_job = <<>>
  /\ collector.pc \in {"recv", "dead"} /\ finished_job = <<>>
  /\ backend.pc = "dead" => collector.pc = "dead"
  /\ UNCHANGED sessionVars

SessionNext ==
  \/ \E j \in Jobs : ClientPosts(j) \/ Client(j) \/ ConnectionLost(j) \/ Server(j)
  \/ Tasks
  \/ SessionsAtRest

SessionSpec == SessionInit /\ [][SessionNext]_sessionVars

(* A client need not start; one that has goes on, and a request whose      *)
(* connection is not lost is handled.  The tasks as in JobPipeline, each on*)
(* its own.                                                                *)
FairSessionSpec ==
  /\ SessionSpec
  /\ WF_sessionVars(Tasks /\ Backend) /\ WF_sessionVars(Tasks /\ Collector)
  /\ \A j \in Jobs : WF_sessionVars(Client(j) \/ Server(j))
-----------------------------------------------------------------------------
SessionTypeOK ==
  /\ session \in [Jobs -> {"new", "posting", "polls", "polling"} \cup Ended]
  /\ answer \in [Jobs -> {"none", "awaited", "accepted", "invalid", "closed",
                          "too_many", "unauthorized", "panicked", "found",
                          "not_found", "too_early"}]
  /\ overtaken \in BOOLEAN

(* A client is told that its job does not exist only when the result was   *)
(* dropped to make room for later ones, or when the status record lost the *)
(* id because a second worker let a job overtake another between `try_send`*)
(* and `job_enqueued`.  In particular there is no moment between acceptance*)
(* and the end of the result at which the record does not know the job, and*)
(* no answer overtakes the acceptance (client/src/lib.rs:92-94, 112-115).  *)
MissedOnlyIfSlow ==
  \A j \in Jobs : "not_found" \in {answer[j], session[j]} =>
    j \in ToSet(cleared) \/ (overtaken /\ Workers > 1)

(* Every client that has posted its job eventually gets a result or an     *)
(* error, however often it is told 425, unless the server breaks: then it  *)
(* may ask for ever, for nothing limits its retries                        *)
(* (client/src/lib.rs:82-115).                                             *)
SessionEnds ==
  <>[](Broken \/ \A j \in Jobs : session[j] \in {"new"} \cup Ended)
=============================================================================
