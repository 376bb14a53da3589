---------------------------- MODULE ServerStatus ----------------------------
(***************************************************************************)
(* The bookkeeping record of the server (`ServerStatus`, common/src/lib.rs)*)
(* as operators on a record.  Every mutator of the code takes `&mut self`  *)
(* and is called under one std Mutex, so each is one step of its caller.   *)
(*                                                                         *)
(* The `error_if_...!` macros only log.  What they expect is stated here as*)
(* the ...AsExpected operators, so that a caller's module can ask whether  *)
(* the expectation is met; the mutators act whether it is met or not.      *)
(***************************************************************************)
EXTENDS Sequences, SequencesExt

CONSTANT NoJob      \* the `None` of `current_job: Option<Uuid>`

(* `ServerStatus::default()`. *)
EmptyStatus == [current_job   |-> NoJob,
                jobs_in_queue |-> <<>>,
                jobs_finished |-> {}]

ServerStatusType(Jobs) == [current_job   : Jobs \cup {NoJob},
                           jobs_in_queue : Seq(Jobs),
                           jobs_finished : SUBSET Jobs]
-----------------------------------------------------------------------------
(* `job_started`: `pop_front().unwrap()` panics on an empty queue; what is *)
(* popped is dropped, whether it is `id` or not.                           *)
JobStartedPanics(s) == s.jobs_in_queue = <<>>

JobStartedAsExpected(s, id) == /\ s.jobs_in_queue # <<>>
                               /\ Head(s.jobs_in_queue) = id
                               /\ s.current_job = NoJob

(* Mutant: `front` in place of `pop_front`.                                *)
JobStartedPeeks(s, id) == [s EXCEPT !.current_job = id]

(* Mutant: does not note which job is running.                             *)
JobStartedPopsOnly(s, id) == [s EXCEPT !.jobs_in_queue = Tail(@)]

JobStarted(s, id) == [s EXCEPT !.jobs_in_queue = Tail(@), !.current_job = id]

(* `job_finished`. *)
JobFinishedAsExpected(s, id) == s.current_job = id /\ id \notin s.jobs_finished

(* Mutant: inserts the current job, after it was taken.                    *)
JobFinishedTakesFirst(s, id) ==
  [s EXCEPT !.current_job = NoJob, !.jobs_finished = @ \cup {NoJob}]

(* Mutant: the current job is looked at, not taken.                        *)
JobFinishedKeepsCurrent(s, id) == [s EXCEPT !.jobs_finished = @ \cup {id}]

JobFinished(s, id) == [s EXCEPT !.current_job = NoJob,
                                !.jobs_finished = @ \cup {id}]

(* `job_cleared`. *)
JobClearedAsExpected(s, id) == id \in s.jobs_finished

(* Mutant: `contains` in place of `remove`.                                *)
JobClearedChecksOnly(s, id) == s

JobCleared(s, id) == [s EXCEPT !.jobs_finished = @ \ {id}]

(* `job_enqueued`. *)
JobEnqueuedAsExpected(s, id) == /\ s.current_job # id
                                /\ id \notin ToSet(s.jobs_in_queue)
                                /\ id \notin s.jobs_finished

JobEnqueued(s, id) == [s EXCEPT !.jobs_in_queue = Append(@, id)]

(* `job_status`: the first of the three places that holds the id wins. *)
JobStatus(s, id) ==
  IF s.current_job = id THEN "Running"
  ELSE IF id \in ToSet(s.jobs_in_queue) THEN "InQueue"
  ELSE IF id \in s.jobs_finished THEN "Finished"
  ELSE "NotFound"
=============================================================================
