------------------------------ MODULE JobResults ------------------------------
(***************************************************************************)
(* The result of an accepted job (common/src/job.rs, server/src/app.rs).   *)
(* `run` prepares a slot for every run of the job and stores each outcome  *)
(* where `task_mut_by_id` and `run_mut_by_probe_serial` lead: task ids are *)
(* fresh, but that a serial leads to the run that was started for it is up *)
(* to the validation.  An outcome is named by the run it comes from.       *)
(***************************************************************************)
EXTENDS JobValidation

NeverSet == <<>>   \* "Never set, possibly timed out"

EmptyFromJob(tasks) ==
  [t \in DOMAIN tasks |->
    [r \in DOMAIN tasks[t] |-> [target |-> tasks[t][r], result |-> NeverSet]]]

(* What `run` joins, in the order it was spawned.                          *)
Outcomes(tasks) ==
  FlattenSeq([t \in DOMAIN tasks |->
    [r \in DOMAIN tasks[t] |->
      [task_id |-> t, run_id |-> tasks[t][r].probe_serial, outcome |-> <<t, r>>]]])

(* Mutant: the run is looked up by the name of its target.                 *)
RunByTargetName(runs, serial) ==
  SelectInSeq(runs, LAMBDA run :
    run.target.target_name = ProbeConfigs[serial].target_name)

(* `run_mut_by_probe_serial`; 0 stands for None, on which `run` panics.    *)
RunByProbeSerial(runs, serial) ==
  SelectInSeq(runs, LAMBDA run : run.target.probe_serial = serial)

Stored(job_result, o) ==
  LET r == RunByProbeSerial(job_result[o.task_id], o.run_id)
  IN  IF r = 0 THEN job_result
      ELSE [job_result EXCEPT ![o.task_id][r].result = o.outcome]

JobResult(tasks) ==
  LET outcomes == Outcomes(tasks)
      job_result[n \in 0 .. Len(outcomes)] ==
        IF n = 0 THEN EmptyFromJob(tasks) ELSE Stored(job_result[n - 1], outcomes[n])
  IN  job_result[Len(outcomes)]

(* The result of an accepted job has the outcome of every run in the slot  *)
(* of that run: no lookup misses, no outcome overwrites another and none   *)
(* of the default results is ever published, however the entries of the    *)
(* descriptor overlap (job.rs:82-131, app.rs:70-88).                       *)
OutcomesReachTheirRuns ==
  LET result == JobResult(answer.tasks) IN
  \A t \in DOMAIN answer.tasks : \A r \in DOMAIN answer.tasks[t] :
    result[t][r].result = <<t, r>>
=============================================================================
