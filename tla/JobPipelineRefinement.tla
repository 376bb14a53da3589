------------------------ MODULE JobPipelineRefinement ------------------------
(***************************************************************************)
(* The server of JobPipeline implements the promise of JobService.  A job  *)
(* is accepted when `try_send` takes it, begins when `run` receives it and *)
(* completes when its result enters the finished channel; the result is    *)
(* dropped when the collector pops it.  Moving a result from the channel   *)
(* into the queue, and all the bookkeeping in ServerStatus, is invisible.  *)
(***************************************************************************)
EXTENDS JobPipeline

Executing == IF backend.pc \in {"start", "run", "send"}
             THEN backend.job ELSE NoJob

Promise == INSTANCE JobService WITH
             known     <- ToSet(accepted),
             waiting   <- register_job,
             executing <- Executing,
             completed <- cleared \o Results,
             dropped   <- Len(cleared),
             up        <- backend.pc # "dead" /\ collector.pc # "dead"

(* Every step of the server is a step of the promised service or none: no  *)
(* interleaving of the handlers, `run` and the collector loses, repeats or *)
(* reorders a job while both tasks live, a result is dropped only for lack *)
(* of room, and no result appears after a failure (app.rs:20-95, 121-151). *)
ImplementsJobService == Promise!Spec
=============================================================================
