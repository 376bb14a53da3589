--------------------------- MODULE MC_JobPipeline ---------------------------
(***************************************************************************)
(* Finite instances of the pipeline: the .cfg of each run chooses the jobs,*)
(* the requests, the capacity and the number of worker threads.            *)
(***************************************************************************)
EXTENDS JobPipelineRefinement

(* Requests are interchangeable, and so are the jobs that do not panic.    *)
Symmetry == Permutations(Jobs \ PanickingJobs) \cup Permutations(Gets)
=============================================================================
