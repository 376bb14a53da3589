-------------------------- MODULE MC_JobExecution --------------------------
(***************************************************************************)
(* Two jobs and Ctrl-C at any moment, with three threads: all of them are  *)
(* taken by the three runs of the first job, and the two runs of the second*)
(* leave just the one that the waiter needs.  One run of each may panic.   *)
(***************************************************************************)
EXTENDS JobShutdown

ThreeThenTwo == <<3, 2>>
OneEachMayPanic == {<<1, 2>>, <<2, 1>>}
=============================================================================
