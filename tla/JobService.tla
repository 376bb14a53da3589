----------------------------- MODULE JobService -----------------------------
(***************************************************************************)
(* What the server promises about jobs, without its threads, locks,        *)
(* channels and status record: an accepted job waits its turn, jobs are    *)
(* executed one at a time in the order they were accepted, each at most    *)
(* once, their results are kept in that order, and the oldest is dropped   *)
(* only when there are more than MaxJobs.  While the service is up nothing *)
(* accepted is lost.  When a part of it fails it may lose the job being    *)
(* executed, the jobs that wait and the newest results, and it executes    *)
(* nothing to its end any more.                                            *)
(***************************************************************************)
EXTENDS Integers, Sequences, SequencesExt

CONSTANTS Jobs, MaxJobs, NoJob

VARIABLES known,      \* the jobs accepted so far
          waiting,    \* accepted and not yet begun, in order of acceptance
          executing,  \* the job being executed, or NoJob
          completed,  \* all the results, oldest first
          dropped,    \* how many of them have been dropped
          up          \* FALSE once a part of the service has failed

vars == <<known, waiting, executing, completed, dropped, up>>

Init == /\ known = {} /\ waiting = <<>> /\ executing = NoJob
        /\ completed = <<>> /\ dropped = 0 /\ up = TRUE

Accept(j) ==
  /\ j \notin known /\ Len(waiting) < MaxJobs
  /\ known' = known \cup {j}
  /\ waiting' = Append(waiting, j)
  /\ UNCHANGED <<executing, completed, dropped, up>>

Begin ==
  /\ executing = NoJob /\ waiting # <<>>
  /\ executing' = Head(waiting)
  /\ waiting' = Tail(waiting)
  /\ UNCHANGED <<known, completed, dropped, up>>

Complete ==
  /\ up /\ executing # NoJob
  /\ completed' = Append(completed, executing)
  /\ executing' = NoJob
  /\ UNCHANGED <<known, waiting, dropped, up>>

Drop ==
  /\ Len(completed) - dropped > MaxJobs
  /\ dropped' = dropped + 1
  /\ UNCHANGED <<known, waiting, executing, completed, up>>

Fail ==
  /\ up' = FALSE
  /\ executing' \in {executing, NoJob}
  /\ waiting' \in {waiting, <<>>}
  /\ \E n \in dropped .. Len(completed) : completed' = SubSeq(completed, 1, n)
  /\ UNCHANGED <<known, dropped>>

Next == \/ \E j \in Jobs : Accept(j)
        \/ Begin \/ Complete \/ Drop \/ Fail

Spec == Init /\ [][Next]_vars
=============================================================================
