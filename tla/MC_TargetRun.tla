---------------------------- MODULE MC_TargetRun ----------------------------
(***************************************************************************)
(* All images, a control block of an earlier run or none, three words in a *)
(* ring of one or two of which a read takes one, and a timeout of one tick.*)
(***************************************************************************)
EXTENDS TargetRun
=============================================================================
