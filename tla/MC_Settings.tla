---------------------------- MODULE MC_Settings ----------------------------
(***************************************************************************)
(* Three invocations, each with one of two names, the empty name or none,  *)
(* on every kind of file: absent, one that does not parse, settings of the *)
(* operator with and without tokens, and settings that are not valid.      *)
(***************************************************************************)
EXTENDS Settings, TLC

CONSTANTS n1, old

Own == [Default EXCEPT !.probe_configs = "own"]
Files ==
  {Absent, Garbled, Text(Own),
   Text([Own EXCEPT !.auth_tokens = n1 :> old]),
   Text([Own EXCEPT !.auth_tokens = n1 :> EmptyToken]),
   Text([Own EXCEPT !.probe_configs = "unfilled"]),
   Text([Own EXCEPT !.max_jobs_in_queue = 0])}

Interchangeable == Permutations(Invocations)
=============================================================================
