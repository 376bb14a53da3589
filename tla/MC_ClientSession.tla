-------------------------- MODULE MC_ClientSession --------------------------
(***************************************************************************)
(* Finite instances of the sessions: a GET handler for each of the jobs.   *)
(***************************************************************************)
EXTENDS ClientSession

CONSTANTS j1, j2, j3, g1, g2, g3

Handlers == j1 :> g1 @@ j2 :> g2 @@ j3 :> g3

(* Sessions whose jobs do not panic are interchangeable, with their GETs.  *)
SessionSymmetry ==
  {p @@ [g \in {GetOf[j] : j \in DOMAIN p} |->
           GetOf[p[CHOOSE j \in DOMAIN p : GetOf[j] = g]]] :
     p \in Permutations(Jobs \ PanickingJobs)}
=============================================================================
