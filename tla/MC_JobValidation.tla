-------------------------- MODULE MC_JobValidation --------------------------
(***************************************************************************)
(* Three configured probes, two of one chip and two of one group, one of   *)
(* another group only; a fourth that has no config.  Descriptors of one    *)
(* task with at most two members of `run_on`, or two tasks with at most one*)
(* each, every task with a binary that decodes or does not.  The builder   *)
(* makes descriptors of one or two tasks with up to two of four lists.     *)
(***************************************************************************)
EXTENDS JobDescBuilder, TLC

CONSTANTS s1, s2, s3, s4

AllProbes == {s1, s2, s3, s4}

Configs ==
  s1 :> [probe_alias |-> "a1", target_name |-> "nrf",   groups |-> {"arm"}] @@
  s2 :> [probe_alias |-> "a2", target_name |-> "nrf",   groups |-> {"arm", "lab"}] @@
  s3 :> [probe_alias |-> "a2", target_name |-> "stm32", groups |-> {"lab"}]

Lists == BoundedSeq({s1, s2, s4, NoSerial}, 3)
           \cup {<<s1, s2, s3>>, <<s3, s2, s1>>, <<s2, s4, s3>>}

AllKeys == AllProbes \cup {"a1", "a2", "a3", "nrf", "stm32", "arm", "lab", "x86"}

ByKeys(by, keys) == [by |-> by, keys |-> keys]

AllRunOns ==
  {ByKeys("probe_serials", keys) : keys \in {<<>>, <<s1>>, <<s3>>, <<s2, s2>>, <<s1, s4>>}}
  \cup {ByKeys("probe_aliases", keys) : keys \in {<<>>, <<"a1">>, <<"a2">>, <<"a3">>}}
  \cup {ByKeys("targets", keys) : keys \in {<<"nrf">>, <<"stm32", "nrf">>}}
  \cup {ByKeys("groups", keys) : keys \in {<<"arm">>, <<"lab">>, <<"arm", "lab">>, <<"x86">>}}

TaskDescs(n) == [run_on : BoundedSeq(AllRunOns, n), base64_ok : BOOLEAN]
Descs == {<<>>} \cup {<<t>> : t \in TaskDescs(2)}
           \cup {<<t, u>> : t \in TaskDescs(1), u \in TaskDescs(1)}

BuilderRunOns ==
  {ByKeys("probe_serials", <<>>), ByKeys("probe_serials", <<s1>>),
   ByKeys("targets", <<"nrf">>), ByKeys("groups", <<"lab">>)}
=============================================================================
