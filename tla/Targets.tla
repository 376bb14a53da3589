------------------------------ MODULE Targets ------------------------------
(***************************************************************************)
(* The targets of the server (common/src/lib.rs, `Targets`): a vector in   *)
(* the order in which the probes were listed.  A target is a record with   *)
(* its probe_serial, probe_alias, target_name and groups.                  *)
(***************************************************************************)
EXTENDS Sequences, SequencesExt

(* Mutant: only the target pushed just before is looked at.                *)
JustPushed(targets, serial) ==
  targets # <<>> /\ Last(targets).probe_serial = serial

(* Whether `push` refuses a target because its serial is there already.    *)
AlreadyPushed(targets, serial) ==
  \E t \in ToSet(targets) : t.probe_serial = serial

(* `find(..)`: the target at the index of the first hit, none at 0.        *)
TargetAt(targets, i) ==
  IF i = 0 THEN <<>> ELSE <<targets[i]>>

FindByProbeSerial(targets, serial) ==
  TargetAt(targets, SelectInSeq(targets, LAMBDA t : t.probe_serial = serial))

FindByProbeAlias(targets, alias) ==
  TargetAt(targets, SelectInSeq(targets, LAMBDA t : t.probe_alias = alias))

FindByTargetName(targets, name) ==
  TargetAt(targets, SelectInSeq(targets, LAMBDA t : t.target_name = name))

(* `filter(..)`: all hits, in the order of the targets.                    *)
FindByGroup(targets, group) ==
  FlattenSeq([i \in DOMAIN targets |->
    IF group \in targets[i].groups THEN <<targets[i]>> ELSE <<>>])
=============================================================================
