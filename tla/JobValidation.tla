--------------------------- MODULE JobValidation ---------------------------
(***************************************************************************)
(* From the probes of the server to the runs of a job.  At start-up        *)
(* `from_cli` (server/src/cli.rs) makes a target of every listed probe that*)
(* has a config.  Then `Job::from_desc` (common/src/job.rs) validates each *)
(* job descriptor that is posted against these targets, and resolves its   *)
(* entries to the targets the tasks run on.                                *)
(*                                                                         *)
(* A descriptor is a sequence of tasks [run_on, base64_ok]; a member of    *)
(* `run_on` is [by, keys], with `by` the variant of RunOn.  The position of*)
(* an entry, a string in the code, is the tuple of its indices.            *)
(***************************************************************************)
EXTENDS Integers, FiniteSets, Targets

CONSTANTS
  Probes,         \* the serial numbers probes have
  ProbeConfigs,   \* serial -> [probe_alias, target_name, groups], the config file
  ProbeLists,     \* what `Probe::list_all` may return, serials in sequence
  NoSerial,       \* stands in it for a probe that has no serial number
  Keys,           \* the serials, aliases, names and groups an entry may have
  JobDescs,       \* the descriptors that are posted
  NoTarget        \* `None`, where a target is looked up

Target(serial) ==
  [probe_serial |-> serial,
   probe_alias  |-> ProbeConfigs[serial].probe_alias,
   target_name  |-> ProbeConfigs[serial].target_name,
   groups       |-> ProbeConfigs[serial].groups]

TargetType == {Target(s) : s \in DOMAIN ProbeConfigs}

RunOnType ==
  [by : {"probe_serials", "probe_aliases", "targets", "groups"}, keys : Seq(Keys)]

TaskDescType == [run_on : Seq(RunOnType), base64_ok : BOOLEAN]

ASSUME ValidationAssumption ==
  /\ ProbeLists \subseteq Seq(Probes \cup {NoSerial})
  /\ DOMAIN ProbeConfigs \subseteq Probes /\ NoSerial \notin Probes
  /\ JobDescs \subseteq Seq(TaskDescType)
  /\ NoTarget \notin TargetType

VARIABLES
  listed,         \* the probes the start-up has still to look at
  targets,        \* the `Targets`
  server,         \* "starting", "serving", or "exited" with an error
  answer          \* the descriptor of a POST and what its validation returned

vars == <<listed, targets, server, answer>>

NoAnswer == [desc |-> <<>>, errors |-> {}, tasks |-> <<>>]

Init ==
  /\ listed \in ProbeLists
  /\ targets = <<>>
  /\ server = "starting"
  /\ answer = NoAnswer
-----------------------------------------------------------------------------
Ignored(serial) == serial = NoSerial \/ serial \notin DOMAIN ProbeConfigs

(* One turn of the loop of `from_cli`.                                     *)
SkipProbe ==
  /\ server = "starting" /\ listed # <<>>
  /\ Ignored(Head(listed))
  /\ listed' = Tail(listed)
  /\ UNCHANGED <<targets, server, answer>>

PushTarget ==
  /\ server = "starting" /\ listed # <<>>
  /\ ~ Ignored(Head(listed)) /\ ~ AlreadyPushed(targets, Head(listed))
  /\ targets' = Append(targets, Target(Head(listed)))
  /\ listed' = Tail(listed)
  /\ UNCHANGED <<server, answer>>

(* Two probes with the same serial: `push` fails and so does the start-up. *)
RefuseTarget ==
  /\ server = "starting" /\ listed # <<>>
  /\ ~ Ignored(Head(listed)) /\ AlreadyPushed(targets, Head(listed))
  /\ server' = "exited"
  /\ UNCHANGED <<listed, targets, answer>>

Serve ==
  /\ server = "starting" /\ listed = <<>>
  /\ server' = "serving"
  /\ UNCHANGED <<listed, targets, answer>>
-----------------------------------------------------------------------------
(* `validate_tasks_coherency`.  The entries of a task, in order.           *)
(* Mutant: the two inner indices of a position are swapped.                *)
EntriesSwapped(task, t) ==
  FlattenSeq([r \in DOMAIN task.run_on |->
    [k \in DOMAIN task.run_on[r].keys |->
      [position |-> <<t, k, r>>,
       by       |-> task.run_on[r].by,
       key      |-> task.run_on[r].keys[k]]]])

Entries(task, t) ==
  FlattenSeq([r \in DOMAIN task.run_on |->
    [k \in DOMAIN task.run_on[r].keys |->
      [position |-> <<t, r, k>>,
       by       |-> task.run_on[r].by,
       key      |-> task.run_on[r].keys[k]]]])

(* The targets an entry resolves to: at most one, except for a group.      *)
Found(entry) ==
  CASE entry.by = "probe_serials" -> FindByProbeSerial(targets, entry.key)
    [] entry.by = "probe_aliases" -> FindByProbeAlias(targets, entry.key)
    [] entry.by = "targets"       -> FindByTargetName(targets, entry.key)
    [] entry.by = "groups"        -> FindByGroup(targets, entry.key)

(* The pairs an entry adds to `position_target_map`.                       *)
(* Mutant: an entry that resolves to nothing leaves no trace.              *)
ResolvedHits(entry) ==
  LET hits == Found(entry) IN
  [i \in DOMAIN hits |-> [position |-> entry.position, target |-> hits[i]]]

Resolved(entry) ==
  LET hits == Found(entry) IN
  IF hits = <<>> THEN << [position |-> entry.position, target |-> NoTarget] >>
  ELSE [i \in DOMAIN hits |-> [position |-> entry.position, target |-> hits[i]]]

(* What the loops over the entries of a task and over the tasks add up to. *)
TargetsOf(task, t) ==
  LET entries == Entries(task, t)
  IN  FlattenSeq([e \in DOMAIN entries |-> Found(entries[e])])

MapOf(task, t) ==
  LET entries == Entries(task, t)
  IN  FlattenSeq([e \in DOMAIN entries |-> Resolved(entries[e])])

PositionTargetMap(desc) == FlattenSeq([t \in DOMAIN desc |-> MapOf(desc[t], t)])

TaskErrors(desc) ==
  {[kind |-> "no_target_chosen", task |-> t] :
      t \in {u \in DOMAIN desc : Entries(desc[u], u) = <<>>}}
  \cup
  {[kind |-> "base64_decoding_failed", task |-> t] :
      t \in {u \in DOMAIN desc : ~ desc[u].base64_ok}}

NotAvailable(map) ==
  {[kind |-> "target_not_available", entry |-> p.position] :
      p \in {q \in ToSet(map) : q.target = NoTarget}}

(* `target_position_map`: where the map has a serial.                      *)
HasSerial(pair, serial) == pair.target # NoTarget /\ pair.target.probe_serial = serial
PositionsOf(map, serial) == {i \in DOMAIN map : HasSerial(map[i], serial)}

NotUniqueError(map, serial) ==
  [kind |-> "target_is_not_unique", serial |-> serial,
   entries |-> {map[i].position : i \in PositionsOf(map, serial)}]

(* Mutant: only positions within one task are compared.                    *)
NotUniqueInTask(map) ==
  {NotUniqueError(map, s) :
    s \in {u \in DOMAIN ProbeConfigs : \E i, j \in PositionsOf(map, u) :
            i # j /\ map[i].position[1] = map[j].position[1]}}

NotUnique(map) ==
  {NotUniqueError(map, s) :
    s \in {u \in DOMAIN ProbeConfigs : Cardinality(PositionsOf(map, u)) > 1}}

Errors(desc) ==
  LET map == PositionTargetMap(desc)
  IN  TaskErrors(desc) \cup NotAvailable(map) \cup NotUnique(map)

(* Mutant: the accumulator of targets outlives the task.                   *)
RunningTasks(desc) ==
  [t \in DOMAIN desc |-> FlattenSeq([u \in 1 .. t |-> TargetsOf(desc[u], u)])]

Tasks(desc) == [t \in DOMAIN desc |-> TargetsOf(desc[t], t)]

(* POST /job, up to the outcome of `from_desc`; JobPipeline continues here.*)
(* Nothing is shared but the targets, which no longer change: handlers that*)
(* run at the same time need not be told apart from one after the other.   *)
Post(desc) ==
  /\ server = "serving" /\ answer = NoAnswer
  /\ answer' = LET errors == Errors(desc) IN
               [desc |-> desc, errors |-> errors,
                tasks |-> IF errors = {} THEN Tasks(desc) ELSE <<>>]
  /\ UNCHANGED <<listed, targets, server>>

Respond ==
  /\ answer # NoAnswer
  /\ answer' = NoAnswer
  /\ UNCHANGED <<listed, targets, server>>

Exited == server = "exited" /\ UNCHANGED vars

Next == \/ SkipProbe \/ PushTarget \/ RefuseTarget \/ Serve \/ Respond
        \/ Exited
        \/ \E desc \in JobDescs : Post(desc)

Spec == Init /\ [][Next]_vars
-----------------------------------------------------------------------------
(* The positions of a descriptor's entries.                                *)
PositionsIn(run_on, t) ==
  UNION {{<<t, r, k>> : k \in DOMAIN run_on[r].keys} : r \in DOMAIN run_on}

Positions(desc) ==
  UNION {PositionsIn(desc[t].run_on, t) : t \in DOMAIN desc}

FaultType(desc) ==
  [kind : {"no_target_chosen", "base64_decoding_failed"}, task : DOMAIN desc]
  \cup [kind : {"target_not_available"}, entry : Positions(desc)]
  \cup [kind : {"target_is_not_unique"}, serial : DOMAIN ProbeConfigs,
         entries : SUBSET Positions(desc)]

TypeOK ==
  /\ listed \in Seq(Probes \cup {NoSerial})
  /\ targets \in Seq(TargetType)
  /\ server \in {"starting", "serving", "exited"}
  /\ answer.desc \in Seq(TaskDescType)
  /\ answer.tasks \in Seq(Seq(ToSet(targets)))
  /\ answer.errors \subseteq FaultType(answer.desc)

(* "`probe_serial` must be unique for all targets" (lib.rs:129): whatever  *)
(* the probes report, `from_cli` never registers a serial twice.           *)
TargetsUnique ==
  \A i, j \in DOMAIN targets :
    targets[i].probe_serial = targets[j].probe_serial => i = j

(* No two runs of an accepted job, of whatever tasks, are on the same      *)
(* probe.  The backend starts them all at once and stores each outcome     *)
(* under its probe serial (app.rs:39-83).                                  *)
AcceptedRunsAreDistinct ==
  \A t, u \in DOMAIN answer.tasks :
    \A i \in DOMAIN answer.tasks[t], j \in DOMAIN answer.tasks[u] :
      answer.tasks[t][i].probe_serial = answer.tasks[u][j].probe_serial
        => <<t, i>> = <<u, j>>

(* What an entry asks for, said without loops: the targets of its group,   *)
(* or the one that was listed first under its serial, alias or name.       *)
Asked(run_on, key) ==
  LET Field(t) == CASE run_on.by = "probe_serials" -> t.probe_serial
                    [] run_on.by = "probe_aliases" -> t.probe_alias
                    [] run_on.by = "targets"       -> t.target_name
      Hits == {i \in DOMAIN targets :
                 IF run_on.by = "groups" THEN key \in targets[i].groups
                 ELSE Field(targets[i]) = key}
  IN  IF run_on.by = "groups" THEN Hits
      ELSE {i \in Hits : \A j \in Hits : i <= j}

AskedAt(desc, p) ==
  Asked(desc[p[1]].run_on[p[2]], desc[p[1]].run_on[p[2]].keys[p[3]])

(* A task of an accepted job runs on every target its entries ask for and  *)
(* on no other, and on at least one (job.rs:262-349).                      *)
AcceptedRunsAsAsked ==
  \A t \in DOMAIN answer.tasks :
    LET asked == UNION {AskedAt(answer.desc, p) :
                          p \in {q \in Positions(answer.desc) : q[1] = t}}
    IN  /\ asked # {}
        /\ ToSet(answer.tasks[t]) = {targets[i] : i \in asked}

Faults(desc) ==
  LET pos   == Positions(desc)
      Of(i) == {p \in pos : i \in AskedAt(desc, p)}
  IN  {[kind |-> "no_target_chosen", task |-> t] :
          t \in {u \in DOMAIN desc : \A p \in pos : p[1] # u}}
      \cup {[kind |-> "base64_decoding_failed", task |-> t] :
              t \in {u \in DOMAIN desc : ~ desc[u].base64_ok}}
      \cup {[kind |-> "target_not_available", entry |-> p] :
              p \in {q \in pos : AskedAt(desc, q) = {}}}
      \cup {[kind |-> "target_is_not_unique",
             serial |-> targets[i].probe_serial, entries |-> Of(i)] :
              i \in {j \in DOMAIN targets : \E p, q \in Of(j) : p # q}}

(* A rejection names every fault of the descriptor, at its position, and   *)
(* nothing else; a descriptor without a fault is accepted                  *)
(* (job.rs:223-258, 379-383).                                              *)
VerdictIsExact == answer.errors = Faults(answer.desc)
=============================================================================
