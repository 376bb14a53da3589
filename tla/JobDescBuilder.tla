--------------------------- MODULE JobDescBuilder ---------------------------
(***************************************************************************)
(* The builder of job descriptors (client/src/builder.rs) in front of the  *)
(* validation of the server.  The types of the builder admit its calls in  *)
(* one order only, `phase` here; each call consumes the builder, and an    *)
(* error leaves nothing to go on with.  Descriptors that do not come from a*)
(* builder are posted as before, by clients of their own.                  *)
(***************************************************************************)
EXTENDS JobResults

CONSTANTS
  RunOns,       \* what `run_on` is called with
  MaxTasks,     \* bounds of the model: tasks of a job,
  MaxRunOns     \* and calls of `run_on` for a task

ASSUME BuilderAssumption == RunOns \subseteq RunOnType

VARIABLE builder

builtVars == <<vars, builder>>

Idle == [phase |-> "idle", tasks |-> <<>>, timeout |-> FALSE,
         elf |-> FALSE, run_ons |-> <<>>]

BuiltInit == Init /\ builder = Idle

Failed(error) == [Idle EXCEPT !.phase = error]

(* Mutant: does not look at `run_ons`.                                     *)
DoneWithoutRunOns(b) ==
  IF ~ b.elf THEN Failed("no_elf")
  ELSE [b EXCEPT !.phase = "job", !.elf = FALSE, !.run_ons = <<>>,
                 !.tasks = Append(@, [run_on |-> b.run_ons, base64_ok |-> TRUE])]

(* `TaskDescBuilder::done`.  What base64 has encoded does decode.          *)
Done(b) ==
  IF b.run_ons = <<>> THEN Failed("no_run_ons")
  ELSE IF ~ b.elf THEN Failed("no_elf")
  ELSE [b EXCEPT !.phase = "job", !.elf = FALSE, !.run_ons = <<>>,
                 !.tasks = Append(@, [run_on |-> b.run_ons, base64_ok |-> TRUE])]

(* `JobDescBuilder::build`, which also ends `TaskDescBuilder::build`.      *)
Build(b) ==
  IF b.phase # "job" THEN b
  ELSE IF b.tasks = <<>> THEN Failed("no_tasks")
  ELSE IF ~ b.timeout THEN Failed("no_timeout")
  ELSE [b EXCEPT !.phase = "built"]
-----------------------------------------------------------------------------
Building == server = "serving" /\ answer = NoAnswer /\ UNCHANGED vars

New == /\ Building /\ builder.phase = "idle"
       /\ builder' = [builder EXCEPT !.phase = "job"]

AddTask == /\ Building /\ builder.phase = "job" /\ Len(builder.tasks) < MaxTasks
           /\ builder' = [builder EXCEPT !.phase = "task"]

SetTimeout == /\ Building /\ builder.phase = "job"
              /\ builder' = [builder EXCEPT !.timeout = TRUE]

ElfExecutable == /\ Building /\ builder.phase = "task"
                 /\ builder' = [builder EXCEPT !.elf = TRUE]

RunOn(run_on) == /\ Building /\ builder.phase = "task"
                 /\ Len(builder.run_ons) < MaxRunOns
                 /\ builder' = [builder EXCEPT !.run_ons = Append(@, run_on)]

TaskDone == /\ Building /\ builder.phase = "task"
            /\ builder' = Done(builder)

TaskBuild == /\ Building /\ builder.phase = "task"
             /\ builder' = Build(Done(builder))

JobBuild == /\ Building /\ builder.phase = "job"
            /\ builder' = Build(builder)

GivesUp == /\ Building /\ builder.phase \notin {"idle", "job", "task", "built"}
           /\ builder' = Idle

Builder == \/ New \/ AddTask \/ SetTimeout \/ ElfExecutable
           \/ \E run_on \in RunOns : RunOn(run_on)
           \/ TaskDone \/ TaskBuild \/ JobBuild \/ GivesUp

(* The descriptor is posted, and the builder is gone when it is answered.  *)
PostBuilt == /\ builder.phase = "built" /\ Post(builder.tasks)
             /\ UNCHANGED builder

RespondBuilt == Respond /\ builder' = Idle

Others == \/ SkipProbe \/ PushTarget \/ RefuseTarget \/ Serve \/ Exited
          \/ builder.phase = "idle" /\ \E desc \in JobDescs : Post(desc)

BuiltNext == \/ Builder \/ PostBuilt \/ RespondBuilt
             \/ Others /\ UNCHANGED builder

BuiltSpec == BuiltInit /\ [][BuiltNext]_builtVars
-----------------------------------------------------------------------------
(* A descriptor that `build` returned is never empty or undecodable: the   *)
(* server accepts it with something to run, or rejects it for what only the*)
(* server can know, its targets.  The one fault the builder lets through   *)
(* are tasks all of whose lists are empty, since it counts the lists and   *)
(* the server counts their members (builder.rs:59-67, 99-106,              *)
(* job.rs:337-349).                                                        *)
BuiltFailsOnTargetsOnly ==
  builder.phase = "built" /\ answer # NoAnswer =>
    LET Lists(t) == {builder.tasks[t].run_on[r].keys :
                       r \in DOMAIN builder.tasks[t].run_on}
    IN  /\ \A e \in answer.errors :
             \/ e.kind \in {"target_not_available", "target_is_not_unique"}
             \/ e.kind = "no_target_chosen" /\ Lists(e.task) = {<<>>}
        /\ answer.errors = {} =>
             /\ Len(answer.tasks) = Len(builder.tasks)
             /\ answer.tasks # <<>> /\ <<>> \notin ToSet(answer.tasks)
=============================================================================
