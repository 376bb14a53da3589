----------------------------- MODULE TargetRun -----------------------------
(***************************************************************************)
(* One run: a firmware on a target (server/src/runner.rs).  The runner     *)
(* works on the target through a debug probe; the core of the target       *)
(* executes the firmware at the same time, and says what it has to say in  *)
(* an RTT ring buffer in its memory, which the runner reads while the core *)
(* runs.  The run ends when the core halts or the timeout is reached.      *)
(*                                                                         *)
(* The firmware starts at the reset vector ("startup"), gets to `main`, is *)
(* under test from there, and ends by a BKPT instruction, by a hardfault,  *)
(* by a halt of another kind, or never.  Its control block of RTT is       *)
(* initialised by the start-up code, or late, by `main` itself.  Memory    *)
(* outlives a reset: the block of an earlier run may still be there.       *)
(*                                                                         *)
(* Time is counted in ticks.  The probe is as slow as it likes.            *)
(***************************************************************************)
EXTENDS Integers, Sequences, SequencesExt

CONSTANTS
  JobTimeout,     \* the timeout of the job, in ticks
  MaxTimeout,     \* `max_target_timeout` of the server
  SetupTimeout,   \* the limits of waiting for `main` and for the control block
  RingSizes,      \* what the RTT ring buffer of a firmware may hold
  ReadSize,       \* what one read of the RTT channel can return
  MaxSaid,        \* bound: what the firmware says
  MaxTicks        \* bound: the ticks that are told apart

Lower(a, b) == IF a < b THEN a ELSE b

(* `job.timeout.as_secs().min(max_target_timeout.0)`                       *)
Limit == Lower(JobTimeout, MaxTimeout)

ASSUME RunAssumption ==
  /\ {JobTimeout, MaxTimeout, SetupTimeout, MaxSaid} \subseteq Nat
  /\ RingSizes \subseteq Nat \ {0} /\ ReadSize \in Nat \ {0}
  /\ MaxTicks \in Nat /\ MaxTicks > JobTimeout + 1 /\ MaxTicks > SetupTimeout

VARIABLES
  image,          \* the ELF file: [valid, from_ram, late_rtt, ring_size, encoding]
  pc,             \* where the runner is
  firmware,       \* where the firmware is; the core halts in Halted
  breakpoints,    \* where the core would halt: at `main`, in the hardfault handler
  block,          \* the control block: "none", "stale" or "live"
  mode,           \* of the ring when it is full: "skip" or "block"
  ring,           \* what the firmware said and nobody read
  said,           \* all that the firmware said since it was started
  reached,        \* history: it got to its BKPT before the timeout, and before
                  \* the runner looked at the core for the last time
  buffer,         \* what the runner read
  elapsed,        \* ticks since the runner took `start`
  occupied,       \* ticks since the run began
  outcome         \* of the run: "none" as long as it has none

target == <<firmware, breakpoints, block, mode, ring, said, reached>>
clocks == <<elapsed, occupied>>
vars == <<image, pc, target, buffer, clocks, outcome>>

Word == [no : 0 .. MaxSaid, good : BOOLEAN]
Old  == [no |-> 0, good |-> TRUE]             \* left by an earlier run

Halted  == {"reset", "early", "main", "bkpt", "fault_handler", "other_halt"}
Running == {"startup", "test", "lost"}

Init ==
  /\ image \in [valid : BOOLEAN, from_ram : BOOLEAN, late_rtt : BOOLEAN,
                ring_size : RingSizes, encoding : {"plain", "raw", "recoverable"}]
  /\ pc = "new" /\ outcome = "none"
  /\ firmware = "lost" /\ breakpoints = {}
  /\ \/ block = "none" /\ ring = <<>>
     \/ block = "stale" /\ ring = <<Old>>
  /\ mode = "skip" /\ said = <<>> /\ reached = FALSE /\ buffer = <<>>
  /\ elapsed = 0 /\ occupied = 0
-----------------------------------------------------------------------------
Goto(from, to) ==
  pc = from /\ pc' = to /\ outcome' = outcome /\ image' = image

Ends(how) == pc' = "done" /\ outcome' = how /\ image' = image

(* `Runner::new`: the ELF file has the symbols and sections a run needs.   *)
Parses ==
  /\ image.valid /\ Goto("new", "attach")
  /\ UNCHANGED <<target, buffer, clocks>>

RefusesImage ==
  /\ pc = "new" /\ ~ image.valid /\ Ends("error")
  /\ UNCHANGED <<target, buffer, clocks>>

(* Opens the probe, attaches, flashes, and resets the core.  An image that *)
(* runs from RAM is loaded with its initialised control block, if it has.  *)
Flashes ==
  /\ Goto("attach", "start")
  /\ firmware' = "reset"
  /\ IF image.from_ram /\ ~ image.late_rtt
     THEN block' = "live" /\ ring' = <<>> /\ mode' = "skip"
     ELSE UNCHANGED <<block, ring, mode>>
  /\ UNCHANGED <<breakpoints, said, reached, buffer, clocks>>

(* From RAM: nothing is started before the barrier.                        *)
PreparesRam ==
  /\ image.from_ram /\ Goto("start", "barrier")
  /\ breakpoints' = {"hardfault"}
  /\ UNCHANGED <<firmware, block, mode, ring, said, reached, buffer, clocks>>

(* From flash: the old control block is made unrecognisable and the core is*)
(* sent to `main`.                                                         *)
(* Mutants: the block is left alone; the breakpoint is not set.            *)
RunsToMainKeepingBlock ==
  /\ ~ image.from_ram /\ Goto("start", "wait_main")
  /\ breakpoints' = {"main"} /\ firmware' = "startup"
  /\ elapsed' = 0
  /\ UNCHANGED <<block, mode, ring, said, reached, buffer, occupied>>

RunsToMainUnstopped ==
  /\ ~ image.from_ram /\ Goto("start", "wait_main")
  /\ block' = "none" /\ firmware' = "startup"
  /\ elapsed' = 0
  /\ UNCHANGED <<breakpoints, mode, ring, said, reached, buffer, occupied>>

RunsToMain ==
  /\ ~ image.from_ram /\ Goto("start", "wait_main")
  /\ block' = "none" /\ breakpoints' = {"main"} /\ firmware' = "startup"
  /\ elapsed' = 0
  /\ UNCHANGED <<mode, ring, said, reached, buffer, occupied>>

(* The core halted, at `main` as is assumed: the ring is told to block.    *)
ArrivesAtMain ==
  /\ firmware \in Halted /\ Goto("wait_main", "barrier")
  /\ mode' = "block" /\ breakpoints' = {"hardfault"}
  /\ UNCHANGED <<firmware, block, ring, said, reached, buffer, clocks>>

MissesMain ==
  /\ pc = "wait_main" /\ firmware \notin Halted /\ elapsed > SetupTimeout
  /\ Ends("error")
  /\ UNCHANGED <<target, buffer, clocks>>

(* The barrier opens (see JobExecution), and the core is started.          *)
PassesBarrier ==
  /\ Goto("barrier", "attach_rtt")
  /\ firmware' = IF firmware = "main" THEN "test" ELSE "startup"
  /\ elapsed' = 0
  /\ UNCHANGED <<breakpoints, block, mode, ring, said, reached, buffer, occupied>>

(* `setup_rtt_channel`: tries until there is a control block, and then the *)
(* time of the job starts to count.                                        *)
AttachesRtt ==
  /\ block # "none" /\ Goto("attach_rtt", "read")
  /\ elapsed' = 0
  /\ UNCHANGED <<target, buffer, occupied>>

FindsNoBlock ==
  /\ pc = "attach_rtt" /\ block = "none" /\ elapsed > SetupTimeout
  /\ Ends("error")
  /\ UNCHANGED <<target, buffer, clocks>>
-----------------------------------------------------------------------------
(* The loop: one read, one look at the core, one look at the clock.        *)
ReadsRing ==
  LET count == Lower(Len(ring), ReadSize) IN
  /\ buffer' = buffer \o SubSeq(ring, 1, count)
  /\ ring' = SubSeq(ring, count + 1, Len(ring))
  /\ UNCHANGED <<firmware, breakpoints, block, mode, said, reached>>

Reads == Goto("read", "core_halted") /\ ReadsRing /\ UNCHANGED clocks

(* Mutant: what was read when the core ran is all there is.                *)
SeesHaltAndStops ==
  /\ firmware \in Halted /\ Goto("core_halted", "classify")
  /\ UNCHANGED <<target, buffer, clocks>>

SeesHalt ==
  /\ firmware \in Halted /\ Goto("core_halted", "read_again")
  /\ UNCHANGED <<target, buffer, clocks>>

(* Mutant: a core that has halted is not looked at once the time is over.  *)
SeesRunningOrLate ==
  /\ firmware \in Running \/ elapsed > Limit
  /\ Goto("core_halted", "clock")
  /\ UNCHANGED <<target, buffer, clocks>>

SeesRunning ==
  /\ firmware \in Running /\ Goto("core_halted", "clock")
  /\ UNCHANGED <<target, buffer, clocks>>

(* Mutant: the timeout starts anew in every turn.                          *)
GoesOnAnew ==
  /\ elapsed <= Limit /\ Goto("clock", "read")
  /\ elapsed' = 0
  /\ UNCHANGED <<target, buffer, occupied>>

GoesOn ==
  /\ elapsed <= Limit /\ Goto("clock", "read")
  /\ UNCHANGED <<target, buffer, clocks>>

(* Halts the core, which may not succeed, and gives up.                    *)
TimesOut ==
  /\ pc = "clock" /\ elapsed > Limit /\ Ends("timeout")
  /\ firmware' \in {firmware, "other_halt"}
  /\ UNCHANGED <<breakpoints, block, mode, ring, said, reached, buffer, clocks>>

(* Mutant: the read buffer is taken whole, with what the last read left.   *)
ReadsAgainWhole ==
  /\ Goto("read_again", "classify")
  /\ buffer' = buffer \o ring \o buffer
  /\ ring' = <<>>
  /\ UNCHANGED <<firmware, breakpoints, block, mode, said, reached, clocks>>

ReadsAgain == Goto("read_again", "classify") /\ ReadsRing /\ UNCHANGED clocks

(* `log_to_strings`.  A text that is no UTF-8 is an error; a defmt frame   *)
(* that cannot be decoded is skipped, or ends the log, as the encoding has *)
(* it.                                                                     *)
Undecodable == image.encoding = "plain" /\ \E w \in ToSet(buffer) : ~ w.good

Logs ==
  LET Bad == {i \in DOMAIN buffer : ~ buffer[i].good} IN
  CASE Bad = {} -> buffer
    [] Bad # {} /\ image.encoding = "raw" ->
         SubSeq(buffer, 1, (CHOOSE i \in Bad : \A j \in Bad : i <= j) - 1)
    [] Bad # {} /\ image.encoding # "raw" -> SelectSeq(buffer, LAMBDA w : w.good)

(* What the halt means, once the log is decoded.  A core that does not halt*)
(* would be a success as well, but it is not looked at before it does.     *)
(* Mutant: the exception number is not looked at.                          *)
VerdictOfAnyBreakpoint ==
  CASE firmware \in {"bkpt", "fault_handler", "early", "main"} \cup Running -> "success"
    [] OTHER -> "halted"

Verdict ==
  CASE firmware = "fault_handler" -> "hardfault"
    [] firmware \in {"bkpt", "early", "main"} \cup Running -> "success"
    [] OTHER -> "halted"

Classifies ==
  /\ pc = "classify" /\ Ends(IF Undecodable THEN "bad_log" ELSE Verdict)
  /\ UNCHANGED <<target, buffer, clocks>>

(* Any access to the probe may fail.                                       *)
Fails ==
  /\ pc \notin {"new", "barrier", "clock", "done"} /\ Ends("error")
  /\ UNCHANGED <<target, buffer, clocks>>

(* All steps of the runner but those others decide on.                     *)
Runner ==
  \/ Parses \/ RefusesImage \/ Flashes \/ PreparesRam \/ RunsToMain
  \/ ArrivesAtMain \/ MissesMain \/ AttachesRtt \/ FindsNoBlock
  \/ Reads \/ SeesHalt \/ SeesRunning \/ GoesOn \/ TimesOut \/ ReadsAgain
  \/ Classifies
-----------------------------------------------------------------------------
(* The firmware, as the core executes it.                                  *)
Steps(from, to) ==
  /\ firmware = from /\ firmware' = to
  /\ UNCHANGED <<image, pc, breakpoints, buffer, clocks, outcome>>

(* The start-up code initialises the control block, unless it was loaded,  *)
(* and calls `main`, where there may be a breakpoint.                      *)
EntersMain ==
  /\ Steps("startup", IF "main" \in breakpoints THEN "main" ELSE "test")
  /\ IF image.late_rtt \/ image.from_ram THEN UNCHANGED <<block, mode, ring>>
     ELSE block' = "live" /\ mode' = "skip" /\ ring' = <<>>
  /\ UNCHANGED <<said, reached>>

(* The start-up code halts the core before it gets to `main`.              *)
HaltsEarly ==
  Steps("startup", "early") /\ UNCHANGED <<block, mode, ring, said, reached>>

(* A hardfault halts the core if the breakpoint for it is set.  Otherwise, *)
(* as when it just loops, the firmware is lost and the core runs on.       *)
Faulted == IF "hardfault" \in breakpoints THEN "fault_handler" ELSE "lost"

FaultsEarly == \E to \in {"lost", Faulted} :
  Steps("startup", to) /\ UNCHANGED <<block, mode, ring, said, reached>>

InitsRtt ==
  /\ image.late_rtt /\ block # "live" /\ Steps("test", "test")
  /\ block' = "live" /\ mode' = "skip" /\ ring' = <<>>
  /\ UNCHANGED <<said, reached>>

(* A full ring makes the firmware wait, or drops what it says.             *)
Says ==
  /\ block = "live" /\ Len(said) < MaxSaid /\ Steps("test", "test")
  /\ Len(ring) < image.ring_size \/ mode = "skip"
  /\ \E good \in BOOLEAN :
       LET word == [no |-> Len(said) + 1, good |-> good] IN
       /\ said' = Append(said, word)
       /\ ring' = IF Len(ring) < image.ring_size THEN Append(ring, word) ELSE ring
  /\ UNCHANGED <<block, mode, reached>>

(* Another halt is also a lock-up, sleep or state the probe cannot tell.   *)
Stops == \E to \in {"bkpt", "other_halt", "lost", Faulted} :
  /\ Steps("test", to) /\ UNCHANGED <<block, mode, ring, said>>
  /\ reached' = (to = "bkpt" /\ elapsed <= Limit /\ pc # "clock")

Core == EntersMain \/ HaltsEarly \/ FaultsEarly \/ InitsRtt \/ Says \/ Stops

Tick ==
  /\ pc \notin {"new", "done"} /\ elapsed < MaxTicks
  /\ elapsed' = elapsed + 1
  /\ occupied' = Lower(occupied + 1, MaxTicks)
  /\ UNCHANGED <<image, pc, target, buffer, outcome>>

Done == pc = "done" /\ UNCHANGED vars

Next == Runner \/ PassesBarrier \/ Fails \/ Core \/ Tick \/ Done

Spec == Init /\ [][Next]_vars

(* The thread of the run executes and time passes; nothing is assumed of   *)
(* the firmware.                                                           *)
FairSpec == Spec /\ WF_vars(Runner) /\ WF_vars(Tick)
-----------------------------------------------------------------------------
(* The types; and the ring and the buffer never hold more than was said.   *)
TypeOK ==
  /\ image \in [valid : BOOLEAN, from_ram : BOOLEAN, late_rtt : BOOLEAN,
                ring_size : RingSizes, encoding : {"plain", "raw", "recoverable"}]
  /\ pc \in {"new", "attach", "start", "wait_main", "barrier", "attach_rtt",
             "read", "core_halted", "clock", "read_again", "classify", "done"}
  /\ outcome \in {"none", "error", "timeout", "hardfault", "halted", "bad_log",
                  "success"}
  /\ firmware \in Halted \cup Running
  /\ breakpoints \subseteq {"main", "hardfault"}
  /\ block \in {"none", "stale", "live"} /\ mode \in {"skip", "block"}
  /\ reached \in BOOLEAN
  /\ ring \in Seq(Word) /\ said \in Seq(Word) /\ buffer \in Seq(Word)
  /\ Len(ring) <= image.ring_size /\ Len(ring) + Len(buffer) <= Len(said) + 1
  /\ elapsed \in 0 .. MaxTicks /\ occupied \in 0 .. MaxTicks

(* The core is halted and nothing of the test was executed as long as the  *)
(* runner has not passed the barrier: no target is ahead of the others     *)
(* (runner.rs:283-326).                                                    *)
NotAheadOfBarrier ==
  pc = "barrier" =>
    firmware \in {"reset", "early", "main"} /\ said = <<>>

(* A run that is reported as a success ended by a BKPT of the firmware, not*)
(* by a hardfault nor by a halt of another kind (job.rs:153-160,           *)
(* runner.rs:376-443), unless the start-up code halts the core.            *)
SuccessIsBkpt == outcome = "success" => firmware \in {"bkpt", "early"}

(* The log of an image in flash that blocks on a full ring is all that the *)
(* firmware said before its BKPT, also what it said between the last read  *)
(* of the loop and the halt (runner.rs:342-354) - if its ring fits the 16  *)
(* KiB of `read_buf`.  There is one read after the halt, so what a larger  *)
(* ring holds beyond that is missing at the end of the log, and no more.   *)
Surplus == IF image.ring_size > ReadSize THEN image.ring_size - ReadSize ELSE 0

LogIsComplete ==
  outcome = "success" /\ mode = "block" /\ (\A w \in ToSet(said) : w.good)
    => IsPrefix(Logs, said) /\ Len(said) - Len(Logs) <= Surplus

(* No log of an image in flash has words of an earlier run, and it has its *)
(* own in the order in which they were said (runner.rs:287-310).           *)
LogIsOwn ==
  ~ image.from_ram =>
    \A i, j \in DOMAIN buffer :
      buffer[i].no # 0 /\ (i < j => buffer[i].no < buffer[j].no)

(* A hardfault, another halt or a timeout is reported only of a firmware   *)
(* that had not got to its BKPT in time (job.rs:148-150): however late the *)
(* runner is to notice a BKPT, the clock does not overrule the core        *)
(* (runner.rs:342-371).  It is missed in time only between the runner's    *)
(* last look at the core and its look at the clock.  A log that cannot be  *)
(* decoded makes a failure of any halt (runner.rs:373, 505-506).           *)
FailureIsNoBkpt ==
  outcome \in {"hardfault", "halted", "timeout"} => ~ reached

(* A run whose core is started comes to an end, whatever the firmware does *)
(* or fails to do (runner.rs:336-371, 517-538).                            *)
RunEnds == pc = "attach_rtt" ~> pc = "done"
-----------------------------------------------------------------------------
(* "Used as an upper limit for how long a job can occupy the server"       *)
(* (job.rs:20-22): a run that reaches the timeout is over with it.         *)
OccupiesUpToTimeout == outcome = "timeout" => occupied <= Limit + 1
=============================================================================
