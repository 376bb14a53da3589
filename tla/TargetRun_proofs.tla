-------------------------- MODULE TargetRun_proofs --------------------------
(***************************************************************************)
(* One run on one target, for every image, every timeout, every size of the*)
(* RTT ring and everything the firmware may do: where the core is when the *)
(* barrier opens, what a success is, and what the log of a run holds.      *)
(***************************************************************************)
EXTENDS TargetRun, SequenceFacts

(* What the runner and the core are doing, place by place.                 *)
BeforeTest == {"new", "attach", "start", "wait_main", "barrier"}
Reading    == {"read", "core_halted", "clock", "read_again", "classify"}
Started    == {"attach_rtt"} \cup Reading

(* Until the barrier the core is where the runner has put it, and nothing  *)
(* of the test was executed.                                               *)
Asleep ==
  /\ pc \in {"new", "attach"} => firmware = "lost"
  /\ pc = "start" => firmware = "reset"
  /\ pc = "wait_main" =>
       breakpoints = {"main"} /\ firmware \in {"startup", "early", "main", "lost"}
  /\ pc = "barrier" =>
       breakpoints = {"hardfault"} /\ firmware \in {"reset", "early", "main"}
  /\ pc \in BeforeTest => said = <<>> /\ buffer = <<>>

(* After it the core cannot halt at `main` any more, and once the runner   *)
(* has seen a halt the core stays halted.                                  *)
Awake ==
  /\ pc \in Started =>
       breakpoints = {"hardfault"} /\ firmware \notin {"reset", "main"}
  /\ pc \in {"read_again", "classify"} => firmware \in Halted
  /\ pc = "classify" => Len(ring) <= Surplus

(* A success has its halt and has read the ring as far as one read can.    *)
Succeeded ==
  /\ outcome # "none" => pc = "done"
  /\ outcome = "success" =>
       /\ firmware \in {"bkpt", "early"} /\ Len(ring) <= Surplus
       /\ ~ image.from_ram => block = "live"

(* A BKPT that was reached in time is still there when the core is looked  *)
(* at, so that neither the clock nor another halt decides on the outcome.  *)
Noticed ==
  /\ reached => firmware = "bkpt" /\ pc # "clock"
  /\ outcome = "timeout" => elapsed > Limit /\ ~ reached
  /\ outcome \in {"hardfault", "halted"} => firmware \in Halted \ {"bkpt"}

(* The control block of an image in flash: that of an earlier run is gone  *)
(* before the core is started, and none is read that is not there.         *)
OwnBlock ==
  ~ image.from_ram =>
    /\ pc \in {"wait_main", "barrier"} \cup Started => block # "stale"
    /\ pc \in Reading => block # "none"
    /\ pc \in BeforeTest /\ block = "live" => ring = <<>>

(* What was read, and what is still to be read, in the order of saying.    *)
Transcript == buffer \o ring

Ordered(words, last) ==
  \A i \in DOMAIN words :
    /\ words[i].no \in 1 .. last
    /\ \A j \in DOMAIN words : i < j => words[i].no < words[j].no

(* What an image in flash says is read, and nothing else.                  *)
OwnWords ==
  ~ image.from_ram => IF block = "live" THEN Ordered(Transcript, Len(said)) ELSE buffer = <<>>

(* And a ring that blocks loses nothing.  Only an image in flash has one.  *)
AllWords ==
  /\ mode = "block" => ~ image.from_ram /\ (block = "live" => Transcript = said)
  /\ pc = "wait_main" => ~ image.from_ram

IInv ==
  TypeOK /\ Asleep /\ Awake /\ Succeeded /\ Noticed /\ OwnBlock /\ OwnWords /\ AllWords
-----------------------------------------------------------------------------
(* The size of the ring is the firmware's choice.                          *)
LEMMA Sizes ==
  ASSUME TypeOK
  PROVE  /\ image.ring_size \in Nat \ {0} /\ ReadSize \in Nat \ {0}
         /\ Surplus \in Nat
<1>1. image.ring_size \in Nat \ {0} /\ ReadSize \in Nat \ {0}
  BY RunAssumption DEF TypeOK
<1> QED
  BY <1>1 DEF Surplus

(* A read moves words from the ring to the buffer.                         *)
LEMMA ReadKeepsTranscript ==
  ASSUME TypeOK, ReadsRing
  PROVE  /\ Transcript' = Transcript
         /\ ring' \in Seq(Word) /\ buffer' \in Seq(Word)
         /\ Len(ring') + Len(buffer') = Len(ring) + Len(buffer)
         /\ Len(ring') <= Len(ring) /\ Len(ring') <= Surplus
<1>1. PICK r \in Seq(Word) : r = ring
  BY DEF TypeOK
<1>2. PICK b \in Seq(Word) : b = buffer
  BY DEF TypeOK
<1>3. Len(r) \in Nat /\ Len(b) \in Nat
  BY LenProperties
<1>4. PICK k \in 0 .. Len(r) :
        k = Lower(Len(r), ReadSize) /\ (k = Len(r) \/ k = ReadSize)
  BY <1>3, Sizes DEF Lower
<1>5. PICK moved \in Seq(Word), left \in Seq(Word) :
        /\ moved = SubSeq(r, 1, k) /\ left = SubSeq(r, k + 1, Len(r))
        /\ Len(moved) = k /\ Len(left) = Len(r) - k /\ r = moved \o left
  <2>1. /\ SubSeq(r, 1, k) \in Seq(Word) /\ Len(SubSeq(r, 1, k)) = k
        /\ SubSeq(r, k + 1, Len(r)) \in Seq(Word)
        /\ Len(SubSeq(r, k + 1, Len(r))) = Len(r) - k
        /\ r = SubSeq(r, 1, k) \o SubSeq(r, k + 1, Len(r))
    BY SplitAt
  <2> QED
    BY <2>1, Zenon
<1>6. PICK bm \in Seq(Word) : Joins(Word, b, moved, bm)
  BY JoinsExists
<1>7. PICK t \in Seq(Word) : Joins(Word, bm, left, t)
  BY JoinsExists
<1>8. Joins(Word, moved, left, r)
  BY <1>5 DEF Joins
<1>9. Joins(Word, b, r, t)
  BY <1>6, <1>7, <1>8, Assoc
<1>10. ring' = left /\ buffer' = bm
  <2>1. /\ buffer' = buffer \o SubSeq(ring, 1, Lower(Len(ring), ReadSize))
        /\ ring' = SubSeq(ring, Lower(Len(ring), ReadSize) + 1, Len(ring))
    BY DEF ReadsRing
  <2> QED
    BY <1>1, <1>2, <1>4, <1>5, <1>6, <2>1, Zenon DEF Joins
<1>11. Transcript = t /\ Transcript' = t
  BY <1>1, <1>2, <1>7, <1>9, <1>10, Zenon DEF Transcript, Joins
<1>12. Len(bm) = Len(b) + k
  BY <1>5, <1>6, ConcatProperties DEF Joins
<1>13. Len(left) <= Surplus /\ Len(left) <= Len(r) /\ Len(left) + Len(bm) = Len(r) + Len(b)
  <2>1. PICK size \in Nat, most \in Nat :
          /\ Len(r) <= size /\ most = Surplus
          /\ most = IF size > ReadSize THEN size - ReadSize ELSE 0
    BY <1>1, Sizes DEF TypeOK, Surplus
  <2>2. ReadSize \in Nat
    BY Sizes
  <2>3. Len(left) = Len(r) - k /\ (k = Len(r) \/ k = ReadSize)
    BY <1>4, <1>5, Zenon
  <2> QED
    BY <1>3, <1>12, <2>1, <2>2, <2>3
<1> QED
  <2>1. ring' \in Seq(Word) /\ buffer' \in Seq(Word) /\ Transcript' = Transcript
    BY <1>10, <1>11, Zenon
  <2> QED
    BY <1>1, <1>2, <1>10, <1>13, <2>1, Zenon

(* A word the firmware says.                                               *)
LEMMA SaidWord ==
  ASSUME TypeOK, NEW good \in BOOLEAN, Len(said) < MaxSaid
  PROVE  [no |-> Len(said) + 1, good |-> good] \in Word
<1>1. Len(said) \in Nat
  BY LenProperties DEF TypeOK
<1> QED
  BY <1>1, RunAssumption DEF Word

LEMMA TypeInit == Init => TypeOK
<1> SUFFICES ASSUME Init PROVE TypeOK
  OBVIOUS
<1>1. Old \in Word
  BY RunAssumption DEF Old, Word
<1>2. ring \in Seq(Word) /\ Len(ring) \in {0, 1}
  <2>1. <<>> \in Seq(Word) /\ <<Old>> \in Seq(Word) /\ Len(<<>>) = 0 /\ Len(<<Old>>) = 1
    BY <1>1
  <2> QED
    BY <2>1 DEF Init
<1>3. said \in Seq(Word) /\ buffer \in Seq(Word) /\ Len(said) = 0 /\ Len(buffer) = 0
  BY DEF Init
<1>4. Len(ring) <= image.ring_size /\ 0 \in 0 .. MaxTicks
  <2>1. image.ring_size \in Nat /\ image.ring_size >= 1 /\ MaxTicks \in Nat
    <3>1. image.ring_size \in RingSizes
      BY DEF Init
    <3>2. PICK size \in Nat : size = image.ring_size /\ size # 0
      BY <3>1, RunAssumption
    <3> QED
      BY <3>2, RunAssumption
  <2>2. CASE Len(ring) = 0
    BY <2>1, <2>2
  <2>3. CASE Len(ring) = 1
    BY <2>1, <2>3
  <2> QED
    BY <1>2, <2>1, <2>2, <2>3
<1>5. Len(ring) + Len(buffer) <= Len(said) + 1
  BY <1>2, <1>3
<1> QED
  BY <1>2, <1>3, <1>4, <1>5 DEF Init, TypeOK, Running, Halted


(* Steps that leave all words where they are.                              *)
Still == UNCHANGED <<ring, said, buffer>>

WordsOK ==
  /\ ring \in Seq(Word) /\ said \in Seq(Word) /\ buffer \in Seq(Word)
  /\ Len(ring) <= image.ring_size /\ Len(ring) + Len(buffer) <= Len(said) + 1

LEMMA StillWords == TypeOK /\ Still /\ UNCHANGED image => WordsOK'
BY DEF TypeOK, Still, WordsOK

(* Steps that make the ring anew.                                          *)
LEMMA FreshWords ==
  ASSUME TypeOK, ring' = <<>>, UNCHANGED <<said, buffer, image>>
  PROVE  WordsOK'
<1>1. /\ Len(ring) \in Nat /\ Len(buffer) \in Nat /\ Len(said) \in Nat
      /\ <<>> \in Seq(Word) /\ Len(<<>>) = 0 /\ image.ring_size \in Nat
  BY LenProperties, EmptySeq, Sizes DEF TypeOK
<1> QED
  BY <1>1 DEF TypeOK, WordsOK

LEMMA ReadWords ==
  ASSUME TypeOK, ReadsRing, UNCHANGED image
  PROVE  WordsOK'
<1>1. /\ Len(ring) \in Nat /\ Len(said) \in Nat /\ image.ring_size \in Nat
      /\ said' = said
  BY LenProperties, Sizes DEF TypeOK, ReadsRing
<1>2. /\ ring' \in Seq(Word) /\ buffer' \in Seq(Word) /\ Len(ring') <= Len(ring)
      /\ Len(ring') + Len(buffer') = Len(ring) + Len(buffer)
  BY ReadKeepsTranscript
<1>3. Len(ring') \in Nat
  BY <1>2, LenProperties
<1> QED
  BY <1>1, <1>2, <1>3 DEF TypeOK, WordsOK

LEMMA SaidWords ==
  ASSUME TypeOK, Says
  PROVE  WordsOK'
<1>1. PICK good \in BOOLEAN :
        LET word == [no |-> Len(said) + 1, good |-> good] IN
        /\ said' = Append(said, word)
        /\ ring' = IF Len(ring) < image.ring_size THEN Append(ring, word) ELSE ring
  BY DEF Says
<1>2. PICK word \in Word : word = [no |-> Len(said) + 1, good |-> good]
  BY SaidWord DEF Says
<1>3. /\ Len(ring) \in Nat /\ Len(buffer) \in Nat /\ Len(said) \in Nat
      /\ image.ring_size \in Nat
  BY LenProperties, Sizes DEF TypeOK
<1>4. /\ said' = Append(said, word) /\ buffer' = buffer /\ image' = image
      /\ ring' = IF Len(ring) < image.ring_size THEN Append(ring, word) ELSE ring
  BY <1>1, <1>2 DEF Says, Steps
<1>5. said' \in Seq(Word) /\ Len(said') = Len(said) + 1
  BY <1>4 DEF TypeOK
<1>6. CASE Len(ring) < image.ring_size
  <2>1. ring' \in Seq(Word) /\ Len(ring') = Len(ring) + 1
    BY <1>4, <1>6 DEF TypeOK
  <2> QED
    BY <1>3, <1>4, <1>5, <1>6, <2>1 DEF TypeOK, WordsOK
<1>7. CASE ~ (Len(ring) < image.ring_size)
  BY <1>3, <1>4, <1>5, <1>7 DEF TypeOK, WordsOK
<1> QED
  BY <1>6, <1>7

LEMMA ImageStays ==
  ASSUME [Next]_vars
  PROVE  image' = image
BY DEF Next, Runner, Core, vars, Parses, RefusesImage, Flashes, PreparesRam,
   RunsToMain, ArrivesAtMain, MissesMain, PassesBarrier, AttachesRtt, FindsNoBlock,
   Reads, ReadsAgain, SeesHalt, SeesRunning, GoesOn, TimesOut, Classifies, Fails,
   EntersMain, HaltsEarly, FaultsEarly, InitsRtt, Says, Stops, Tick, Done, Goto,
   Ends, Steps

LEMMA WordsStep ==
  ASSUME TypeOK, [Next]_vars
  PROVE  WordsOK'
<1>1. CASE Reads \/ ReadsAgain
  BY <1>1, ImageStays, ReadWords DEF Reads, ReadsAgain
<1>2. CASE Says
  BY <1>2, SaidWords
<1>3. CASE Flashes
  BY <1>3, ImageStays, StillWords, FreshWords DEF Flashes, Still
<1>4. CASE EntersMain \/ InitsRtt
  BY <1>4, ImageStays, StillWords, FreshWords DEF EntersMain, InitsRtt, Steps, Still
<1>5. CASE \/ Parses \/ RefusesImage \/ PreparesRam \/ RunsToMain \/ ArrivesAtMain
           \/ MissesMain \/ AttachesRtt \/ FindsNoBlock \/ SeesHalt \/ SeesRunning
           \/ GoesOn \/ TimesOut \/ Classifies \/ PassesBarrier \/ Fails
           \/ HaltsEarly \/ FaultsEarly \/ Stops \/ Tick \/ Done \/ UNCHANGED vars
  <2>1. Still
    BY <1>5 DEF Parses, RefusesImage, PreparesRam, RunsToMain, ArrivesAtMain,
       MissesMain, AttachesRtt, FindsNoBlock, SeesHalt, SeesRunning, GoesOn,
       TimesOut, Classifies, PassesBarrier, Fails, HaltsEarly, FaultsEarly, Stops,
       Tick, Done, vars, target, Steps, Still
  <2> QED
    BY <2>1, ImageStays, StillWords
<1> QED
  BY <1>1, <1>2, <1>3, <1>4, <1>5 DEF Next, Runner, Core

ImageOK ==
  image \in [valid : BOOLEAN, from_ram : BOOLEAN, late_rtt : BOOLEAN,
             ring_size : RingSizes, encoding : {"plain", "raw", "recoverable"}]

ControlOK ==
  /\ pc \in BeforeTest \cup Started \cup {"done"}
  /\ outcome \in {"none", "error", "timeout", "hardfault", "halted", "bad_log",
                  "success"}
  /\ firmware \in Halted \cup Running /\ reached \in BOOLEAN
  /\ breakpoints \subseteq {"main", "hardfault"}
  /\ block \in {"none", "stale", "live"} /\ mode \in {"skip", "block"}
  /\ elapsed \in 0 .. MaxTicks /\ occupied \in 0 .. MaxTicks

LEMMA TypeParts == TypeOK <=> ImageOK /\ ControlOK /\ WordsOK
BY DEF TypeOK, ImageOK, ControlOK, WordsOK, BeforeTest, Started, Reading

LEMMA ControlStep ==
  ASSUME ControlOK, [Next]_vars
  PROVE  ControlOK'
<1> USE DEF ControlOK, Goto, Ends, Steps, target, clocks, BeforeTest, Started, Reading
<1>1. 0 \in 0 .. MaxTicks
  BY RunAssumption
<1>2. CASE Parses \/ RefusesImage \/ Flashes \/ PreparesRam \/ RunsToMain
  <2>1. CASE Parses \/ RefusesImage
    BY <2>1 DEF Parses, RefusesImage
  <2>2. CASE Flashes
    BY <2>2 DEF Flashes, Halted
  <2>3. CASE PreparesRam
    BY <2>3 DEF PreparesRam
  <2>4. CASE RunsToMain
    BY <1>1, <2>4 DEF RunsToMain, Running
  <2> QED
    BY <1>2, <2>1, <2>2, <2>3, <2>4
<1>3. CASE ArrivesAtMain \/ MissesMain \/ PassesBarrier \/ AttachesRtt \/ FindsNoBlock
  <2>1. CASE ArrivesAtMain \/ MissesMain
    BY <2>1 DEF ArrivesAtMain, MissesMain
  <2>2. CASE PassesBarrier
    BY <1>1, <2>2 DEF PassesBarrier, Running
  <2>3. CASE AttachesRtt \/ FindsNoBlock
    BY <1>1, <2>3 DEF AttachesRtt, FindsNoBlock
  <2> QED
    BY <1>3, <2>1, <2>2, <2>3
<1>4. CASE Reads \/ ReadsAgain \/ SeesHalt \/ SeesRunning \/ GoesOn
  BY <1>4 DEF Reads, ReadsAgain, ReadsRing, SeesHalt, SeesRunning, GoesOn
<1>5. CASE TimesOut \/ Classifies \/ Fails
  BY <1>5 DEF TimesOut, Classifies, Fails, Verdict, Halted
<1>6. CASE Core
  <2>1. CASE EntersMain \/ HaltsEarly
    BY <2>1 DEF EntersMain, HaltsEarly, Halted, Running
  <2>2. CASE FaultsEarly \/ Stops
    <3>1. firmware' \in {"bkpt", "other_halt", "lost", "fault_handler"}
      BY <2>2 DEF FaultsEarly, Stops, Faulted
    <3>2. UNCHANGED <<pc, breakpoints, clocks, outcome, block, mode>>
      BY <2>2 DEF FaultsEarly, Stops
    <3>3. reached' \in BOOLEAN
      BY <2>2 DEF FaultsEarly, Stops
    <3> QED
      BY <3>1, <3>2, <3>3 DEF Halted, Running
  <2>3. CASE InitsRtt \/ Says
    BY <2>3 DEF InitsRtt, Says
  <2> QED
    BY <1>6, <2>1, <2>2, <2>3 DEF Core
<1>7. CASE Tick
  <2>1. elapsed + 1 \in 0 .. MaxTicks /\ Lower(occupied + 1, MaxTicks) \in 0 .. MaxTicks
    BY <1>7, RunAssumption DEF Tick, Lower
  <2> QED
    BY <1>7, <2>1 DEF Tick
<1>8. CASE Done \/ UNCHANGED vars
  BY <1>8 DEF Done, vars
<1> QED
  BY <1>2, <1>3, <1>4, <1>5, <1>6, <1>7, <1>8 DEF Next, Runner

LEMMA TypeStep ==
  ASSUME TypeOK, [Next]_vars
  PROVE  TypeOK'
<1>1. ControlOK' /\ WordsOK'
  BY TypeParts, WordsStep, ControlStep
<1>2. ImageOK'
  BY TypeParts, ImageStays DEF ImageOK
<1> QED
  BY <1>1, <1>2 DEF TypeOK, ImageOK, ControlOK, WordsOK, BeforeTest, Started, Reading

-----------------------------------------------------------------------------
(* Before the barrier.                                                     *)
LEMMA AsleepStep ==
  ASSUME Asleep, [Next]_vars
  PROVE  Asleep'
<1> USE DEF Asleep, Goto, Ends, Steps, target, BeforeTest
<1>1. CASE Parses \/ RefusesImage \/ Flashes \/ PreparesRam \/ RunsToMain
  BY <1>1 DEF Parses, RefusesImage, Flashes, PreparesRam, RunsToMain
<1>2. CASE ArrivesAtMain \/ MissesMain \/ PassesBarrier \/ AttachesRtt \/ FindsNoBlock
  BY <1>2 DEF ArrivesAtMain, MissesMain, PassesBarrier, AttachesRtt, FindsNoBlock,
     Halted
<1>3. CASE Reads \/ ReadsAgain \/ SeesHalt \/ SeesRunning \/ GoesOn
  BY <1>3 DEF Reads, ReadsAgain, SeesHalt, SeesRunning, GoesOn
<1>4. CASE TimesOut \/ Classifies \/ Fails
  BY <1>4 DEF TimesOut, Classifies, Fails
<1>5. CASE Core
  <2>1. CASE EntersMain \/ HaltsEarly
    BY <2>1 DEF EntersMain, HaltsEarly
  <2>2. CASE FaultsEarly
    BY <2>2 DEF FaultsEarly, Faulted
  <2>3. CASE Stops \/ InitsRtt \/ Says
    <3>1. firmware = "test" /\ pc' = pc
      BY <2>3 DEF Stops, InitsRtt, Says
    <3> QED
      BY <3>1
  <2> QED
    BY <1>5, <2>1, <2>2, <2>3 DEF Core
<1>6. CASE Tick \/ Done \/ UNCHANGED vars
  BY <1>6 DEF Tick, Done, vars
<1> QED
  BY <1>1, <1>2, <1>3, <1>4, <1>5, <1>6 DEF Next, Runner

(* After it.                                                               *)
LEMMA AwakeStep ==
  ASSUME TypeOK, Asleep, Awake, [Next]_vars
  PROVE  Awake'
<1> USE DEF Awake, Goto, Ends, Steps, target, Started, Reading
<1>1. CASE Parses \/ RefusesImage \/ Flashes \/ PreparesRam \/ RunsToMain
  BY <1>1 DEF Parses, RefusesImage, Flashes, PreparesRam, RunsToMain
<1>2. CASE ArrivesAtMain \/ MissesMain
  BY <1>2 DEF ArrivesAtMain, MissesMain
<1>3. CASE PassesBarrier
  BY <1>3 DEF PassesBarrier, Asleep
<1>4. CASE AttachesRtt \/ FindsNoBlock
  BY <1>4 DEF AttachesRtt, FindsNoBlock
<1>5. CASE Reads
  BY <1>5 DEF Reads, ReadsRing
<1>6. CASE ReadsAgain
  <2>1. ReadsRing /\ pc' = "classify" /\ UNCHANGED <<firmware, breakpoints, image>>
    BY <1>6 DEF ReadsAgain, ReadsRing
  <2>2. Len(ring') <= Surplus'
    BY <2>1, ReadKeepsTranscript DEF Surplus
  <2> QED
    BY <1>6, <2>1, <2>2 DEF ReadsAgain
<1>7. CASE SeesHalt \/ SeesRunning \/ GoesOn
  BY <1>7 DEF SeesHalt, SeesRunning, GoesOn
<1>8. CASE TimesOut \/ Classifies \/ Fails
  BY <1>8 DEF TimesOut, Classifies, Fails
<1>9. CASE Core
  <2>1. CASE EntersMain \/ HaltsEarly
    BY <2>1 DEF EntersMain, HaltsEarly, Halted
  <2>2. CASE FaultsEarly
    BY <2>2 DEF FaultsEarly, Faulted, Halted
  <2>3. CASE Stops
    BY <2>3 DEF Stops, Faulted, Halted
  <2>4. CASE InitsRtt \/ Says
    BY <2>4 DEF InitsRtt, Says, Halted
  <2> QED
    BY <1>9, <2>1, <2>2, <2>3, <2>4 DEF Core
<1>10. CASE Tick \/ Done \/ UNCHANGED vars
  BY <1>10 DEF Tick, Done, vars, Surplus
<1> QED
  BY <1>1, <1>2, <1>3, <1>4, <1>5, <1>6, <1>7, <1>8, <1>9, <1>10 DEF Next, Runner

(* A core that has halted stays as it is, unless the runner starts it.     *)
LEMMA HaltedCoreRests ==
  ASSUME Core
  PROVE  /\ firmware \notin Halted /\ UNCHANGED <<image, pc, outcome, buffer>>
         /\ breakpoints' = breakpoints
BY DEF Core, EntersMain, HaltsEarly, FaultsEarly, InitsRtt, Says, Stops, Steps, Halted

(* The control block.                                                      *)
LEMMA OwnBlockStep ==
  ASSUME Asleep, OwnBlock, [Next]_vars
  PROVE  OwnBlock'
<1> USE DEF OwnBlock, Goto, Ends, Steps, target, BeforeTest, Started, Reading
<1>1. CASE Parses \/ RefusesImage \/ Flashes
  BY <1>1 DEF Parses, RefusesImage, Flashes
<1>2. CASE PreparesRam \/ RunsToMain
  BY <1>2 DEF PreparesRam, RunsToMain
<1>3. CASE ArrivesAtMain \/ MissesMain \/ PassesBarrier
  BY <1>3 DEF ArrivesAtMain, MissesMain, PassesBarrier
<1>4. CASE AttachesRtt \/ FindsNoBlock
  BY <1>4 DEF AttachesRtt, FindsNoBlock
<1>5. CASE Reads \/ ReadsAgain
  BY <1>5 DEF Reads, ReadsAgain, ReadsRing
<1>6. CASE SeesHalt \/ SeesRunning \/ GoesOn
  BY <1>6 DEF SeesHalt, SeesRunning, GoesOn
<1>7. CASE TimesOut \/ Classifies \/ Fails
  BY <1>7 DEF TimesOut, Classifies, Fails
<1>8. CASE EntersMain \/ HaltsEarly
  BY <1>8 DEF EntersMain, HaltsEarly
<1>9. CASE FaultsEarly \/ Stops
  BY <1>9 DEF FaultsEarly, Stops
<1>10. CASE InitsRtt
  BY <1>10 DEF InitsRtt
<1>11. CASE Says
  BY <1>11 DEF Says, Asleep
<1>12. CASE Tick \/ Done \/ UNCHANGED vars
  BY <1>12 DEF Tick, Done, vars
<1> QED
  BY <1>1, <1>2, <1>3, <1>4, <1>5, <1>6, <1>7, <1>8, <1>9, <1>10, <1>11, <1>12
     DEF Next, Runner, Core

(* What becomes of a BKPT that was reached in time.                        *)
LEMMA NoticedStep ==
  ASSUME TypeOK, Asleep, Succeeded, Noticed, [Next]_vars
  PROVE  Noticed'
<1> USE DEF Noticed, Goto, Ends, target, clocks
<1>1. CASE Parses \/ RefusesImage \/ Flashes
  BY <1>1 DEF Parses, RefusesImage, Flashes, Asleep, Succeeded
<1>2. CASE PreparesRam \/ RunsToMain
  BY <1>2 DEF PreparesRam, RunsToMain, Asleep, Succeeded
<1>3. CASE ArrivesAtMain \/ MissesMain
  BY <1>3 DEF ArrivesAtMain, MissesMain
<1>4. CASE PassesBarrier
  BY <1>4 DEF PassesBarrier, Asleep, Succeeded
<1>5. CASE AttachesRtt \/ FindsNoBlock
  BY <1>5 DEF AttachesRtt, FindsNoBlock, Succeeded
<1>6. CASE Reads \/ ReadsAgain
  BY <1>6 DEF Reads, ReadsAgain, ReadsRing
<1>7. CASE SeesHalt \/ SeesRunning \/ GoesOn
  BY <1>7 DEF SeesHalt, SeesRunning, GoesOn, Running
<1>8. CASE TimesOut
  BY <1>8 DEF TimesOut
<1>9. CASE Classifies
  BY <1>9 DEF Classifies, Verdict, Halted, TypeOK
<1>10. CASE Fails \/ Tick
  BY <1>10 DEF Fails, Tick, Succeeded
<1>11. CASE Core
  <2>1. /\ firmware \notin Halted /\ UNCHANGED <<pc, outcome, elapsed>> /\ ~ reached
        /\ outcome \notin {"hardfault", "halted"}
    BY <1>11, HaltedCoreRests
       DEF Core, EntersMain, HaltsEarly, FaultsEarly, InitsRtt, Says, Stops, Steps, Halted
  <2>2. ~ reached' \/ (firmware' = "bkpt" /\ elapsed <= Limit /\ pc # "clock")
    BY <1>11, <2>1
       DEF Core, EntersMain, HaltsEarly, FaultsEarly, InitsRtt, Says, Stops, Steps
  <2>3. elapsed > Limit => ~ (elapsed <= Limit)
    BY RunAssumption DEF TypeOK, Limit, Lower
  <2> QED
    BY <2>1, <2>2, <2>3
<1>12. CASE Done \/ UNCHANGED vars
  BY <1>12 DEF Done, vars
<1> QED
  BY <1>1, <1>2, <1>3, <1>4, <1>5, <1>6, <1>7, <1>8, <1>9, <1>10, <1>11, <1>12
     DEF Next, Runner

(* What a run was successful for.                                          *)
LEMMA SucceededStep ==
  ASSUME TypeOK, Awake, OwnBlock, Succeeded, [Next]_vars
  PROVE  Succeeded'
<1> USE DEF Succeeded, Goto, Ends, target
<1>1. CASE Parses \/ RefusesImage \/ Flashes \/ PreparesRam \/ RunsToMain
  BY <1>1 DEF Parses, RefusesImage, Flashes, PreparesRam, RunsToMain
<1>2. CASE ArrivesAtMain \/ MissesMain \/ PassesBarrier \/ AttachesRtt \/ FindsNoBlock
  BY <1>2 DEF ArrivesAtMain, MissesMain, PassesBarrier, AttachesRtt, FindsNoBlock
<1>3. CASE Reads \/ ReadsAgain \/ SeesHalt \/ SeesRunning \/ GoesOn
  BY <1>3 DEF Reads, ReadsAgain, SeesHalt, SeesRunning, GoesOn
<1>4. CASE TimesOut \/ Fails
  BY <1>4 DEF TimesOut, Fails
<1>5. CASE Classifies
  <2>1. /\ pc = "classify" /\ pc' = "done" /\ image' = image
        /\ UNCHANGED <<firmware, block, ring>>
        /\ outcome' = (IF Undecodable THEN "bad_log" ELSE Verdict)
    BY <1>5 DEF Classifies
  <2>2. /\ firmware \in Halted \ {"reset", "main"}
        /\ Len(ring') <= Surplus'
    BY <2>1 DEF Awake, Started, Reading, Surplus
  <2>3. outcome' = "success" => firmware \in {"bkpt", "early"}
    BY <2>1, <2>2 DEF Verdict, Halted, Running
  <2>4. ~ image.from_ram => block = "live"
    BY <2>1 DEF OwnBlock, Started, Reading, TypeOK
  <2> QED
    BY <2>1, <2>2, <2>3, <2>4
<1>6. CASE Core
  BY <1>6, HaltedCoreRests DEF Halted
<1>7. CASE Tick \/ Done \/ UNCHANGED vars
  BY <1>7 DEF Tick, Done, vars, Surplus
<1> QED
  BY <1>1, <1>2, <1>3, <1>4, <1>5, <1>6, <1>7 DEF Next, Runner
-----------------------------------------------------------------------------
LEMMA OrderedNone == \A last : Ordered(<<>>, last)
BY DEF Ordered

LEMMA OrderedPrefix ==
  ASSUME NEW b \in Seq(Word), NEW r \in Seq(Word), NEW last, Ordered(b \o r, last)
  PROVE  Ordered(b, last)
<1>1. \A i \in DOMAIN b : i \in DOMAIN (b \o r) /\ (b \o r)[i] = b[i]
  OBVIOUS
<1> QED
  BY <1>1 DEF Ordered

LEMMA OrderedAppend ==
  ASSUME NEW words \in Seq(Word), NEW word \in Word, NEW last \in Nat,
         Ordered(words, last), word.no = last + 1
  PROVE  Ordered(Append(words, word), last + 1)
<1> DEFINE n == Len(words) + 1
<1>1. /\ DOMAIN Append(words, word) = 1 .. n /\ Append(words, word)[n] = word
      /\ \A i \in 1 .. n : i # n =>
           i \in DOMAIN words /\ Append(words, word)[i] = words[i]
  OBVIOUS
<1>2. n \in Nat /\ DOMAIN words = 1 .. n - 1
  OBVIOUS
<1> QED
  BY <1>1, <1>2 DEF Ordered

(* What a word adds to the transcript.                                     *)
LEMMA SaidTranscript ==
  ASSUME TypeOK, Says
  PROVE  \E word \in Word :
           /\ word.no = Len(said) + 1
           /\ said' = Append(said, word) /\ Len(said') = Len(said) + 1
           /\ \/ Transcript' = Append(Transcript, word)
              \/ mode = "skip" /\ Transcript' = Transcript
<1>1. PICK good \in BOOLEAN :
        LET word == [no |-> Len(said) + 1, good |-> good] IN
        /\ said' = Append(said, word)
        /\ ring' = IF Len(ring) < image.ring_size THEN Append(ring, word) ELSE ring
  BY DEF Says
<1>2. PICK word \in Word : word = [no |-> Len(said) + 1, good |-> good]
  BY SaidWord DEF Says
<1>3. /\ said' = Append(said, word) /\ buffer' = buffer
      /\ ring' = IF Len(ring) < image.ring_size THEN Append(ring, word) ELSE ring
      /\ word.no = Len(said) + 1
  BY <1>1, <1>2 DEF Says, Steps
<1>4. Len(said') = Len(said) + 1
  BY <1>3 DEF TypeOK
<1>5. CASE Len(ring) < image.ring_size
  <2>1. PICK r \in Seq(Word) : r = ring
    BY DEF TypeOK
  <2>2. PICK b \in Seq(Word) : b = buffer
    BY DEF TypeOK
  <2>3. b \o Append(r, word) = Append(b \o r, word)
    BY AppendToConcat
  <2> QED
    BY <1>3, <1>4, <1>5, <2>1, <2>2, <2>3 DEF Transcript
<1>6. CASE ~ (Len(ring) < image.ring_size)
  BY <1>3, <1>4, <1>6 DEF Transcript, Says
<1> QED
  BY <1>5, <1>6

(* The steps, by what becomes of the transcript and of the control block.  *)
LEMMA StepKinds ==
  ASSUME [Next]_vars
  PROVE  \/ /\ UNCHANGED <<said, image, ring, buffer, block>>
            /\ mode' = mode \/ ArrivesAtMain
         \/ Flashes \/ RunsToMain \/ EntersMain \/ InitsRtt \/ Says
         \/ Reads \/ ReadsAgain
BY DEF Next, Runner, Core, vars, target, Parses, RefusesImage, PreparesRam,
   ArrivesAtMain, MissesMain, PassesBarrier, AttachesRtt, FindsNoBlock,
   SeesHalt, SeesRunning, GoesOn, TimesOut, Classifies, Fails, HaltsEarly,
   FaultsEarly, Stops, Tick, Done, Goto, Ends, Steps

LEMMA OwnWordsStep ==
  ASSUME TypeOK, Asleep, OwnBlock, OwnWords, [Next]_vars
  PROVE  OwnWords'
<1> SUFFICES ASSUME ~ image'.from_ram
             PROVE  IF block' = "live" THEN Ordered(Transcript', Len(said'))
                                       ELSE buffer' = <<>>
  BY DEF OwnWords, Ordered
<1>1. image' = image
  BY ImageStays
<1>2. CASE UNCHANGED <<said, image, ring, buffer, block>>
  BY <1>1, <1>2 DEF OwnWords, Transcript
<1>3. CASE Flashes
  BY <1>1, <1>3 DEF Flashes, OwnWords, Transcript
<1>4. CASE RunsToMain
  BY <1>4 DEF RunsToMain, Goto, Asleep, BeforeTest
<1>5. CASE EntersMain \/ InitsRtt
  <2>1. PICK b \in Seq(Word) : b = buffer
    BY DEF TypeOK
  <2>2. PICK r \in Seq(Word) : r = ring
    BY DEF TypeOK
  <2>3. Ordered(b, Len(said))
    <3>1. CASE block = "live"
      BY <1>1, <2>1, <2>2, <3>1, OrderedPrefix DEF OwnWords, Transcript
    <3>2. CASE block # "live"
      BY <1>1, <2>1, <3>2, OrderedNone DEF OwnWords
    <3> QED
      BY <3>1, <3>2
  <2>4. said' = said /\ buffer' = buffer
    BY <1>5 DEF EntersMain, InitsRtt, Steps
  <2>5. CASE ring' = <<>> /\ block' = "live"
    BY <2>1, <2>3, <2>4, <2>5, ConcatEmptySeq DEF Transcript
  <2>6. CASE UNCHANGED <<ring, block>>
    BY <1>1, <2>4, <2>6 DEF OwnWords, Transcript
  <2> QED
    BY <1>5, <2>5, <2>6 DEF EntersMain, InitsRtt
<1>6. CASE Says
  <2>1. block = "live" /\ block' = block
    BY <1>6 DEF Says
  <2>2. PICK word \in Word :
          /\ word.no = Len(said) + 1 /\ Len(said') = Len(said) + 1
          /\ Transcript' = Append(Transcript, word) \/ Transcript' = Transcript
    BY <1>6, SaidTranscript
  <2>3. PICK t \in Seq(Word) : t = Transcript
    BY ConcatProperties DEF TypeOK, Transcript
  <2>4. PICK n \in Nat : n = Len(said)
    BY LenProperties DEF TypeOK
  <2>5. Ordered(t, n)
    BY <1>1, <2>1, <2>3, <2>4 DEF OwnWords
  <2>6. Ordered(Append(t, word), n + 1)
    BY <2>2, <2>4, <2>5, OrderedAppend
  <2>7. Ordered(t, n + 1)
    BY <2>5 DEF Ordered
  <2> QED
    BY <2>1, <2>2, <2>3, <2>4, <2>6, <2>7
<1>7. CASE Reads \/ ReadsAgain
  <2>1. ReadsRing /\ said' = said /\ block' = block /\ pc \in Reading
    BY <1>7 DEF Reads, ReadsAgain, ReadsRing, Goto, Reading
  <2>2. block = "live"
    BY <1>1, <2>1 DEF OwnBlock, Reading, Started, TypeOK
  <2> QED
    BY <1>1, <2>1, <2>2, ReadKeepsTranscript DEF OwnWords
<1> QED
  BY StepKinds, <1>2, <1>3, <1>4, <1>5, <1>6, <1>7

LEMMA AllWordsStep ==
  ASSUME TypeOK, Asleep, OwnBlock, AllWords, [Next]_vars
  PROVE  AllWords'
<1>1. image' = image /\ (pc' = "wait_main" => ~ image.from_ram)
  BY DEF AllWords, Next, Runner, Core, vars, Parses, RefusesImage, Flashes,
     PreparesRam, RunsToMain, ArrivesAtMain, MissesMain, PassesBarrier, AttachesRtt,
     FindsNoBlock, Reads, ReadsAgain, SeesHalt, SeesRunning, GoesOn, TimesOut,
     Classifies, Fails, EntersMain, HaltsEarly, FaultsEarly, InitsRtt, Says, Stops,
     Tick, Done, Goto, Ends, Steps
<1> SUFFICES ASSUME mode' = "block"
             PROVE  ~ image.from_ram /\ (block' = "live" => Transcript' = said')
  BY <1>1 DEF AllWords
<1>2. CASE UNCHANGED <<said, image, ring, buffer, block>> /\ mode' = mode
  BY <1>2 DEF AllWords, Transcript
<1>3. CASE ArrivesAtMain
  <2>1. /\ pc = "wait_main" /\ UNCHANGED <<block, ring, said, buffer>>
    BY <1>3 DEF ArrivesAtMain, Goto
  <2>2. ~ image.from_ram /\ said = <<>> /\ buffer = <<>>
    BY <2>1 DEF AllWords, Asleep, BeforeTest
  <2>3. block = "live" => ring = <<>>
    BY <2>1, <2>2 DEF OwnBlock, BeforeTest
  <2>4. <<>> \o <<>> = <<>>
    BY ConcatEmptySeq, EmptySeq
  <2> QED
    BY <2>1, <2>2, <2>3, <2>4 DEF Transcript
<1>4. CASE Flashes
  BY <1>4 DEF Flashes, AllWords, Transcript
<1>5. CASE RunsToMain
  BY <1>5 DEF RunsToMain
<1>6. CASE EntersMain \/ InitsRtt
  BY <1>6 DEF EntersMain, InitsRtt, Steps, AllWords, Transcript
<1>7. CASE Says
  <2>1. mode = "block" /\ block = "live"
    BY <1>7 DEF Says
  <2>2. \E word \in Word : said' = Append(said, word) /\ Transcript' = Append(Transcript, word)
    BY <1>7, <2>1, SaidTranscript
  <2> QED
    BY <2>1, <2>2 DEF AllWords
<1>8. CASE Reads \/ ReadsAgain
  <2>1. ReadsRing /\ UNCHANGED <<said, block, mode>>
    BY <1>8 DEF Reads, ReadsAgain, ReadsRing
  <2> QED
    BY <2>1, ReadKeepsTranscript DEF AllWords
<1> QED
  BY StepKinds, <1>2, <1>3, <1>4, <1>5, <1>6, <1>7, <1>8
-----------------------------------------------------------------------------
LEMMA InvInit == Init => IInv
<1> SUFFICES ASSUME Init PROVE IInv
  OBVIOUS
<1>1. TypeOK
  BY TypeInit
<1>2. Asleep /\ Awake /\ Succeeded /\ Noticed
  BY DEF Init, Asleep, Awake, Succeeded, Noticed, Started, Reading
<1>3. OwnBlock /\ OwnWords /\ AllWords
  BY DEF Init, OwnBlock, OwnWords, AllWords, Started, Reading
<1> QED
  BY <1>1, <1>2, <1>3 DEF IInv

LEMMA InvStep == IInv /\ [Next]_vars => IInv'
<1> SUFFICES ASSUME IInv, [Next]_vars PROVE IInv'
  OBVIOUS
<1>1. TypeOK' /\ Asleep'
  BY TypeStep, AsleepStep DEF IInv
<1>2. Awake' /\ Succeeded' /\ Noticed'
  BY AwakeStep, SucceededStep, NoticedStep DEF IInv
<1>3. OwnBlock' /\ OwnWords' /\ AllWords'
  BY OwnBlockStep, OwnWordsStep, AllWordsStep DEF IInv
<1> QED
  BY <1>1, <1>2, <1>3 DEF IInv

LEMMA RunCorrect == Spec => []IInv
BY InvInit, InvStep, PTL DEF Spec

(* The state of a run stays well-typed, and the ring and the buffer never  *)
(* hold more than was said.                                                *)
THEOREM TypeCorrect == Spec => []TypeOK
<1>1. IInv => TypeOK
  BY DEF IInv
<1> QED
  BY <1>1, RunCorrect, PTL

(* No core executes anything of the test while its runner waits for the    *)
(* others, whether the image is in flash or in RAM and whatever its        *)
(* start-up code does (runner.rs:283-326).                                 *)
THEOREM BarrierHolds == Spec => []NotAheadOfBarrier
<1>1. IInv => NotAheadOfBarrier
  BY DEF IInv, Asleep, NotAheadOfBarrier, BeforeTest
<1> QED
  BY <1>1, RunCorrect, PTL

(* Only a breakpoint of the firmware itself makes a run a success; the     *)
(* breakpoints of the runner never do (runner.rs:376-443).                 *)
THEOREM SuccessHasBkpt == Spec => []SuccessIsBkpt
<1>1. IInv => SuccessIsBkpt
  BY DEF IInv, Succeeded, SuccessIsBkpt
<1> QED
  BY <1>1, RunCorrect, PTL

(* The clock is looked at after the core, so whatever the timeout and      *)
(* however slow the runner, a BKPT reached in time and before that last    *)
(* look makes no failure but that of its log (runner.rs:342-371, 376-443). *)
THEOREM FailureHasNoBkpt == Spec => []FailureIsNoBkpt
<1>1. IInv => FailureIsNoBkpt
  BY DEF IInv, Noticed, FailureIsNoBkpt, Halted
<1> QED
  BY <1>1, RunCorrect, PTL

(* The log of an image in flash never has what an earlier run left in the  *)
(* ring, and nothing twice or out of order (runner.rs:287-310).            *)
THEOREM LogHasOwn == Spec => []LogIsOwn
<1>1. ASSUME IInv PROVE LogIsOwn
  <2> SUFFICES ASSUME ~ image.from_ram PROVE Ordered(buffer, Len(said))
    BY DEF LogIsOwn, Ordered
  <2>1. CASE block = "live"
    <3>1. PICK b \in Seq(Word) : b = buffer
      BY <1>1 DEF IInv, TypeOK
    <3>2. PICK r \in Seq(Word) : r = ring
      BY <1>1 DEF IInv, TypeOK
    <3> QED
      BY <1>1, <2>1, <3>1, <3>2, OrderedPrefix DEF IInv, OwnWords, Transcript
  <2>2. CASE block # "live"
    BY <1>1, <2>2, OrderedNone DEF IInv, OwnWords
  <2> QED
    BY <2>1, <2>2
<1> QED
  BY <1>1, RunCorrect, PTL

(* What is missing in the buffer of a success is still in the ring.        *)
LEMMA LostIsInRing ==
  ASSUME IInv, outcome = "success", mode = "block"
  PROVE  /\ IsPrefix(buffer, said) /\ Len(said) - Len(buffer) <= Surplus
<1>1. Len(ring) <= Surplus /\ buffer \o ring = said
  BY DEF IInv, Succeeded, AllWords, Transcript
<1>2. PICK b \in Seq(Word), r \in Seq(Word), t \in Seq(Word) :
        b = buffer /\ r = ring /\ Joins(Word, b, r, t)
  BY JoinsExists DEF IInv, TypeOK
<1>3. t = said
  BY <1>1, <1>2 DEF Joins
<1>4. IsPrefix(b, t)
  BY <1>2, PrefixOfConcat DEF Joins
<1>5. Len(t) - Len(b) = Len(r) /\ Len(b) \in Nat /\ Len(r) \in Nat
  BY <1>2, ConcatProperties, LenProperties DEF Joins
<1> QED
  BY <1>1, <1>2, <1>3, <1>4, <1>5

(* Whatever the sizes of the ring and of a read, and whenever the last read*)
(* of the loop was: a run that succeeds with a ring that blocks has a log  *)
(* that begins like all that the firmware said, if that can be decoded, and*)
(* lacks at its end at most what a ring holds beyond one read.  A ring that*)
(* one read can empty loses nothing (runner.rs:342-354, 457-513).          *)
THEOREM LogHasAll == Spec => []LogIsComplete
<1>1. ASSUME IInv PROVE LogIsComplete
  <2> SUFFICES ASSUME outcome = "success", mode = "block",
                      \A w \in ToSet(said) : w.good
               PROVE  IsPrefix(Logs, said) /\ Len(said) - Len(Logs) <= Surplus
    BY DEF LogIsComplete
  <2>1. IsPrefix(buffer, said) /\ Len(said) - Len(buffer) <= Surplus
    BY <1>1, LostIsInRing
  <2>2. {i \in DOMAIN buffer : ~ buffer[i].good} = {}
    <3>1. PICK b \in Seq(Word), all \in Seq(Word) : b = buffer /\ all = said
      BY <1>1 DEF IInv, TypeOK
    <3>2. \A i \in DOMAIN b : i \in DOMAIN all /\ b[i] = all[i]
      BY <2>1, <3>1, PrefixElements
    <3> QED
      BY <3>1, <3>2 DEF ToSet
  <2> QED
    BY <2>1, <2>2 DEF Logs
<1> QED
  BY <1>1, RunCorrect, PTL
=============================================================================
