-------------------------- MODULE Settings_proofs --------------------------
(***************************************************************************)
(* The settings file and the tokens, for any invocations of the program,   *)
(* any names, any tokens and any file at the path at first.                *)
(***************************************************************************)
EXTENDS Settings, TLAPS

(* What only depends on where an invocation is.  The file is never absent  *)
(* again once somebody has created it.                                     *)
Placed ==
  /\ file.state # "text" => file.settings = Default
  /\ expected.state # "absent"
  /\ file.state = "absent" =>
       \A i \in Invocations : pc[i] \in {"off", "exists", "create", "killed"}
  /\ \A i \in Invocations :
       /\ pc[i] \in {"save", "fill"} => new_token[i] # NoName
       /\ pc[i] = "parsed" => Valid(settings[i])

(* What the history says of the overlaps.                                  *)
Exclusive ==
  /\ "two_writers" \notin disturbed =>
       \A i, k \in Invocations : i # k => ~ (Writing(i) /\ Writing(k))
  /\ disturbed = {} =>
       \A i, k \in Invocations : i # k /\ Writing(i) => ~ AtWork(k)

(* Without two writers at once, who is about to write knows what was saved *)
(* last: nothing, if it creates the file.                                  *)
Informed ==
  "two_writers" \notin disturbed =>
    /\ file.state = "text" => file.settings.auth_tokens = saved
    /\ file.state = "absent" => saved = NoTokens
    /\ \A i \in Invocations :
         /\ pc[i] \in {"create", "fill_default"} => saved = NoTokens
         /\ pc[i] \in {"parsed", "serving"} => settings[i].auth_tokens = seen[i]
         /\ pc[i] \in {"save", "fill"} =>
              settings[i].auth_tokens = Put(seen[i], new_token[i], i)
         /\ pc[i] \in {"parsed", "save", "fill"} /\ new_token[i] # NoName =>
              seen[i] = saved

(* And who is about to write, and is not killed, writes what is expected.  *)
Settled == file = expected \/ (file = Absent /\ expected = Text(Default))

Kept ==
  disturbed \cap {"two_writers", "killed"} = {} =>
    /\ (\A i \in Invocations : pc[i] \notin {"fill_default", "save", "fill"}) => Settled
    /\ \A i \in Invocations :
         /\ pc[i] = "create" => file = Absent /\ expected = Text(Default)
         /\ pc[i] = "fill_default" => file = Blank /\ expected = Text(Default)
         /\ pc[i] = "fill" => file = Blank
         /\ pc[i] \in {"parsed", "save", "fill"} /\ new_token[i] # NoName =>
              expected = Text(settings[i])

(* Undisturbed, who has read the file has read what is expected.           *)
Judged ==
  /\ disturbed = {} =>
       \A i \in Invocations : pc[i] = "parsed" => expected = Text(settings[i])
  /\ RefusesOnlyBadSettings

IInv == TypeOK /\ Placed /\ Exclusive /\ Informed /\ Kept /\ Judged

-----------------------------------------------------------------------------
(* Maps and settings.                                                      *)
LEMMA PutType ==
  ASSUME NEW map \in TokenMaps, NEW key \in Names \cup {EmptyName}, NEW value \in Tokens
  PROVE  Put(map, key, value) \in TokenMaps
<1>1. PICK D \in SUBSET (Names \cup {EmptyName}) : map \in [D -> Tokens]
  BY DEF TokenMaps
<1>2. D \cup {key} \in SUBSET (Names \cup {EmptyName})
  OBVIOUS
<1>3. Put(map, key, value) \in [D \cup {key} -> Tokens]
  BY <1>1 DEF Put
<1> QED
  BY <1>2, <1>3 DEF TokenMaps

LEMMA DefaultType == NoTokens \in TokenMaps /\ Default \in SettingsType
<1>1. NoTokens \in [{} -> Tokens] /\ {} \in SUBSET (Names \cup {EmptyName})
  BY DEF NoTokens
<1>2. NoTokens \in TokenMaps
  BY <1>1 DEF TokenMaps
<1> QED
  BY <1>2 DEF Default, SettingsType

LEMMA TextType ==
  ASSUME NEW s \in SettingsType
  PROVE  /\ Text(s) \in FileType /\ Text(s).state = "text" /\ Text(s).settings = s
         /\ {Blank, Garbled, Absent} \subseteq FileType
BY DefaultType DEF Text, Blank, Garbled, Absent, FileType

(* A file that has a text is the text of its settings.                     *)
LEMMA FileIsText ==
  ASSUME NEW f \in FileType, f.state = "text"
  PROVE  f = Text(f.settings) /\ f.settings \in SettingsType
BY DEF FileType, Text

LEMMA WrittenType ==
  ASSUME NEW s \in SettingsType, NEW f, NEW g \in WrittenTo(f, s)
  PROVE  /\ g \in FileType /\ g \in {Text(s), Garbled}
         /\ g.state # "absent" /\ (f.state = "blank" => g = Text(s))
<1>1. g \in {Text(s), Garbled} /\ (f.state = "blank" => g = Text(s))
  BY DEF WrittenTo
<1>2. Text(s).state = "text" /\ Garbled.state = "garbled"
  BY DEF Text, Garbled
<1>3. g \in FileType
  BY <1>1, TextType
<1>4. g.state # "absent"
  BY <1>1, <1>2
<1> QED
  BY <1>1, <1>3, <1>4

(* Settings with a token more.                                             *)
LEMMA WithToken ==
  ASSUME NEW s \in SettingsType, NEW key \in Names \cup {EmptyName}, NEW value \in Tokens,
         NEW t, t = [s EXCEPT !.auth_tokens = Put(@, key, value)]
  PROVE  /\ t \in SettingsType /\ t.auth_tokens = Put(s.auth_tokens, key, value)
         /\ t.max_jobs_in_queue = s.max_jobs_in_queue
<1>1. s.auth_tokens \in TokenMaps
  BY DEF SettingsType
<1>2. PICK m \in TokenMaps : m = Put(s.auth_tokens, key, value)
  BY <1>1, PutType
<1> QED
  BY <1>2 DEF SettingsType

(* What an announcement changes.                                           *)
LEMMA Announcement ==
  ASSUME TypeOK, NEW i \in Invocations, AnnouncesToken(i)
  PROVE  /\ settings' \in [Invocations -> SettingsType]
         /\ \A k \in Invocations : k # i => settings'[k] = settings[k]
         /\ settings'[i].auth_tokens = Put(settings[i].auth_tokens, new_token[i], i)
         /\ settings'[i].max_jobs_in_queue = settings[i].max_jobs_in_queue
         /\ expected' \in FileType /\ expected'.state = expected.state
         /\ expected = Text(settings[i]) => expected' = Text(settings'[i])
<1>1. /\ new_token[i] \in Names \cup {EmptyName} /\ i \in Tokens
      /\ settings[i] \in SettingsType /\ expected.settings \in SettingsType
  BY DEF AnnouncesToken, TypeOK, Tokens, FileType
<1> DEFINE new == [settings[i] EXCEPT !.auth_tokens = Put(@, new_token[i], i)]
           exp == [expected.settings EXCEPT !.auth_tokens = Put(@, new_token[i], i)]
<1>2. settings' = [settings EXCEPT ![i] = new]
  BY DEF AnnouncesToken, With, TypeOK
<1>3. expected' = [expected EXCEPT !.settings = exp]
  BY DEF AnnouncesToken, TypeOK
<1>4. /\ new \in SettingsType
      /\ new.auth_tokens = Put(settings[i].auth_tokens, new_token[i], i)
      /\ new.max_jobs_in_queue = settings[i].max_jobs_in_queue
  BY <1>1, WithToken
<1>5. exp \in SettingsType
  BY <1>1, WithToken
<1>6. expected' \in FileType /\ expected'.state = expected.state
  BY <1>3, <1>5 DEF TypeOK, FileType
<1>7. expected = Text(settings[i]) => expected' = Text(new)
  BY <1>3 DEF Text
<1> HIDE DEF new
<1>8. /\ settings' \in [Invocations -> SettingsType] /\ settings'[i] = new
      /\ \A k \in Invocations : k # i => settings'[k] = settings[k]
  BY <1>2, <1>4 DEF TypeOK
<1> QED
  BY <1>4, <1>6, <1>7, <1>8

-----------------------------------------------------------------------------
(* The steps that only move an invocation on.                              *)
Moves(i, from, to) ==
  /\ pc[i] = from /\ pc' = [pc EXCEPT ![i] = to]
  /\ UNCHANGED <<file, new_token, settings, ghosts>>

LEMMA Movements ==
  ASSUME NEW i \in Invocations
  PROVE  /\ FindsFile(i) => Moves(i, "exists", "read") /\ file.state # "absent"
         /\ MissesFile(i) => Moves(i, "exists", "create") /\ file.state = "absent"
         /\ RefusesToStart(i) => Moves(i, "read", "refused")
         /\ Serves(i) => Moves(i, "parsed", "serving") /\ new_token[i] = NoName
         /\ PanicsOnChannel(i) => Moves(i, "parsed", "panicked")
         /\ StopsServing(i) => Moves(i, "serving", "exited")
BY DEF Moves, Goes, FindsFile, MissesFile, RefusesToStart, Serves, PanicsOnChannel,
   StopsServing

Places == {"off", "exists", "create", "fill_default", "read", "parsed", "save",
           "fill", "exited", "refused", "panicked", "serving", "killed"}

LEMMA TypeInit == Init => TypeOK
<1> SUFFICES ASSUME Init PROVE TypeOK
  OBVIOUS
<1>1. file \in FileType /\ expected \in FileType
  BY FilesAssumption, DefaultType, TextType DEF Init
<1>2. settings \in [Invocations -> SettingsType] /\ seen \in [Invocations -> TokenMaps]
  BY DefaultType DEF Init
<1>3. saved \in TokenMaps
  BY <1>1 DEF Init, FileType, SettingsType
<1> QED
  BY <1>1, <1>2, <1>3 DEF Init, TypeOK

LEMMA TypeStep ==
  ASSUME TypeOK, Placed, [Next]_vars
  PROVE  TypeOK'
<1>1. ASSUME NEW i \in Invocations, NEW from \in Places, NEW to \in Places,
             Moves(i, from, to)
      PROVE  TypeOK'
  BY <1>1 DEF TypeOK, Moves, Places, ghosts
<1>2. ASSUME NEW i \in Invocations, NEW name \in Names \cup {EmptyName, NoName},
             Begins(i, name)
      PROVE  TypeOK'
  <2>1. disturbed' \subseteq {"two_writers", "reader", "killed"}
    BY <1>2 DEF Begins, TypeOK
  <2> QED
    BY <1>2, <2>1 DEF TypeOK, Begins, Goes
<1>3. ASSUME NEW i \in Invocations, CreatesFile(i) \/ OpensToSave(i)
      PROVE  TypeOK'
  <2>1. Blank \in FileType
    BY TextType, DefaultType
  <2> QED
    BY <1>3, <2>1 DEF TypeOK, CreatesFile, OpensToSave, Truncated, Goes, ghosts
<1>4. ASSUME NEW i \in Invocations, FillsDefault(i)
      PROVE  TypeOK'
  <2>1. file' \in FileType
    BY <1>4, WrittenType, DefaultType DEF FillsDefault
  <2> QED
    BY <1>4, <2>1 DEF TypeOK, FillsDefault, Goes, ghosts
<1>5. ASSUME NEW i \in Invocations, ReadsSettings(i)
      PROVE  TypeOK'
  <2>1. file.settings \in SettingsType
    BY DEF TypeOK, FileType
  <2> QED
    BY <1>5, <2>1 DEF TypeOK, ReadsSettings, Parsed, Goes
<1>6. ASSUME NEW i \in Invocations, AnnouncesToken(i)
      PROVE  TypeOK'
  BY <1>6, Announcement DEF TypeOK, AnnouncesToken, Goes
<1>7. ASSUME NEW i \in Invocations, SavesToken(i)
      PROVE  TypeOK'
  <2>1. settings[i] \in SettingsType
    BY DEF TypeOK
  <2>2. file' \in FileType
    BY <1>7, <2>1, WrittenType DEF SavesToken
  <2>3. new_token[i] \in Names \cup {EmptyName} /\ i \in Tokens
    BY <1>7 DEF SavesToken, TypeOK, Placed, Tokens
  <2>4. saved' \in TokenMaps
    BY <1>7, <2>3, PutType DEF SavesToken, TypeOK
  <2> QED
    BY <1>7, <2>2, <2>4 DEF TypeOK, SavesToken, Goes
<1>8. ASSUME NEW i \in Invocations, Killed(i)
      PROVE  TypeOK'
  BY <1>8 DEF TypeOK, Killed, Goes
<1>9. CASE Exited \/ UNCHANGED vars
  BY <1>9 DEF TypeOK, Exited, vars, locals, ghosts
<1> QED
  BY <1>1, <1>2, <1>3, <1>4, <1>5, <1>6, <1>7, <1>8, <1>9, Movements
     DEF Next, Cli, Places

-----------------------------------------------------------------------------
LEMMA PlacedStep ==
  ASSUME TypeOK, Placed, [Next]_vars
  PROVE  Placed'
<1> USE DEF TypeOK, Placed, ghosts
<1>1. ASSUME NEW i \in Invocations, NEW from \in Places, NEW to \in Places,
             Moves(i, from, to),
             to \in {"read", "create", "refused", "serving", "panicked", "exited"},
             to = "create" \/ file.state # "absent"
      PROVE  Placed'
  BY <1>1 DEF Moves
<1>2. ASSUME NEW i \in Invocations, NEW name \in Names \cup {EmptyName, NoName},
             Begins(i, name)
      PROVE  Placed'
  BY <1>2 DEF Begins, Goes
<1>3. ASSUME NEW i \in Invocations, CreatesFile(i) \/ OpensToSave(i)
      PROVE  Placed'
  <2>1. Blank.state # "absent" /\ Blank.state # "text" /\ Blank.settings = Default
    BY DEF Blank
  <2>2. file' = Blank /\ UNCHANGED <<new_token, settings, expected>>
    BY <1>3 DEF CreatesFile, OpensToSave, Truncated
  <2>3. \E to \in {"fill_default", "fill"} :
          /\ pc' = [pc EXCEPT ![i] = to] /\ (to = "fill" => pc[i] = "save")
    BY <1>3 DEF CreatesFile, OpensToSave, Goes
  <2> QED
    BY <2>1, <2>2, <2>3
<1>4. ASSUME NEW i \in Invocations, FillsDefault(i)
      PROVE  Placed'
  <2>1. /\ file' \in {Text(Default), Garbled} /\ file'.state # "absent"
        /\ Text(Default).settings = Default /\ Garbled.settings = Default
    BY <1>4, WrittenType, DefaultType DEF FillsDefault, Text, Garbled
  <2> QED
    BY <1>4, <2>1 DEF FillsDefault, Goes
<1>5. ASSUME NEW i \in Invocations, ReadsSettings(i)
      PROVE  Placed'
  BY <1>5 DEF ReadsSettings, Parsed, Goes
<1>6. ASSUME NEW i \in Invocations, AnnouncesToken(i)
      PROVE  Placed'
  BY <1>6, Announcement DEF AnnouncesToken, Goes
<1>7. ASSUME NEW i \in Invocations, SavesToken(i)
      PROVE  Placed'
  <2>1. settings[i] \in SettingsType
    OBVIOUS
  <2>2. /\ file' \in {Text(settings[i]), Garbled} /\ file'.state # "absent"
        /\ Text(settings[i]).state = "text" /\ Garbled.settings = Default
    BY <1>7, <2>1, WrittenType DEF SavesToken, Text, Garbled
  <2> QED
    BY <1>7, <2>2 DEF SavesToken, Goes
<1>8. ASSUME NEW i \in Invocations, Killed(i)
      PROVE  Placed'
  BY <1>8 DEF Killed, Goes
<1>9. CASE Exited \/ UNCHANGED vars
  BY <1>9 DEF Exited, vars, locals
<1>10. ASSUME NEW i \in Invocations,
              FindsFile(i) \/ MissesFile(i) \/ RefusesToStart(i) \/ Serves(i)
              \/ PanicsOnChannel(i) \/ StopsServing(i)
       PROVE  Placed'
  <2>1. pc[i] \notin {"off", "exists", "create", "killed"} => file.state # "absent"
    OBVIOUS
  <2> QED
    BY <1>1, <1>10, <2>1, Movements DEF Places, Moves
<1> QED
  BY <1>2, <1>3, <1>4, <1>5, <1>6, <1>7, <1>8, <1>9, <1>10 DEF Next, Cli

(* Who writes, or will.                                                    *)
LEMMA WritingPlaces ==
  ASSUME Placed, NEW i \in Invocations
  PROVE  /\ pc[i] \in {"create", "fill_default", "save", "fill"} => Writing(i)
         /\ AtWork(i) /\ new_token[i] # NoName => Writing(i)
         /\ AtWork(i) /\ file.state = "absent" => Writing(i)
         /\ Writing(i) => AtWork(i)
BY DEF Placed, Writing, Writes, AtWork

(* Nobody who is at work takes up writing, and nobody comes to work but by *)
(* beginning.                                                              *)
LEMMA WritersBegin ==
  ASSUME TypeOK, Placed, [Next]_vars, NEW k \in Invocations
  PROVE  \/ /\ Writing(k)' => Writing(k)
            /\ AtWork(k)' => AtWork(k)
         \/ \E name \in Names \cup {EmptyName, NoName} : Begins(k, name)
<1> USE DEF TypeOK, Placed, Writing, Writes, AtWork
<1>1. ASSUME NEW i \in Invocations, NEW name \in Names \cup {EmptyName, NoName},
             Begins(i, name), i # k
      PROVE  (Writing(k)' => Writing(k)) /\ (AtWork(k)' => AtWork(k))
  BY <1>1 DEF Begins, Goes
<1>2. ASSUME NEW i \in Invocations, FindsFile(i) \/ MissesFile(i) \/ RefusesToStart(i)
             \/ Serves(i) \/ PanicsOnChannel(i) \/ StopsServing(i)
      PROVE  (Writing(k)' => Writing(k)) /\ (AtWork(k)' => AtWork(k))
  BY <1>2 DEF FindsFile, MissesFile, RefusesToStart, Serves, PanicsOnChannel,
     StopsServing, Goes
<1>3. ASSUME NEW i \in Invocations, CreatesFile(i) \/ OpensToSave(i)
      PROVE  (Writing(k)' => Writing(k)) /\ (AtWork(k)' => AtWork(k))
  BY <1>3 DEF CreatesFile, OpensToSave, Truncated, Blank, Goes
<1>4. ASSUME NEW i \in Invocations, FillsDefault(i) \/ SavesToken(i)
      PROVE  (Writing(k)' => Writing(k)) /\ (AtWork(k)' => AtWork(k))
  <2>1. file'.state # "absent"
    BY <1>4, WrittenType, DefaultType DEF FillsDefault, SavesToken
  <2> QED
    BY <1>4, <2>1 DEF FillsDefault, SavesToken, Goes
<1>5. ASSUME NEW i \in Invocations, ReadsSettings(i) \/ AnnouncesToken(i) \/ Killed(i)
      PROVE  (Writing(k)' => Writing(k)) /\ (AtWork(k)' => AtWork(k))
  BY <1>5 DEF ReadsSettings, AnnouncesToken, Killed, Goes
<1>6. CASE Exited \/ UNCHANGED vars
  BY <1>6 DEF Exited, vars, locals
<1> QED
  BY <1>1, <1>2, <1>3, <1>4, <1>5, <1>6 DEF Next, Cli

(* Disturbances are not forgotten.                                         *)
LEMMA DisturbedGrows ==
  ASSUME [Next]_vars
  PROVE  disturbed \subseteq disturbed'
BY DEF Next, Cli, Begins, FindsFile, MissesFile, CreatesFile, FillsDefault,
   ReadsSettings, RefusesToStart, AnnouncesToken, OpensToSave, SavesToken, Serves,
   PanicsOnChannel, StopsServing, Killed, Exited, vars, ghosts

LEMMA ExclusiveStep ==
  ASSUME TypeOK, Placed, Exclusive, [Next]_vars
  PROVE  Exclusive'
<1>1. ASSUME NEW i \in Invocations, NEW name \in Names \cup {EmptyName, NoName},
             Begins(i, name)
      PROVE  Exclusive'
  <2>1. /\ Writing(i)' = Writes(name) /\ AtWork(i)' = TRUE
        /\ ~ AtWork(i)
    BY <1>1 DEF Begins, Goes, Writing, Writes, AtWork, TypeOK
  <2>2. \A k \in Invocations : k # i => Writing(k)' = Writing(k) /\ AtWork(k)' = AtWork(k)
    BY <1>1 DEF Begins, Goes, Writing, Writes, AtWork, TypeOK
  <2>3. /\ "two_writers" \notin disturbed' =>
             /\ "two_writers" \notin disturbed
             /\ \A k \in Invocations : ~ (Writing(k) /\ Writes(name))
        /\ disturbed' = {} =>
             /\ disturbed = {}
             /\ \A k \in Invocations : AtWork(k) => Writing(k) = Writes(name)
    BY <1>1 DEF Begins, Writing
  <2>4. "two_writers" \notin disturbed' =>
          \A j, k \in Invocations : j # k => ~ (Writing(j)' /\ Writing(k)')
    BY <2>1, <2>2, <2>3 DEF Exclusive
  <2>5. disturbed' = {} =>
          \A j, k \in Invocations : j # k /\ Writing(j)' => ~ AtWork(k)'
    <3> SUFFICES ASSUME disturbed' = {}, NEW j \in Invocations, NEW k \in Invocations,
                        j # k, Writing(j)', AtWork(k)'
                 PROVE  FALSE
      OBVIOUS
    <3>1. \A w \in Invocations : ~ (Writing(w) /\ Writes(name))
      BY <2>3
    <3>2. CASE j = i
      BY <2>1, <2>2, <2>3, <3>1, <3>2
    <3>3. CASE k = i
      <4>1. Writing(j) /\ AtWork(j)
        BY <2>2, <3>3 DEF Writing
      <4> QED
        BY <2>3, <3>1, <4>1
    <3>4. CASE j # i /\ k # i
      BY <2>2, <2>3, <3>4 DEF Exclusive
    <3> QED
      BY <3>2, <3>3, <3>4
  <2> QED
    BY <2>4, <2>5 DEF Exclusive
<1>2. CASE \A i \in Invocations : \A name \in Names \cup {EmptyName, NoName} :
             ~ Begins(i, name)
  <2>1. \A k \in Invocations : (Writing(k)' => Writing(k)) /\ (AtWork(k)' => AtWork(k))
    BY <1>2, WritersBegin
  <2> QED
    BY <2>1, DisturbedGrows DEF Exclusive
<1> QED
  BY <1>1, <1>2

-----------------------------------------------------------------------------
LEMMA InformedStep ==
  ASSUME TypeOK, Placed, Exclusive, Informed, [Next]_vars
  PROVE  Informed'
<1> SUFFICES ASSUME "two_writers" \notin disturbed' PROVE Informed'
  BY DEF Informed
<1>0. "two_writers" \notin disturbed
  BY DisturbedGrows
<1> USE DEF TypeOK, Informed, ghosts
<1>1. ASSUME NEW i \in Invocations, NEW name \in Names \cup {EmptyName, NoName},
             Begins(i, name)
      PROVE  Informed'
  BY <1>0, <1>1 DEF Begins, Goes
<1>2. ASSUME NEW i \in Invocations, FindsFile(i) \/ MissesFile(i) \/ RefusesToStart(i)
             \/ Serves(i) \/ PanicsOnChannel(i) \/ StopsServing(i)
      PROVE  Informed'
  BY <1>0, <1>2, Movements DEF Moves
<1>3. ASSUME NEW i \in Invocations, CreatesFile(i) \/ OpensToSave(i)
      PROVE  Informed'
  <2>1. Blank.state # "absent" /\ Blank.state # "text"
    BY DEF Blank
  <2>2. file' = Blank /\ UNCHANGED <<new_token, settings, saved, seen>>
    BY <1>3 DEF CreatesFile, OpensToSave, Truncated
  <2>3. \/ pc[i] = "create" /\ pc' = [pc EXCEPT ![i] = "fill_default"]
        \/ pc[i] = "save" /\ pc' = [pc EXCEPT ![i] = "fill"]
    BY <1>3 DEF CreatesFile, OpensToSave, Goes
  <2> QED
    BY <1>0, <2>1, <2>2, <2>3
<1>4. ASSUME NEW i \in Invocations, FillsDefault(i)
      PROVE  Informed'
  <2>1. file' \in {Text(Default), Garbled} /\ file'.state # "absent"
    BY <1>4, WrittenType, DefaultType DEF FillsDefault
  <2>2. file'.state = "text" => file'.settings.auth_tokens = NoTokens
    BY <2>1 DEF Text, Garbled, Default
  <2>3. pc[i] = "fill_default" /\ saved = NoTokens
    BY <1>0, <1>4 DEF FillsDefault
  <2>4. /\ UNCHANGED <<new_token, settings, saved, seen>>
        /\ pc' = [pc EXCEPT ![i] = "read"]
    BY <1>4 DEF FillsDefault, Goes
  <2> QED
    BY <1>0, <2>1, <2>2, <2>3, <2>4
<1>5. ASSUME NEW i \in Invocations, ReadsSettings(i)
      PROVE  Informed'
  <2>1. /\ pc[i] = "read" /\ pc' = [pc EXCEPT ![i] = "parsed"] /\ file.state = "text"
        /\ settings' = [settings EXCEPT ![i] = file.settings]
        /\ seen' = [seen EXCEPT ![i] = saved]
        /\ UNCHANGED <<file, new_token, saved>>
    BY <1>5 DEF ReadsSettings, Parsed, Goes
  <2>2. settings'[i].auth_tokens = saved
    BY <1>0, <2>1
  <2> QED
    BY <1>0, <2>1, <2>2
<1>6. ASSUME NEW i \in Invocations, AnnouncesToken(i)
      PROVE  Informed'
  <2>1. settings'[i].auth_tokens = Put(settings[i].auth_tokens, new_token[i], i)
    BY <1>6, Announcement
  <2>2. /\ pc[i] = "parsed" /\ pc' = [pc EXCEPT ![i] = "save"]
        /\ \A k \in Invocations : k # i => settings'[k] = settings[k]
        /\ UNCHANGED <<file, new_token, saved, seen>>
    BY <1>6 DEF AnnouncesToken, Goes
  <2> QED
    BY <1>0, <2>1, <2>2
<1>7. ASSUME NEW i \in Invocations, SavesToken(i)
      PROVE  Informed'
  <2>1. settings[i] \in SettingsType
    OBVIOUS
  <2>2. file' \in {Text(settings[i]), Garbled} /\ file'.state # "absent"
    BY <1>7, <2>1, WrittenType DEF SavesToken
  <2>3. file'.state = "text" => file'.settings = settings[i]
    BY <2>2 DEF Text, Garbled
  <2>4. pc[i] = "fill" /\ new_token[i] # NoName /\ Writing(i)
    BY <1>7, WritingPlaces DEF SavesToken, Placed
  <2>5. settings[i].auth_tokens = Put(saved, new_token[i], i)
    BY <1>0, <2>4
  <2>6. ASSUME NEW k \in Invocations, k # i
        PROVE  /\ pc[k] \notin {"create", "fill_default"}
               /\ new_token[k] # NoName => pc[k] \notin {"parsed", "save", "fill"}
    BY <1>0, <2>4, <2>6, WritingPlaces DEF Exclusive, AtWork
  <2>7. /\ saved' = Put(saved, new_token[i], i) /\ pc' = [pc EXCEPT ![i] = "exited"]
        /\ UNCHANGED <<new_token, settings, seen>>
    BY <1>7 DEF SavesToken, Goes
  <2> QED
    BY <1>0, <2>2, <2>3, <2>5, <2>6, <2>7
<1>8. ASSUME NEW i \in Invocations, Killed(i)
      PROVE  Informed'
  BY <1>0, <1>8 DEF Killed, Goes
<1>9. CASE Exited \/ UNCHANGED vars
  BY <1>0, <1>9 DEF Exited, vars, locals
<1> QED
  BY <1>1, <1>2, <1>3, <1>4, <1>5, <1>6, <1>7, <1>8, <1>9 DEF Next, Cli

(* A file that is settled, and that is no longer absent.                   *)
LEMMA SettledFile ==
  ASSUME TypeOK, Placed, Settled, NEW i \in Invocations, pc[i] = "read"
  PROVE  file = expected
BY DEF Placed, Settled, Absent

(* Where the others cannot be while somebody writes, or is at work.        *)
LEMMA Alone ==
  ASSUME Placed, Exclusive, "two_writers" \notin disturbed,
         NEW i \in Invocations, Writing(i), NEW k \in Invocations, k # i
  PROVE  /\ pc[k] \notin {"create", "fill_default", "save", "fill"}
         /\ new_token[k] # NoName => pc[k] \notin {"parsed", "save", "fill"}
BY WritingPlaces DEF Exclusive, AtWork

LEMMA AllAlone ==
  ASSUME Placed, Exclusive, disturbed = {},
         NEW i \in Invocations, AtWork(i), NEW k \in Invocations, k # i
  PROVE  pc[k] \notin {"create", "fill_default", "save", "fill"}
BY WritingPlaces DEF Exclusive

LEMMA KeptStep ==
  ASSUME TypeOK, Placed, Exclusive, Kept, [Next]_vars
  PROVE  Kept'
<1> SUFFICES ASSUME disturbed' \cap {"two_writers", "killed"} = {} PROVE Kept'
  BY DEF Kept
<1>0. disturbed \cap {"two_writers", "killed"} = {} /\ "two_writers" \notin disturbed
  BY DisturbedGrows
<1> USE DEF TypeOK, Kept, Settled, ghosts
<1>1. ASSUME NEW i \in Invocations, NEW name \in Names \cup {EmptyName, NoName},
             Begins(i, name)
      PROVE  Kept'
  BY <1>0, <1>1 DEF Begins, Goes
<1>2. ASSUME NEW i \in Invocations, FindsFile(i) \/ RefusesToStart(i)
             \/ Serves(i) \/ PanicsOnChannel(i) \/ StopsServing(i)
      PROVE  Kept'
  BY <1>0, <1>2, Movements DEF Moves
<1>3. ASSUME NEW i \in Invocations, MissesFile(i)
      PROVE  Kept'
  <2>1. Moves(i, "exists", "create") /\ file.state = "absent"
    BY <1>3, Movements
  <2>2. file = Absent /\ expected = Text(Default)
    BY <1>0, <2>1 DEF Placed
  <2> QED
    BY <1>0, <2>1, <2>2 DEF Moves
<1>4. ASSUME NEW i \in Invocations, CreatesFile(i)
      PROVE  Kept'
  <2>1. Writing(i) /\ expected = Text(Default)
    BY <1>0, <1>4, WritingPlaces DEF CreatesFile
  <2>2. /\ file' = Blank /\ pc' = [pc EXCEPT ![i] = "fill_default"]
        /\ UNCHANGED <<new_token, settings, expected>>
    BY <1>4 DEF CreatesFile, Truncated, Goes
  <2> QED
    BY <1>0, <2>1, <2>2, Alone
<1>5. ASSUME NEW i \in Invocations, FillsDefault(i)
      PROVE  Kept'
  <2>1. Writing(i) /\ expected = Text(Default) /\ file = Blank
    BY <1>0, <1>5, WritingPlaces DEF FillsDefault
  <2>2. file' = expected
    BY <1>5, <2>1 DEF FillsDefault, WrittenTo, Blank
  <2>3. pc' = [pc EXCEPT ![i] = "read"] /\ UNCHANGED <<new_token, settings, expected>>
    BY <1>5 DEF FillsDefault, Goes
  <2> QED
    BY <1>0, <2>1, <2>2, <2>3, Alone
<1>6. ASSUME NEW i \in Invocations, ReadsSettings(i)
      PROVE  Kept'
  <2>1. /\ pc[i] = "read" /\ pc' = [pc EXCEPT ![i] = "parsed"] /\ file.state = "text"
        /\ settings' = [settings EXCEPT ![i] = file.settings]
        /\ UNCHANGED <<file, new_token, expected>>
    BY <1>6 DEF ReadsSettings, Parsed, Goes
  <2>2. CASE new_token[i] = NoName
    BY <1>0, <2>1, <2>2
  <2>3. CASE new_token[i] # NoName
    <3>1. Writing(i)
      BY <2>1, <2>3, WritingPlaces DEF AtWork
    <3>2. Settled
      BY <1>0, <2>1, <3>1, Alone
    <3>3. file = expected /\ file = Text(file.settings)
      BY <2>1, <3>2, SettledFile, FileIsText
    <3> QED
      BY <1>0, <2>1, <3>3
  <2> QED
    BY <2>2, <2>3
<1>7. ASSUME NEW i \in Invocations, AnnouncesToken(i)
      PROVE  Kept'
  <2>1. /\ pc[i] = "parsed" /\ pc' = [pc EXCEPT ![i] = "save"] /\ new_token[i] # NoName
        /\ \A k \in Invocations : k # i => settings'[k] = settings[k]
        /\ UNCHANGED <<file, new_token>>
    BY <1>7 DEF AnnouncesToken, Goes
  <2>2. Writing(i) /\ expected = Text(settings[i])
    BY <1>0, <2>1, WritingPlaces DEF AtWork
  <2>3. expected' = Text(settings'[i])
    BY <1>7, <2>2, Announcement
  <2> QED
    BY <1>0, <2>1, <2>2, <2>3, Alone
<1>8. ASSUME NEW i \in Invocations, OpensToSave(i)
      PROVE  Kept'
  <2>1. Writing(i)
    BY <1>8, WritingPlaces DEF OpensToSave
  <2>2. /\ file' = Blank /\ pc[i] = "save" /\ pc' = [pc EXCEPT ![i] = "fill"]
        /\ UNCHANGED <<new_token, settings, expected>>
    BY <1>8 DEF OpensToSave, Truncated, Goes
  <2> QED
    BY <1>0, <2>1, <2>2, Alone
<1>9. ASSUME NEW i \in Invocations, SavesToken(i)
      PROVE  Kept'
  <2>1. /\ pc[i] = "fill" /\ pc' = [pc EXCEPT ![i] = "exited"]
        /\ UNCHANGED <<new_token, settings, expected>>
    BY <1>9 DEF SavesToken, Goes
  <2>2. Writing(i) /\ file = Blank /\ expected = Text(settings[i])
    BY <1>0, <2>1, WritingPlaces DEF Placed
  <2>3. file' = expected
    BY <1>9, <2>2 DEF SavesToken, WrittenTo, Blank
  <2> QED
    BY <1>0, <2>1, <2>2, <2>3, Alone
<1>10. ASSUME NEW i \in Invocations, Killed(i)
       PROVE  Kept'
  BY <1>0, <1>10 DEF Killed, Goes
<1>11. CASE Exited \/ UNCHANGED vars
  BY <1>0, <1>11 DEF Exited, vars, locals
<1> QED
  BY <1>1, <1>2, <1>3, <1>4, <1>5, <1>6, <1>7, <1>8, <1>9, <1>10, <1>11 DEF Next, Cli

(* Undisturbed, who reads the file reads what is expected.                 *)
LEMMA ReadsExpected ==
  ASSUME TypeOK, Placed, Exclusive, Kept, disturbed = {},
         NEW i \in Invocations, pc[i] = "read"
  PROVE  file = expected
<1>1. \A k \in Invocations : pc[k] \notin {"fill_default", "save", "fill"}
  BY AllAlone DEF AtWork
<1> QED
  BY <1>1, SettledFile DEF Kept

LEMMA ExpectedOfParsed ==
  ASSUME TypeOK, Placed, Exclusive, Kept, Judged, [Next]_vars, disturbed' = {},
         NEW i \in Invocations, pc'[i] = "parsed"
  PROVE  expected' = Text(settings'[i])
<1>0. disturbed = {}
  BY DisturbedGrows
<1>1. CASE ReadsSettings(i)
  <2>1. /\ pc[i] = "read" /\ file.state = "text" /\ expected' = expected
        /\ settings'[i] = file.settings
    BY <1>1 DEF ReadsSettings, Parsed, TypeOK
  <2> QED
    BY <1>0, <2>1, ReadsExpected, FileIsText DEF TypeOK
<1>2. ASSUME NEW k \in Invocations, AnnouncesToken(k)
      PROVE  expected' = Text(settings'[i])
  <2>1. pc[k] = "parsed" /\ new_token[k] # NoName /\ pc' = [pc EXCEPT ![k] = "save"]
    BY <1>2 DEF AnnouncesToken, Goes
  <2>2. i # k /\ pc[i] = "parsed"
    BY <2>1 DEF TypeOK
  <2>3. Writing(k) /\ AtWork(i)
    BY <2>1, <2>2, WritingPlaces DEF AtWork
  <2> QED
    BY <1>0, <2>2, <2>3 DEF Exclusive
<1>3. CASE /\ ~ ReadsSettings(i)
           /\ \A k \in Invocations : ~ AnnouncesToken(k)
  <2>1. pc[i] = "parsed" /\ settings'[i] = settings[i] /\ expected' = expected
    BY <1>3 DEF Next, Cli, Begins, FindsFile, MissesFile, CreatesFile, FillsDefault,
       ReadsSettings, RefusesToStart, OpensToSave, SavesToken, Serves,
       PanicsOnChannel, StopsServing, Killed, Exited, vars, locals, ghosts, Goes,
       TypeOK
  <2> QED
    BY <1>0, <2>1 DEF Judged
<1> QED
  BY <1>1, <1>2, <1>3

LEMMA NotStartable ==
  ASSUME TypeOK, Placed, Exclusive, Kept, Judged, [Next]_vars, disturbed' = {},
         NEW i \in Invocations, pc'[i] \in {"refused", "panicked"}
  PROVE  ~ Startable(expected')
<1>0. disturbed = {}
  BY DisturbedGrows
<1>1. CASE RefusesToStart(i)
  <2>1. /\ pc[i] = "read" /\ expected' = expected
        /\ ~ (file.state = "text" /\ Valid(file.settings))
    BY <1>1 DEF RefusesToStart, Parsed, ghosts
  <2>2. file = expected
    BY <1>0, <2>1, ReadsExpected
  <2> QED
    BY <2>1, <2>2 DEF Startable
<1>2. CASE PanicsOnChannel(i)
  <2>1. /\ pc[i] = "parsed" /\ expected' = expected
        /\ settings[i].max_jobs_in_queue = 0
    BY <1>2 DEF PanicsOnChannel, ghosts
  <2>2. expected.settings = settings[i]
    BY <1>0, <2>1 DEF Judged, Text
  <2> QED
    BY <2>1, <2>2 DEF Startable
<1>3. ASSUME NEW k \in Invocations, AnnouncesToken(k)
      PROVE  ~ Startable(expected')
  <2>1. pc[k] = "parsed" /\ pc' = [pc EXCEPT ![k] = "save"]
    BY <1>3 DEF AnnouncesToken, Goes
  <2>2. pc[i] \in {"refused", "panicked"}
    BY <2>1 DEF TypeOK
  <2>3. expected = Text(settings[k]) /\ Valid(settings[k])
    BY <1>0, <2>1 DEF Judged, Placed
  <2>4. ~ Startable(expected)
    BY <1>0, <2>2 DEF Judged, RefusesOnlyBadSettings
  <2>5. ~ (settings[k].max_jobs_in_queue > 0)
    BY <2>3, <2>4 DEF Startable, Text
  <2>6. expected'.settings = settings'[k]
    BY <1>3, <2>3, Announcement DEF Text
  <2>7. settings'[k].max_jobs_in_queue = settings[k].max_jobs_in_queue
    BY <1>3, Announcement
  <2> QED
    BY <2>5, <2>6, <2>7 DEF Startable
<1>4. CASE /\ ~ RefusesToStart(i) /\ ~ PanicsOnChannel(i)
           /\ \A k \in Invocations : ~ AnnouncesToken(k)
  <2>1. pc[i] \in {"refused", "panicked"} /\ expected' = expected
    BY <1>4 DEF Next, Cli, Begins, FindsFile, MissesFile, CreatesFile, FillsDefault,
       ReadsSettings, RefusesToStart, OpensToSave, SavesToken, Serves,
       PanicsOnChannel, StopsServing, Killed, Exited, vars, locals, ghosts, Goes,
       TypeOK
  <2> QED
    BY <1>0, <2>1 DEF Judged, RefusesOnlyBadSettings
<1> QED
  BY <1>1, <1>2, <1>3, <1>4

LEMMA JudgedStep ==
  ASSUME TypeOK, Placed, Exclusive, Kept, Judged, [Next]_vars
  PROVE  Judged'
BY ExpectedOfParsed, NotStartable DEF Judged, RefusesOnlyBadSettings
-----------------------------------------------------------------------------
LEMMA InvInit == Init => IInv
<1> SUFFICES ASSUME Init PROVE IInv
  OBVIOUS
<1>1. TypeOK
  BY TypeInit
<1>2. /\ \A i \in Invocations : pc[i] = "off"
      /\ disturbed = {} /\ saved = file.settings.auth_tokens
      /\ expected = IF file = Absent THEN Text(Default) ELSE file
  BY DEF Init
<1>3. file.state # "text" => file.settings = Default
  BY FilesAssumption DEF Init
<1>4. file.state = "absent" => file = Absent
  BY <1>1, <1>3 DEF TypeOK, FileType, Absent
<1>5. Text(Default).state = "text"
  BY DEF Text
<1>6. Placed
  BY <1>2, <1>3, <1>4, <1>5 DEF Placed
<1>7. Exclusive
  BY <1>2 DEF Exclusive, Writing, AtWork
<1>8. Informed
  <2>1. Absent.settings.auth_tokens = NoTokens
    BY DEF Absent, Default
  <2> QED
    BY <1>2, <1>4, <2>1 DEF Informed
<1>9. Kept
  BY <1>2 DEF Kept, Settled
<1>10. Judged
  BY <1>2 DEF Judged, RefusesOnlyBadSettings
<1> QED
  BY <1>1, <1>6, <1>7, <1>8, <1>9, <1>10 DEF IInv

LEMMA InvStep == IInv /\ [Next]_vars => IInv'
<1> SUFFICES ASSUME IInv, [Next]_vars PROVE IInv'
  OBVIOUS
<1>1. TypeOK' /\ Placed' /\ Exclusive'
  BY TypeStep, PlacedStep, ExclusiveStep DEF IInv
<1>2. Informed' /\ Kept' /\ Judged'
  BY InformedStep, KeptStep, JudgedStep DEF IInv
<1> QED
  BY <1>1, <1>2 DEF IInv

LEMMA SettingsCorrect == Spec => []IInv
BY InvInit, InvStep, PTL DEF Spec

(* The file, and what each invocation has read of it, stay well-typed.     *)
THEOREM SettingsTypeCorrect == Spec => []TypeOK
<1>1. IInv => TypeOK
  BY DEF IInv
<1> QED
  BY <1>1, SettingsCorrect, PTL

(* Nothing that was announced is lost but by a kill in the middle or by two*)
(* invocations that write at once, however many there are (cli.rs:199-233).*)
THEOREM TokensAreKept == Spec => []AnnouncedIsKept
<1>1. IInv => AnnouncedIsKept
  BY DEF IInv, Kept, Settled, AnnouncedIsKept, AtWork
<1> QED
  BY <1>1, SettingsCorrect, PTL

(* A server lets in exactly who has a token that was saved before it read  *)
(* the file, also when others are killed or start in the middle of a write *)
(* (cli.rs:199-211, auth.rs:25-50).                                        *)
THEOREM SavedTokensAreHonoured == Spec => []HonoursSavedTokens
<1>1. IInv => HonoursSavedTokens
  BY DEF IInv, Informed, HonoursSavedTokens, Accepts
<1> QED
  BY <1>1, SettingsCorrect, PTL

(* Start-up refuses, or panics on, nothing but settings that are bad: those*)
(* it got, or those a token without a name made of them                    *)
(* (cli.rs:160-194, 199-209, main.rs:43-45).                               *)
THEOREM OnlyBadSettingsAreRefused == Spec => []RefusesOnlyBadSettings
<1>1. IInv => RefusesOnlyBadSettings
  BY DEF IInv, Judged
<1> QED
  BY <1>1, SettingsCorrect, PTL
=============================================================================
