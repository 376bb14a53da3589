------------------------------ MODULE Settings ------------------------------
(***************************************************************************)
(* Start-up of embedded-ci-server around its settings file                 *)
(* (server/src/cli.rs, main.rs) and the check of request tokens            *)
(* (server/src/auth.rs).                                                   *)
(*                                                                         *)
(* Several invocations of the program share the file: some serve, some only*)
(* add a token (`--new-token`) and exit.  Nothing locks the file, and      *)
(* `fs::write` truncates it before it writes, so another invocation, or the*)
(* next one after a crash, may find it blank; one that writes into a file  *)
(* somebody else has filled meanwhile may leave the end of the older text. *)
(* A file is its text's settings, or does not parse.                       *)
(***************************************************************************)
EXTENDS Integers, FiniteSets, Functions

CONSTANTS
  Invocations,    \* runs of the program; one that adds a token generates its own
  OldTokens,      \* tokens in the file beforehand
  Names,          \* names of tokens
  EmptyName,      \* the name "", which the argument parser lets through
  EmptyToken,     \* the token ""
  NoName,         \* `--new-token` is not given
  NoHeader,       \* a request without Authorization
  InitialFiles    \* what may be at the path at first

ASSUME SettingsAssumption ==
  /\ EmptyName \notin Names /\ NoName \notin Names \cup {EmptyName}
  /\ EmptyToken \notin Invocations \cup OldTokens

VARIABLES
  file,         \* the file at `args.probe_config`
  pc,           \* per invocation, where it is
  new_token,    \* per invocation, `args.new_token`
  settings,     \* per invocation, its `settings`; a server's tokens are in it
  expected,     \* history: the file, had nobody interfered
  saved,        \* history: the tokens of the last completed save, by name
  seen,         \* history: per invocation, `saved` when it read the file
  disturbed     \* history: what came between a change and its completion

locals == <<pc, new_token, settings>>
ghosts == <<expected, saved, seen, disturbed>>
vars == <<file, locals, ghosts>>

NoTokens == [n \in {} |-> EmptyToken]

Default == [auth_tokens |-> NoTokens, probe_configs |-> "none", max_jobs_in_queue |-> 40]

Text(s)  == [state |-> "text", settings |-> s]
Absent   == [state |-> "absent", settings |-> Default]
Blank    == [state |-> "blank", settings |-> Default]
Garbled  == [state |-> "garbled", settings |-> Default]

Init ==
  /\ file \in InitialFiles
  /\ pc = [i \in Invocations |-> "off"]
  /\ new_token = [i \in Invocations |-> NoName]
  /\ settings = [i \in Invocations |-> Default]
  /\ expected = IF file = Absent THEN Text(Default) ELSE file
  /\ saved = file.settings.auth_tokens
  /\ seen = [i \in Invocations |-> NoTokens]
  /\ disturbed = {}

AtWork(i) == pc[i] \in {"exists", "create", "fill_default", "read", "parsed",
                        "save", "fill"}

Goes(i, place) == pc' = [pc EXCEPT ![i] = place]
-----------------------------------------------------------------------------
(* `SavedSettings::validate`. *)
Valid(s) ==
  /\ EmptyName \notin DOMAIN s.auth_tokens
  /\ EmptyToken \notin Range(s.auth_tokens)
  /\ s.probe_configs # "unfilled"

(* Mutant: a file that does not parse counts as one with default settings. *)
ParsedOrDefault(f) == IF f.state = "text" THEN f ELSE Text(Default)

(* `serde_json::from_str`. *)
Parsed(f) == f

(* `fs::write`: opening truncates, and the text is written from the start. *)
Truncated == file' = Blank

WrittenTo(f, s) == IF f.state = "blank" THEN {Text(s)} ELSE {Text(s), Garbled}

(* A map with an entry more, or with another one under its key.            *)
Put(map, key, value) ==
  [k \in DOMAIN map \cup {key} |-> IF k = key THEN value ELSE map[k]]

(* Mutant: the new token takes the place of all the others.                *)
WithOnly(tokens, name, token) == Put(NoTokens, name, token)

(* Mutant: name and token are swapped.                                     *)
WithSwapped(tokens, name, token) == Put(tokens, token, name)

With(tokens, name, token) == Put(tokens, name, token)
-----------------------------------------------------------------------------
(* An invocation begins, perhaps while others are at work; it matters      *)
(* whether they are going to write.                                        *)
Writes(name) == name # NoName \/ file.state = "absent"

Writing(k) == AtWork(k) /\ (Writes(new_token[k]) \/ pc[k] \in {"create", "fill_default"})

Begins(i, name) ==
  /\ pc[i] = "off"
  /\ new_token' = [new_token EXCEPT ![i] = name]
  /\ Goes(i, "exists")
  /\ disturbed' = disturbed
       \cup {"two_writers" : k \in {w \in Invocations : Writing(w) /\ Writes(name)}}
       \cup {"reader" : k \in {w \in Invocations : AtWork(w) /\ (Writing(w) # Writes(name))}}
  /\ UNCHANGED <<file, settings, expected, saved, seen>>

(* `cli`: the file is created with default settings unless it exists.      *)
FindsFile(i) ==
  /\ pc[i] = "exists" /\ file.state # "absent"
  /\ Goes(i, "read")
  /\ UNCHANGED <<file, new_token, settings, ghosts>>

MissesFile(i) ==
  /\ pc[i] = "exists" /\ file.state = "absent"
  /\ Goes(i, "create")
  /\ UNCHANGED <<file, new_token, settings, ghosts>>

CreatesFile(i) ==
  /\ pc[i] = "create"
  /\ Truncated
  /\ Goes(i, "fill_default")
  /\ UNCHANGED <<new_token, settings, ghosts>>

(* Mutant: the file is created, and left empty.                            *)
FillsNothing(i) ==
  /\ pc[i] = "fill_default"
  /\ Goes(i, "read")
  /\ UNCHANGED <<file, new_token, settings, ghosts>>

FillsDefault(i) ==
  /\ pc[i] = "fill_default"
  /\ file' \in WrittenTo(file, Default)
  /\ Goes(i, "read")
  /\ UNCHANGED <<new_token, settings, ghosts>>

ReadsSettings(i) ==
  /\ pc[i] = "read"
  /\ Parsed(file).state = "text" /\ Valid(Parsed(file).settings)
  /\ settings' = [settings EXCEPT ![i] = Parsed(file).settings]
  /\ seen' = [seen EXCEPT ![i] = saved]
  /\ Goes(i, "parsed")
  /\ UNCHANGED <<file, new_token, expected, saved, disturbed>>

(* "Error in startup": exit code 1.                                        *)
RefusesToStart(i) ==
  /\ pc[i] = "read"
  /\ ~ (Parsed(file).state = "text" /\ Valid(Parsed(file).settings))
  /\ Goes(i, "refused")
  /\ UNCHANGED <<file, new_token, settings, ghosts>>

(* `--new-token`: the token is printed, then the file is written, and      *)
(* nobody validates it again.                                              *)
AnnouncesToken(i) ==
  /\ pc[i] = "parsed" /\ new_token[i] # NoName
  /\ settings' = [settings EXCEPT ![i].auth_tokens = With(@, new_token[i], i)]
  /\ expected' = [expected EXCEPT !.settings.auth_tokens = Put(@, new_token[i], i)]
  /\ Goes(i, "save")
  /\ UNCHANGED <<file, new_token, saved, seen, disturbed>>

OpensToSave(i) ==
  /\ pc[i] = "save"
  /\ Truncated
  /\ Goes(i, "fill")
  /\ UNCHANGED <<new_token, settings, ghosts>>

SavesToken(i) ==
  /\ pc[i] = "fill"
  /\ file' \in WrittenTo(file, settings[i])
  /\ saved' = Put(saved, new_token[i], i)
  /\ Goes(i, "exited")
  /\ UNCHANGED <<new_token, settings, expected, seen, disturbed>>

(* `main` goes on to serve; a channel of capacity 0 panics.                *)
Serves(i) ==
  /\ pc[i] = "parsed" /\ new_token[i] = NoName
  /\ settings[i].max_jobs_in_queue > 0
  /\ Goes(i, "serving")
  /\ UNCHANGED <<file, new_token, settings, ghosts>>

PanicsOnChannel(i) ==
  /\ pc[i] = "parsed" /\ new_token[i] = NoName
  /\ settings[i].max_jobs_in_queue = 0
  /\ Goes(i, "panicked")
  /\ UNCHANGED <<file, new_token, settings, ghosts>>

StopsServing(i) ==
  /\ pc[i] = "serving"
  /\ Goes(i, "exited")
  /\ UNCHANGED <<file, new_token, settings, ghosts>>

(* The process is killed, or the machine loses power.                      *)
Killed(i) ==
  /\ AtWork(i)
  /\ disturbed' = disturbed \cup
       (IF pc[i] \in {"fill_default", "save", "fill"} THEN {"killed"} ELSE {})
  /\ Goes(i, "killed")
  /\ UNCHANGED <<file, new_token, settings, expected, saved, seen>>

Exited ==
  /\ \A i \in Invocations : pc[i] \in {"exited", "refused", "panicked", "killed"}
  /\ UNCHANGED vars

Cli(i) == \/ FindsFile(i) \/ MissesFile(i) \/ CreatesFile(i) \/ FillsDefault(i)
          \/ ReadsSettings(i) \/ RefusesToStart(i)
          \/ AnnouncesToken(i) \/ OpensToSave(i) \/ SavesToken(i)

Next == \/ \E i \in Invocations :
             \/ \E name \in Names \cup {EmptyName, NoName} : Begins(i, name)
             \/ Cli(i) \/ Serves(i) \/ PanicsOnChannel(i) \/ StopsServing(i)
             \/ Killed(i)
        \/ Exited

Spec == Init /\ [][Next]_vars
-----------------------------------------------------------------------------
(* `Token::from_request`: who is let in by a server with these tokens.     *)
Headers == Invocations \cup OldTokens \cup {EmptyToken, NoHeader}

Accepts(tokens, header) == DOMAIN tokens = {} \/ header \in Range(tokens)
-----------------------------------------------------------------------------
Tokens == Invocations \cup OldTokens \cup {EmptyToken}

TokenMaps == UNION {[D -> Tokens] : D \in SUBSET (Names \cup {EmptyName})}

SettingsType ==
  [auth_tokens : TokenMaps,
   probe_configs : {"none", "own", "unfilled"},
   max_jobs_in_queue : Nat]

FileType == [state : {"text", "absent", "blank", "garbled"}, settings : SettingsType]

(* A file without settings stands for the default ones.                    *)
ASSUME FilesAssumption ==
  \A f \in InitialFiles : f \in FileType /\ (f.state # "text" => f.settings = Default)

TypeOK ==
  /\ file \in FileType /\ expected \in FileType
  /\ pc \in [Invocations -> {"off", "exists", "create", "fill_default", "read",
                             "parsed", "save", "fill", "exited", "refused",
                             "panicked", "serving", "killed"}]
  /\ new_token \in [Invocations -> Names \cup {EmptyName, NoName}]
  /\ settings \in [Invocations -> SettingsType]
  /\ saved \in TokenMaps /\ seen \in [Invocations -> TokenMaps]
  /\ disturbed \subseteq {"two_writers", "reader", "killed"}

(* Whenever nobody is at work the file holds every token that was announced*)
(* (the last one under each name), those that were there, and the rest of  *)
(* the settings as they were, unless two invocations that write overlapped *)
(* or one was killed after announcing or while writing (cli.rs:199-233).   *)
AnnouncedIsKept ==
  disturbed \cap {"two_writers", "killed"} = {} /\ (\A i \in Invocations : ~ AtWork(i)) =>
    file = expected \/ (file = Absent /\ expected = Text(Default))

(* A server lets in exactly those who have a token that was saved before it*)
(* read the file, and everybody only if no token was.  That survives a kill*)
(* at any point and a server that starts in the middle of a write: a blank *)
(* or damaged file keeps it from starting, never opens it.  Two invocations*)
(* that write at once do break it (cli.rs:199-211, auth.rs:25-50).         *)
HonoursSavedTokens ==
  \A i \in Invocations :
    pc[i] = "serving" /\ "two_writers" \notin disturbed =>
      \A h \in Headers :
        Accepts(settings[i].auth_tokens, h)
          <=> DOMAIN seen[i] = {} \/ h \in Range(seen[i])

(* The program refuses to start, or panics, only on settings that were bad *)
(* to begin with or got a token without a name.  A kill in the middle of a *)
(* write damages the file, and who reads it during a write finds it blank; *)
(* a kill at any other moment and servers that start together do no harm   *)
(* (cli.rs:160-194, 199-209, main.rs:43-45).                               *)
Startable(f) == /\ f.state = "text" /\ Valid(f.settings)
                /\ f.settings.max_jobs_in_queue > 0

RefusesOnlyBadSettings ==
  \A i \in Invocations :
    pc[i] \in {"refused", "panicked"} /\ disturbed = {} => ~ Startable(expected)
-----------------------------------------------------------------------------
(* "Added new token '{}': {}" (cli.rs:222) is what the owner of a token    *)
(* reads on the terminal: when all are done, a token that was announced is *)
(* in the file, the last under each name, and a server accepts the file.   *)
(* It may not be there because its invocation was killed before it wrote,  *)
(* because another one wrote over it, or because it, or another, has no    *)
(* name, which nobody checks before the file is written (cli.rs:211-230).  *)
Announced(i) ==
  /\ new_token[i] # NoName
  /\ new_token[i] \in DOMAIN expected.settings.auth_tokens
  /\ expected.settings.auth_tokens[new_token[i]] = i

AddedTokenWorks ==
  (\A i \in Invocations : ~ AtWork(i)) =>
    \A i \in Invocations : Announced(i) =>
      /\ file.state = "text" /\ Valid(file.settings)
      /\ i \in Range(file.settings.auth_tokens)
=============================================================================
