---------------------------------- MODULE Setup -----------------------------------
(***************************************************************************)
(* The start of the terminal user interface: the configuration it loads    *)
(* (infra/config/loader.ts, infra/config/interpolate.ts, infra/profile.ts),*)
(* the wizard that writes a first one, the wizard that adds a key to it    *)
(* (tui/src/components/wizard), and startTui, which goes from one to the   *)
(* next (tui/src/index.ts).                                                *)
(*                                                                         *)
(* Of the file only the profiles count, and of a profile only where its    *)
(* key comes from: it is named by an environment variable, stands in the   *)
(* file, stands there as a reference ${...} to be replaced on loading, or  *)
(* is not mentioned.  Models, channels and everything else are left out.   *)
(***************************************************************************)
EXTENDS Naturals, Sequences

CONSTANTS
  Profiles,      \* names of profiles
  Default,       \* the profile named default
  InitialConfigs,  \* what the file may be at the start, NoFile where it is not there
  Environments,  \* what the environment may say
  MaxSaves,      \* bound on the saves a wizard begins
  NoFile, NoName

ASSUME DefaultIsAProfile == Default \in Profiles
ASSUME SavesAreBounded == MaxSaves \in Nat

VARIABLES
  configFile,    \* phus.config.yaml: the profile it makes active, the key of each
  written,       \* how often it was written, its modification time
  cache,         \* what loadConfig keeps: the modification time and the file it read
  environ,       \* the environment: PHUS_PROFILE, and is the variable of the key set
  launch,        \* how far startTui has come
  wizard,        \* the wizard on the screen
  saves,         \* saves under way, with the wizard's kind
  resolved,      \* what the wizard resolved to, the first time
  agentKey       \* the key the agent was started with

setupVars == <<configFile, written, cache, environ, launch, wizard, saves, resolved,
               agentKey>>

Keys == {"unset", "variable", "inline", "reference", "absent"}
Files == [active : Profiles \cup {NoName}, keys : [Profiles -> Keys]]

ASSUME ConfigAssumption ==
  /\ InitialConfigs \subseteq Files \cup {NoFile}
  /\ Environments \subseteq [profile : Profiles \cup {NoName}, set : BOOLEAN]

\* A file that was opened for writing and not written yet.
EmptyFile == [active |-> NoName, keys |-> [p \in Profiles |-> "absent"]]

NoWizard == [kind |-> "none", step |-> "none", mode |-> "variable", typed |-> FALSE]

-----------------------------------------------------------------------------
\* The configuration.

\* A reference is replaced by the variable's value where it is set, and left as it
\* stands where it is not.
interpolateEnv(k) == IF k = "reference" /\ environ.set THEN "inline" ELSE k

\* The profiles: those of the file, and one named default.
WithDefault(keys) == [keys EXCEPT ![Default] = IF @ = "absent" THEN "unset" ELSE @]

Config(f) ==
  [present |-> f # NoFile,
   keys |-> LET keys == IF f = NoFile THEN EmptyFile.keys ELSE f.keys
            IN WithDefault([p \in Profiles |-> interpolateEnv(keys[p])]),
   profileName |-> IF environ.profile # NoName THEN environ.profile
                     ELSE IF f = NoFile \/ f.active = NoName THEN Default ELSE f.active]

\* loadConfig: the file is read again only when its modification time has changed.
ModTime == IF configFile = NoFile THEN 0 ELSE written
Loaded ==
  IF cache # NoName /\ cache.time = ModTime THEN cache.config ELSE Config(configFile)
loadConfig == cache' = [time |-> ModTime, config |-> Loaded]

\* After resetConfigCache.
LoadedAnew == Config(configFile)
loadAnew == cache' = [time |-> ModTime, config |-> LoadedAnew]

\* Is there a key: one in the file, whatever it says, or the variable that the profile,
\* or for want of that the provider, names.  An unknown profile has none.
apiKeyForProfile(k) ==
  CASE k \in {"inline", "reference"} -> k
    [] k \in {"variable", "unset"} /\ environ.set -> "variable"
    [] OTHER -> "none"
profileHasKey(config) == apiKeyForProfile(config.keys[config.profileName]) # "none"

\* Mutant: the agent takes the key of the profile named default.
ResolvedOfDefault(config) ==
  LET keys == WithDefault(IF configFile = NoFile THEN EmptyFile.keys ELSE configFile.keys)
  IN apiKeyForProfile(keys[Default])

\* The agent takes its key from another reading of the file, in which references are
\* not replaced.
resolveModelSafe(config) ==
  LET keys == WithDefault(IF configFile = NoFile THEN EmptyFile.keys ELSE configFile.keys)
  IN apiKeyForProfile(keys[config.profileName])

-----------------------------------------------------------------------------
\* startTui.

Ends(how) == launch' = how /\ wizard' = NoWizard
ShowsWizard(kind) ==
  /\ launch' = kind
  /\ wizard' = [NoWizard EXCEPT !.kind = kind,
                               !.step = IF kind = "bootstrap" THEN "welcome" ELSE "mode"]

\* With a configuration loaded: the agent is started, or the key is asked for.
CheckKey(config) ==
  IF profileHasKey(config)
    THEN Ends("running") /\ agentKey' = resolveModelSafe(config)
    ELSE ShowsWizard("key") /\ UNCHANGED agentKey

Start ==
  /\ launch = "start"
  /\ loadConfig
  /\ IF Loaded.present THEN CheckKey(Loaded)
       ELSE ShowsWizard("bootstrap") /\ UNCHANGED agentKey
  /\ resolved' = "open"
  /\ UNCHANGED <<configFile, written, environ, saves>>

\* After the first wizard.
Bootstrapped ==
  /\ launch = "bootstrap" /\ resolved # "open"
  /\ IF resolved = "cancelled"
       THEN Ends("cancelled") /\ UNCHANGED <<agentKey, cache>>
       ELSE loadAnew /\ CheckKey(LoadedAnew)
  /\ resolved' = "open"
  /\ UNCHANGED <<configFile, written, environ, saves>>

\* After the other: there is a key now, or the start is given up.
KeyAdded ==
  /\ launch = "key" /\ resolved # "open"
  /\ IF resolved = "cancelled"
       THEN Ends("cancelled") /\ UNCHANGED <<agentKey, cache>>
       ELSE /\ loadAnew
            /\ IF profileHasKey(LoadedAnew)
                 THEN Ends("running") /\ agentKey' = resolveModelSafe(LoadedAnew)
                 ELSE Ends("missing") /\ UNCHANGED agentKey
  /\ resolved' = "open"
  /\ UNCHANGED <<configFile, written, environ, saves>>

\* Mutant: only the first wizard is taken down.
FirstWizardTimeout ==
  /\ launch = "bootstrap" /\ resolved = "open"
  /\ resolved' = "cancelled"
  /\ UNCHANGED <<configFile, written, cache, environ, launch, wizard, saves, agentKey>>

\* A wizard that is not through after a minute is taken down.
WizardTimeout ==
  /\ launch \in {"bootstrap", "key"} /\ resolved = "open"
  /\ resolved' = "cancelled"
  /\ UNCHANGED <<configFile, written, cache, environ, launch, wizard, saves,
                 agentKey>>

-----------------------------------------------------------------------------
\* The person at the wizard.

Input == launch \in {"bootstrap", "key"} /\ resolved = "open"
NoFileStep == UNCHANGED <<configFile, written, cache, environ, launch, agentKey>>

Goes(step) == wizard' = [wizard EXCEPT !.step = step]

\* Enter on a step that only leads to the next.  No profile name is as good as any:
\* what is typed for it is read when the file is written.
Forward ==
  /\ Input
  /\ LET from == wizard.step
         next == [welcome |-> "provider", provider |-> "model", model |-> "keyMode",
                  keyMode |-> "apiKey", profile |-> "confirm", mode |-> "value"]
     IN /\ from \in DOMAIN next \/ (from = "apiKey" /\ wizard.typed)
        /\ wizard' = [wizard EXCEPT
             !.step = IF from = "apiKey" THEN "profile" ELSE next[from],
             !.mode = IF from = "model" THEN "variable" ELSE @,
             !.typed = CASE from = "provider" -> FALSE
                         [] from = "model" -> TRUE
                         [] OTHER -> @]
  /\ UNCHANGED <<saves, resolved>>
  /\ NoFileStep

\* Escape leads back, and out from the first step.
Back ==
  /\ Input
  /\ LET back == [provider |-> "welcome", model |-> "provider", keyMode |-> "model",
                  apiKey |-> "keyMode", profile |-> "keyMode", confirm |-> "profile",
                  value |-> "mode"]
     IN \/ /\ wizard.step \in DOMAIN back
           /\ Goes(back[wizard.step])
           /\ UNCHANGED resolved
        \/ /\ wizard.step \in {"welcome", "mode"}
           /\ resolved' = "cancelled"
           /\ UNCHANGED wizard
  /\ UNCHANGED saves
  /\ NoFileStep

\* The arrow keys choose where the key comes from: a variable has a name to begin with.
Toggle ==
  /\ Input /\ wizard.step \in {"keyMode", "mode"}
  /\ wizard' = [wizard EXCEPT !.mode = IF @ = "variable" THEN "inline" ELSE "variable",
                              !.typed = wizard.mode = "inline"]
  /\ UNCHANGED <<saves, resolved>>
  /\ NoFileStep

\* Something is typed, or all of it erased.
TypeKey ==
  /\ Input /\ wizard.step \in {"apiKey", "value"}
  /\ wizard' = [wizard EXCEPT !.typed = ~@]
  /\ UNCHANGED <<saves, resolved>>
  /\ NoFileStep

\* Any key on the last step.
Leave ==
  /\ Input /\ wizard.step \in {"done", "error"}
  /\ resolved' = IF wizard.step = "done" THEN "ok" ELSE "cancelled"
  /\ UNCHANGED <<wizard, saves>>
  /\ NoFileStep

\* y, or Enter on the value: a save begins.  The step stays as it is, and nothing keeps
\* a second one from beginning.  The first wizard makes up what it writes at once.
KeyOf(w) == IF w.typed THEN w.mode ELSE "unset"

BeginSave(name) ==
  /\ Input
  /\ wizard.step \in {"confirm", "value"}
  /\ Len(saves) < MaxSaves
  /\ IF (wizard.step = "confirm") # (configFile = NoFile)
       THEN Goes("error") /\ UNCHANGED saves
       ELSE /\ saves' = Append(saves,
                 [kind |-> wizard.kind, at |-> "begun",
                  content |-> IF wizard.kind = "key" THEN NoName
                                ELSE [active |-> name,
                                      keys |-> [EmptyFile.keys EXCEPT
                                                  ![name] = KeyOf(wizard)]]])
            /\ UNCHANGED wizard
  /\ UNCHANGED resolved
  /\ NoFileStep

-----------------------------------------------------------------------------
\* A save, step by step.

At(i, at) == i \in DOMAIN saves /\ saves[i].at = at
Without(i) == SubSeq(saves, 1, i - 1) \o SubSeq(saves, i + 1, Len(saves))
ActiveOf(f) == IF f.active = NoName THEN Default ELSE f.active

\* The other wizard reads the file first; what is chosen and typed by then is put into
\* the profile the file makes active, which has to be there.
ReadBack(i) ==
  /\ At(i, "begun") /\ saves[i].kind = "key"
  /\ configFile # NoFile
  /\ IF configFile.keys[ActiveOf(configFile)] = "absent"
       THEN Goes("error") /\ saves' = Without(i)
       ELSE /\ saves' = [saves EXCEPT ![i].at = "ready",
                  ![i].content =
                    [configFile EXCEPT !.keys[ActiveOf(configFile)] = KeyOf(wizard)]]
            /\ UNCHANGED wizard
  /\ UNCHANGED resolved
  /\ NoFileStep

\* The file is opened, which empties it, ...
Open(i) ==
  /\ At(i, "ready") \/ (At(i, "begun") /\ saves[i].kind = "bootstrap")
  /\ configFile' = EmptyFile
  /\ written' = written + 1
  /\ saves' = [saves EXCEPT ![i].at = "opened"]
  /\ UNCHANGED <<cache, environ, launch, wizard, resolved, agentKey>>

\* ... and written; the wizard, if it is still the one, shows that it is done.
Write(i) ==
  /\ At(i, "opened")
  /\ configFile' = saves[i].content
  /\ written' = written + 1
  /\ cache' = NoName
  /\ saves' = Without(i)
  /\ wizard' = IF wizard.kind = saves[i].kind THEN [wizard EXCEPT !.step = "done"]
                 ELSE wizard
  /\ UNCHANGED <<environ, launch, resolved, agentKey>>

-----------------------------------------------------------------------------

SetupInit ==
  /\ configFile \in InitialConfigs
  /\ written = 1 /\ cache = NoName
  /\ environ \in Environments
  /\ launch = "start" /\ wizard = NoWizard
  /\ saves = <<>> /\ resolved = "open"
  /\ agentKey = "none"

Progress ==
  \/ Start \/ Bootstrapped \/ KeyAdded \/ WizardTimeout
  \/ \E i \in DOMAIN saves : ReadBack(i) \/ Open(i) \/ Write(i)

SetupNext ==
  \/ Progress
  \/ Forward \/ Back \/ Toggle \/ TypeKey \/ Leave
  \/ \E p \in Profiles : BeginSave(p)

\* The process goes on with what it has begun, and the timer runs; nothing is said of
\* the person.
SetupFairness == WF_setupVars(Progress)

SetupSpec == SetupInit /\ [][SetupNext]_setupVars /\ SetupFairness

-----------------------------------------------------------------------------
\* Every variable has its type.
SetupTypeOK ==
  /\ configFile \in Files \cup {NoFile}
  /\ launch \in {"start", "bootstrap", "key", "running", "cancelled", "missing"}
  /\ wizard.kind \in {"none", "bootstrap", "key"} /\ wizard.typed \in BOOLEAN
  /\ resolved \in {"open", "ok", "cancelled"}
  /\ Len(saves) <= MaxSaves
  /\ cache = NoName \/ cache.time \in Nat

Over == launch \in {"running", "cancelled", "missing"}

\* A start that has come to a wizard ends, with the agent running or with a message,
\* whatever the person does or leaves undone there.
StartEnds == launch \in {"bootstrap", "key"} ~> Over

\* The agent that was started has a key, if only a reference: the reading of the file
\* that let the start go on and the agent's own agree whether there is one
\* (profileHasKey and resolveModelSafe).
AgentHasKey == launch = "running" => agentKey # "none"

\* The start's state is well formed and the agent has a key.
SetupInv == SetupTypeOK /\ AgentHasKey

=============================================================================
