---------------------------------- MODULE TuiProofs ----------------------------------
(***************************************************************************)
(* Theorems about the terminal user interface, for any number of messages, *)
(* requests, plans and Sessions.  The components share no variable.        *)
(***************************************************************************)
EXTENDS Composer, Panels, Chat, SessionUse, Setup, TLAPS, SequenceTheorems,
        FiniteSetTheorems

(***************************************************************************)
(* The Session a turn runs in.                                             *)
(***************************************************************************)
\* The TUI takes messages only once it has chosen a Session, and until the user has chosen
\* another, the one selected is the one a message was typed in.  Other messages have an
\* address.
UseIInv ==
  /\ SessionUseInv
  /\ typedIn # NoRoom => started
  /\ process = "tui" /\ started => explicit
  /\ process = "tui" /\ typedIn # NoRoom /\ ~switched => typedIn = selected_
  /\ process # "tui" => addressed \in Rooms

LEMMA UseInitInv == ASSUME UseInit PROVE UseIInv
BY RoomAssumption
DEF UseInit, UseIInv, SessionUseInv, UseTypeOK, RunsWhereTyped, ChosenOpen, ShutRunsNothing,
  NoTurn, Shut

\* What ensure leaves of the catalog.
LEMMA EnsuredOpens ==
  ASSUME UseTypeOK, NEW s \in Rooms
  PROVE  /\ Ensured(s) \in [Rooms -> {"none", "open", "closed", "archived"}]
         /\ \A r \in Rooms : Ensured(s)[r] \in Shut <=> roomStatus[r] \in Shut
<1>1. CASE roomStatus[s] = "none"
  BY <1>1 DEF UseTypeOK, Ensured, Shut
<1>2. CASE roomStatus[s] # "none"
  BY <1>2 DEF UseTypeOK, Ensured
<1>3. QED
  BY <1>1, <1>2

\* A Session is chosen, or the attempt fails half-way.
LEMMA SetNextInv ==
  ASSUME UseIInv, NEW s \in Rooms, NEW done \in {"all", "selection", "nothing"},
         setNextSessionId(s, done), started' \in BOOLEAN, started => started',
         process = "tui" /\ started' => explicit \/ done = "all",
         typedIn = NoRoom \/ started
  PROVE  UseIInv'
<1>1. /\ roomStatus' \in [Rooms -> {"none", "open", "closed", "archived"}]
      /\ \A r \in Rooms : roomStatus'[r] \in Shut <=> roomStatus[r] \in Shut
  BY EnsuredOpens DEF setNextSessionId, UseIInv, SessionUseInv
<1>2. /\ roomStatus[s] \notin Shut
      /\ UNCHANGED <<process, addressed, routed, typedIn, lastTurn>>
      /\ explicit' = (explicit \/ done = "all")
      /\ switched' = (switched \/ typedIn # NoRoom)
  BY DEF setNextSessionId
<1>3. \/ selected_' = s
      \/ UNCHANGED <<selected_, wasShut>> /\ done = "nothing"
  BY DEF setNextSessionId, Select
<1>4. wasShut' \in BOOLEAN
  BY DEF setNextSessionId, Select, UseIInv, SessionUseInv, UseTypeOK
<1>5. UseTypeOK'
  BY <1>1, <1>2, <1>3, <1>4 DEF UseIInv, SessionUseInv, UseTypeOK
<1>6. ChosenOpen'
  BY <1>1, <1>2, <1>3 DEF UseIInv, SessionUseInv, UseTypeOK, ChosenOpen
<1>7. RunsWhereTyped' /\ ShutRunsNothing'
  BY <1>2 DEF UseIInv, SessionUseInv, RunsWhereTyped, ShutRunsNothing
<1>8. QED
  BY <1>2, <1>3, <1>5, <1>6, <1>7 DEF UseIInv, SessionUseInv, UseTypeOK

\* A status is changed, by whichever process.
LEMMA UpdateInv ==
  ASSUME UseIInv, NEW s \in Rooms, NEW status \in {"open", "closed", "archived"},
         UpdateStatus(s, status)
  PROVE  UseIInv'
<1>1. /\ roomStatus' = [roomStatus EXCEPT ![s] = status]
      /\ wasShut' = (wasShut \/ (s = selected_ /\ status \in Shut))
      /\ UNCHANGED <<process, started, selected_, explicit, routed, addressed, typedIn,
                     switched, lastTurn>>
  BY DEF UpdateStatus
<1>2. UseTypeOK'
  BY <1>1 DEF UseIInv, SessionUseInv, UseTypeOK
<1>3. ChosenOpen'
  BY <1>1 DEF UseIInv, SessionUseInv, UseTypeOK, ChosenOpen
<1>4. QED
  BY <1>1, <1>2, <1>3 DEF UseIInv, SessionUseInv, RunsWhereTyped, ShutRunsNothing

\* A turn comes to the lane of its Session.
LEMMA TurnInv_ == ASSUME UseIInv, NEW s \in Rooms, Turn_(s) PROVE UseIInv'
<1>1. /\ typedIn # NoRoom /\ s = Target /\ typedIn' = NoRoom /\ switched' = FALSE
      /\ UNCHANGED <<process, started, explicit, addressed>>
  BY DEF Turn_
<1>2. CASE Refused(s)
  <2>1. UNCHANGED <<roomStatus, selected_, routed, wasShut, lastTurn>>
    BY <1>2 DEF Turn_
  <2>2. QED
    BY <1>1, <2>1
    DEF UseIInv, SessionUseInv, UseTypeOK, RunsWhereTyped, ChosenOpen, ShutRunsNothing
<1>3. CASE ~Refused(s)
  <2>1. /\ roomStatus' = Ensured(s)
        /\ lastTurn' = [room |-> s, typedIn |-> typedIn, switched |-> switched,
                        status |-> roomStatus[s], wasShut |-> wasShut]
        /\ IF routed \/ explicit THEN UNCHANGED <<selected_, routed, wasShut>>
           ELSE routed' = TRUE /\ Select(s)
    BY <1>3 DEF Turn_
  <2>2. /\ roomStatus' \in [Rooms -> {"none", "open", "closed", "archived"}]
        /\ \A r \in Rooms : roomStatus'[r] \in Shut <=> roomStatus[r] \in Shut
    BY <2>1, EnsuredOpens DEF UseIInv, SessionUseInv
  <2>3. process = "tui" => explicit /\ s = selected_ /\ UNCHANGED <<selected_, wasShut>>
    BY <1>1, <2>1 DEF UseIInv, Target
  <2>4. process # "tui" => roomStatus[s] \notin Shut
    BY <1>3 DEF Refused
  <2>5. UseTypeOK'
    BY <1>1, <2>1, <2>2 DEF UseIInv, SessionUseInv, UseTypeOK, Select
  <2>6. RunsWhereTyped'
    BY <1>1, <2>1, <2>3 DEF UseIInv, RunsWhereTyped
  <2>7. ChosenOpen'
    BY <1>1, <2>1, <2>2, <2>3, <2>4
    DEF UseIInv, SessionUseInv, UseTypeOK, ChosenOpen, Select
  <2>8. ShutRunsNothing'
    BY <1>1, <2>1, <2>3, <2>4 DEF UseIInv, SessionUseInv, ChosenOpen, ShutRunsNothing
  <2>9. QED
    BY <1>1, <2>5, <2>6, <2>7, <2>8 DEF UseIInv, SessionUseInv
<1>4. QED
  BY <1>2, <1>3

LEMMA UseStep == ASSUME UseIInv, [UseNext]_useVars PROVE UseIInv'
<1> USE DEF UseIInv, SessionUseInv
<1>0. selected_ \in Rooms /\ started \in BOOLEAN
  BY DEF UseTypeOK
<1>1. CASE StartProcess
  <2>1. ~started /\ started' = TRUE
    BY <1>1 DEF StartProcess
  <2>2. CASE process = "tui"
    <3>1. setNextSessionId(Initial, "all")
      BY <1>1, <2>2 DEF StartProcess
    <3>2. QED
      BY <2>1, <3>1, SetNextInv, RoomAssumption
  <2>3. CASE process # "tui"
    BY <1>1, <2>1, <2>3
    DEF StartProcess, UseTypeOK, RunsWhereTyped, ChosenOpen, ShutRunsNothing
  <2>4. QED
    BY <2>2, <2>3
<1>2. CASE CompactSelected
  <2>1. setNextSessionId(selected_, "all") /\ started /\ started' = started
    BY <1>2 DEF CompactSelected
  <2>2. QED
    BY <1>0, <2>1, SetNextInv
<1>3. CASE End
  <2>1. UpdateStatus(selected_, "closed")
    BY <1>3 DEF End
  <2>2. QED
    BY <1>0, <2>1, UpdateInv
<1>4. CASE TypeMessage
  BY <1>0, <1>4
  DEF TypeMessage, UseTypeOK, RunsWhereTyped, ChosenOpen, ShutRunsNothing
<1>5. ASSUME NEW s \in Rooms, ResumeSession(s) PROVE UseIInv'
  <2>1. /\ ~started /\ process = "resume" /\ roomStatus[s] \notin Shut /\ started' = TRUE
        /\ selected_' = s /\ wasShut' \in BOOLEAN
        /\ addressed' = IF roomStatus[s] = "none" THEN Home ELSE s
        /\ UNCHANGED <<process, roomStatus, explicit, routed, typedIn, switched, lastTurn>>
    BY <1>5 DEF ResumeSession, Select, UseTypeOK
  <2>2. QED
    BY <2>1, RoomAssumption
    DEF UseTypeOK, RunsWhereTyped, ChosenOpen, ShutRunsNothing
<1>6. ASSUME NEW s \in Rooms, CloseRoom(s) \/ ArchiveRoom(s) \/ ReopenRoom(s) PROVE UseIInv'
  BY <1>6, UpdateInv DEF CloseRoom, ArchiveRoom, ReopenRoom
<1>7. ASSUME NEW s \in Rooms, Turn_(s) PROVE UseIInv'
  BY <1>7, TurnInv_
<1>8. ASSUME NEW s \in Rooms, NEW done \in {"all", "selection", "nothing"}, Use(s, done)
      PROVE  UseIInv'
  <2>1. setNextSessionId(s, done) /\ started /\ started' = started
    BY <1>8 DEF Use
  <2>2. QED
    BY <1>0, <2>1, SetNextInv
<1>9. CASE UNCHANGED useVars
  BY <1>9 DEF useVars, UseTypeOK, RunsWhereTyped, ChosenOpen, ShutRunsNothing
<1>10. QED
  BY <1>1, <1>2, <1>3, <1>4, <1>5, <1>6, <1>7, <1>8, <1>9 DEF UseNext

\* A user's messages run where the user is, nobody is put into a shut Session, and none but
\* the TUI's runs in one, whatever other processes do to the catalog (setNextSessionId,
\* turn, resumeSession).
THEOREM MessagesRunWhereTyped == UseSpec => []SessionUseInv
<1>1. UseIInv => SessionUseInv
  BY DEF UseIInv
<1>2. QED
  BY <1>1, UseInitInv, UseStep, PTL DEF UseSpec
-----------------------------------------------------------------------------
(***************************************************************************)
(* The start that comes before the first turn.                             *)
(***************************************************************************)
Steps == {"none", "welcome", "provider", "model", "keyMode", "apiKey", "profile", "confirm",
          "mode", "value", "done", "error"}

Kinds == {"none", "bootstrap", "key"}

Wizards == [kind : Kinds, step : Steps, mode : {"variable", "inline"}, typed : BOOLEAN]

\* A save has what it writes, unless it has still to read the file.
SaveUnderWay ==
  {r \in [kind : Kinds, at : {"begun", "ready", "opened"}, content : Files \cup {NoName}] :
     r.content \in Files \/ (r.kind = "key" /\ r.at = "begun")}

\* The types in full.
SetupShape ==
  /\ configFile \in Files \cup {NoFile} /\ written \in Nat
  /\ environ \in Environments
  /\ launch \in {"start", "bootstrap", "key", "running", "cancelled", "missing"}
  /\ wizard \in Wizards
  /\ saves \in Seq(SaveUnderWay) /\ Len(saves) <= MaxSaves
  /\ resolved \in {"open", "ok", "cancelled"}
  /\ cache = NoName \/ cache.time \in Nat

\* The start reads the file as it is: nothing is cached before.
SetupIInv ==
  /\ SetupShape /\ AgentHasKey
  /\ launch = "start" => cache = NoName

LEMMA EmptyIsAFile == EmptyFile \in Files /\ EmptyFile.keys \in [Profiles -> Keys]
BY DEF EmptyFile, Files, Keys

\* The two readings of the file agree whether the profile has a key.
LEMMA ReadingsAgree ==
  ASSUME configFile \in Files \cup {NoFile}, environ \in Environments,
         profileHasKey(Config(configFile))
  PROVE  resolveModelSafe(Config(configFile)) # "none"
<1> DEFINE raw == IF configFile = NoFile THEN EmptyFile.keys ELSE configFile.keys
           p == Config(configFile).profileName
           replaced == [q \in Profiles |-> interpolateEnv(raw[q])]
<1>1. raw \in [Profiles -> Keys]
  BY EmptyIsAFile DEF Files
<1>2. p \in Profiles
  <2>1. environ.profile \in Profiles \cup {NoName}
    BY ConfigAssumption
  <2>2. configFile # NoFile => configFile.active \in Profiles \cup {NoName}
    BY DEF Files
  <2>3. QED
    BY <2>1, <2>2, DefaultIsAProfile DEF Config
<1>3. Config(configFile).keys = WithDefault(replaced)
  BY DEF Config
<1>4. \A k \in Keys : interpolateEnv(k) \in Keys /\ (interpolateEnv(k) = "absent" <=> k = "absent")
  BY DEF interpolateEnv, Keys
<1>5. WithDefault(replaced)[p] = interpolateEnv(WithDefault(raw)[p])
  <2>1. replaced[p] = interpolateEnv(raw[p]) /\ raw[p] \in Keys
    BY <1>1, <1>2
  <2>2. CASE p = Default
    <3>1. /\ WithDefault(replaced)[p] = IF replaced[p] = "absent" THEN "unset" ELSE replaced[p]
          /\ WithDefault(raw)[p] = IF raw[p] = "absent" THEN "unset" ELSE raw[p]
      BY <1>1, <1>2, <2>2 DEF WithDefault
    <3>2. interpolateEnv("unset") = "unset"
      BY DEF interpolateEnv
    <3>3. QED
      BY <1>4, <2>1, <3>1, <3>2
  <2>3. CASE p # Default
    <3>1. WithDefault(replaced)[p] = replaced[p] /\ WithDefault(raw)[p] = raw[p]
      BY <1>1, <1>2, <2>3 DEF WithDefault
    <3>2. QED
      BY <2>1, <3>1
  <2>4. QED
    BY <2>2, <2>3
<1>6. WithDefault(raw)[p] \in Keys
  BY <1>1, <1>2, DefaultIsAProfile DEF WithDefault, Keys
<1>7. ASSUME NEW k \in Keys, apiKeyForProfile(interpolateEnv(k)) # "none"
      PROVE  apiKeyForProfile(k) # "none"
  BY <1>7 DEF apiKeyForProfile, interpolateEnv, Keys
<1>8. apiKeyForProfile(interpolateEnv(WithDefault(raw)[p])) # "none"
  BY <1>3, <1>5 DEF profileHasKey
<1>9. QED
  BY <1>6, <1>7, <1>8 DEF resolveModelSafe

LEMMA NoWizardIsOne == NoWizard \in Wizards
BY DEF NoWizard, Wizards, Kinds, Steps

\* startTui goes on with the file as it is.
LEMMA CheckKeyInv ==
  ASSUME SetupIInv, CheckKey(Config(configFile))
  PROVE  /\ wizard' \in Wizards /\ launch' \in {"running", "key"}
         /\ launch' = "running" => agentKey' # "none"
<1>1. CASE profileHasKey(Config(configFile))
  BY <1>1, ReadingsAgree, NoWizardIsOne DEF CheckKey, Ends, SetupIInv, SetupShape
<1>2. CASE ~profileHasKey(Config(configFile))
  BY <1>2 DEF CheckKey, ShowsWizard, NoWizard, Wizards, Kinds, Steps
<1>3. QED
  BY <1>1, <1>2

LEMMA ModTimeIsNat == ASSUME SetupShape PROVE ModTime \in Nat
BY DEF SetupShape, ModTime

\* The steps of startTui.
LEMMA LaunchInv ==
  ASSUME SetupIInv, Start \/ Bootstrapped \/ KeyAdded \/ WizardTimeout PROVE SetupIInv'
<1> USE DEF SetupIInv, SetupShape, AgentHasKey
<1>1. CASE Start
  <2>1. Loaded = Config(configFile)
    BY <1>1 DEF Start, Loaded
  <2>2. cache'.time \in Nat
    BY <1>1, ModTimeIsNat DEF Start, loadConfig
  <2>3. /\ wizard' \in Wizards /\ launch' \in {"running", "key", "bootstrap"}
        /\ launch' = "running" => agentKey' # "none"
    <3>1. CASE Loaded.present
      BY <1>1, <2>1, <3>1, CheckKeyInv DEF Start
    <3>2. CASE ~Loaded.present
      BY <1>1, <3>2 DEF Start, ShowsWizard, NoWizard, Wizards, Kinds, Steps
    <3>3. QED
      BY <3>1, <3>2
  <2>4. resolved' = "open" /\ UNCHANGED <<configFile, written, environ, saves>>
    BY <1>1 DEF Start
  <2>5. QED
    BY <2>2, <2>3, <2>4
<1>2. CASE Bootstrapped
  <2>1. /\ cache' = NoName \/ cache'.time \in Nat
    BY <1>2, ModTimeIsNat DEF Bootstrapped, loadAnew
  <2>2. /\ wizard' \in Wizards /\ launch' \in {"running", "key", "cancelled"}
        /\ launch' = "running" => agentKey' # "none"
    BY <1>2, CheckKeyInv, NoWizardIsOne DEF Bootstrapped, Ends, LoadedAnew
  <2>3. resolved' = "open" /\ UNCHANGED <<configFile, written, environ, saves>>
    BY <1>2 DEF Bootstrapped
  <2>4. QED
    BY <2>1, <2>2, <2>3
<1>3. CASE KeyAdded
  <2>1. /\ cache' = NoName \/ cache'.time \in Nat
    BY <1>3, ModTimeIsNat DEF KeyAdded, loadAnew
  <2>2. /\ wizard' \in Wizards /\ launch' \in {"running", "missing", "cancelled"}
        /\ launch' = "running" => agentKey' # "none"
    BY <1>3, ReadingsAgree, NoWizardIsOne DEF KeyAdded, Ends, LoadedAnew
  <2>3. resolved' = "open" /\ UNCHANGED <<configFile, written, environ, saves>>
    BY <1>3 DEF KeyAdded
  <2>4. QED
    BY <2>1, <2>2, <2>3
<1>4. CASE WizardTimeout
  BY <1>4 DEF WizardTimeout
<1>5. QED
  BY <1>1, <1>2, <1>3, <1>4

\* The person's steps, but for a save, change the wizard only.
LEMMA PersonInv ==
  ASSUME SetupIInv, Forward \/ Back \/ Toggle \/ TypeKey \/ Leave PROVE SetupIInv'
<1>1. UNCHANGED <<configFile, written, cache, environ, launch, agentKey, saves>>
  BY DEF Forward, Back, Toggle, TypeKey, Leave, NoFileStep
<1>2. wizard' \in Wizards
  <2>1. wizard \in Wizards
    BY DEF SetupIInv, SetupShape
  <2>2. CASE Forward
    <3> DEFINE next == [welcome |-> "provider", provider |-> "model", model |-> "keyMode",
                        keyMode |-> "apiKey", profile |-> "confirm", mode |-> "value"]
               from == wizard.step
               filled == CASE from = "provider" -> FALSE
                           [] from = "model" -> TRUE
                           [] OTHER -> wizard.typed
    <3>1. \A x \in DOMAIN next : next[x] \in Steps
      BY DEF Steps
    <3>2. /\ from \in DOMAIN next \/ from = "apiKey"
          /\ wizard' = [wizard EXCEPT
               !.step = IF from = "apiKey" THEN "profile" ELSE next[from],
               !.mode = IF from = "model" THEN "variable" ELSE @,
               !.typed = filled]
      BY <2>1, <2>2 DEF Forward, Wizards
    <3>3. filled \in BOOLEAN
      BY <2>1 DEF Wizards
    <3>4. (IF from = "apiKey" THEN "profile" ELSE next[from]) \in Steps
      BY <3>1, <3>2 DEF Steps
    <3>5. QED
      BY <2>1, <3>2, <3>3, <3>4 DEF Wizards
  <2>3. CASE Back
    BY <2>1, <2>3 DEF Back, Goes, Wizards, Kinds, Steps
  <2>4. CASE Toggle
    BY <2>1, <2>4 DEF Toggle, Wizards
  <2>5. CASE TypeKey \/ Leave
    BY <2>1, <2>5 DEF TypeKey, Leave, Wizards
  <2>6. QED
    BY <2>2, <2>3, <2>4, <2>5
<1>3. resolved' \in {"open", "ok", "cancelled"}
  BY DEF Forward, Back, Toggle, TypeKey, Leave, SetupIInv, SetupShape
<1>4. QED
  BY <1>1, <1>2, <1>3 DEF SetupIInv, SetupShape, AgentHasKey

\* A save begins, with what the wizard says.
LEMMA BeginSaveInv == ASSUME SetupIInv, NEW n \in Profiles, BeginSave(n) PROVE SetupIInv'
<1> USE DEF SetupIInv, SetupShape
<1>1. UNCHANGED <<configFile, written, cache, environ, launch, agentKey, resolved>>
  BY DEF BeginSave, NoFileStep
<1>2. CASE saves' = saves
  <2>1. wizard' \in Wizards
    BY <1>2, SavesAreBounded DEF BeginSave, Goes, Wizards, Kinds, Steps
  <2>2. QED
    BY <1>1, <1>2, <2>1 DEF AgentHasKey
<1>3. CASE saves' # saves
  <2> DEFINE content == IF wizard.kind = "key" THEN NoName
                        ELSE [active |-> n, keys |-> [EmptyFile.keys EXCEPT ![n] = KeyOf(wizard)]]
             new == [kind |-> wizard.kind, at |-> "begun", content |-> content]
  <2>1. saves' = Append(saves, new) /\ wizard' = wizard /\ Len(saves) < MaxSaves
    BY <1>3 DEF BeginSave
  <2>2. wizard.kind \in Kinds /\ KeyOf(wizard) \in Keys
    BY DEF Wizards, KeyOf, Keys
  <2>3. [EmptyFile.keys EXCEPT ![n] = KeyOf(wizard)] \in [Profiles -> Keys]
    BY <2>2, EmptyIsAFile
  <2>4. wizard.kind # "key" => content \in Files
    BY <2>3 DEF Files
  <2>5. new \in SaveUnderWay
    BY <2>2, <2>4 DEF SaveUnderWay
  <2>6. saves' \in Seq(SaveUnderWay) /\ Len(saves') = Len(saves) + 1
    BY <2>1, <2>5, AppendProperties
  <2>7. Len(saves') <= MaxSaves
    BY <2>1, <2>6, SavesAreBounded, LenProperties
  <2>8. QED
    BY <1>1, <2>1, <2>6, <2>7 DEF AgentHasKey
<1>4. QED
  BY <1>2, <1>3

\* What is left of the saves when one is over.
LEMMA WithoutOne ==
  ASSUME SetupShape, NEW i \in DOMAIN saves
  PROVE  Without(i) \in Seq(SaveUnderWay) /\ Len(Without(i)) <= MaxSaves
<1>1. /\ saves \in Seq(SaveUnderWay) /\ Len(saves) \in Nat /\ i \in 1 .. Len(saves)
      /\ \A j \in 1 .. Len(saves) : saves[j] \in SaveUnderWay
      /\ Len(saves) <= MaxSaves
  BY DEF SetupShape
<1>2. /\ SubSeq(saves, 1, i - 1) \in Seq(SaveUnderWay)
      /\ Len(SubSeq(saves, 1, i - 1)) = IF 1 <= i - 1 THEN i - 1 - 1 + 1 ELSE 0
  BY <1>1, SubSeqProperties
<1>3. /\ SubSeq(saves, i + 1, Len(saves)) \in Seq(SaveUnderWay)
      /\ Len(SubSeq(saves, i + 1, Len(saves))) =
           IF i + 1 <= Len(saves) THEN Len(saves) - (i + 1) + 1 ELSE 0
  BY <1>1, SubSeqProperties
<1>4. /\ Without(i) \in Seq(SaveUnderWay)
      /\ Len(Without(i)) = Len(SubSeq(saves, 1, i - 1)) + Len(SubSeq(saves, i + 1, Len(saves)))
  BY <1>2, <1>3, ConcatProperties DEF Without
<1>5. QED
  BY <1>1, <1>2, <1>3, <1>4, SavesAreBounded

\* A save changes its row.
LEMMA RowChanged ==
  ASSUME SetupShape, NEW i \in DOMAIN saves, NEW r \in SaveUnderWay
  PROVE  /\ [saves EXCEPT ![i] = r] \in Seq(SaveUnderWay)
         /\ Len([saves EXCEPT ![i] = r]) <= MaxSaves
BY ExceptSeq DEF SetupShape

\* A step of a save.
LEMMA SavingInv ==
  ASSUME SetupIInv, NEW i \in DOMAIN saves, ReadBack(i) \/ Open(i) \/ Write(i)
  PROVE  SetupIInv'
<1>0. SetupShape /\ saves[i] \in SaveUnderWay /\ wizard \in Wizards
  BY DEF SetupIInv, SetupShape
<1>1. CASE ReadBack(i)
  <2>1. UNCHANGED <<configFile, written, cache, environ, launch, agentKey, resolved>>
    BY <1>1 DEF ReadBack, NoFileStep
  <2>2. configFile \in Files /\ saves[i].kind = "key"
    BY <1>0, <1>1 DEF ReadBack, SetupShape
  <2> DEFINE p == ActiveOf(configFile)
             content == [configFile EXCEPT !.keys[p] = KeyOf(wizard)]
             row == [saves[i] EXCEPT !.at = "ready", !.content = content]
  <2>3. KeyOf(wizard) \in Keys /\ p \in Profiles
    BY <1>0, <2>2, DefaultIsAProfile DEF Wizards, KeyOf, Keys, ActiveOf, Files
  <2>4. content \in Files
    BY <2>2, <2>3 DEF Files
  <2>5. row \in SaveUnderWay
    BY <1>0, <2>4 DEF SaveUnderWay
  <2>6. wizard' \in Wizards
    BY <1>0, <1>1 DEF ReadBack, Goes, Wizards, Steps
  <2>7. saves' = Without(i) \/ saves' = [saves EXCEPT ![i] = row]
    BY <1>1 DEF ReadBack
  <2>8. saves' \in Seq(SaveUnderWay) /\ Len(saves') <= MaxSaves
    BY <1>0, <2>5, <2>7, WithoutOne, RowChanged
  <2>9. QED
    BY <2>1, <2>6, <2>8 DEF SetupIInv, SetupShape, AgentHasKey
<1>2. CASE Open(i)
  <2> DEFINE row == [saves[i] EXCEPT !.at = "opened"]
  <2>1. row \in SaveUnderWay
    BY <1>0, <1>2 DEF Open, At, SaveUnderWay
  <2>2. saves' = [saves EXCEPT ![i] = row]
    BY <1>2 DEF Open
  <2>3. saves' \in Seq(SaveUnderWay) /\ Len(saves') <= MaxSaves
    BY <1>0, <2>1, <2>2, RowChanged
  <2>4. /\ configFile' = EmptyFile /\ written' = written + 1
        /\ UNCHANGED <<cache, environ, launch, wizard, resolved, agentKey>>
    BY <1>2 DEF Open
  <2>5. QED
    BY <2>3, <2>4, EmptyIsAFile DEF SetupIInv, SetupShape, AgentHasKey
<1>3. CASE Write(i)
  <2>1. saves[i].content \in Files
    BY <1>0, <1>3 DEF Write, At, SaveUnderWay
  <2>2. wizard' \in Wizards
    BY <1>0, <1>3 DEF Write, Wizards, Steps
  <2>3. /\ configFile' = saves[i].content /\ written' = written + 1 /\ cache' = NoName
        /\ saves' = Without(i) /\ UNCHANGED <<environ, launch, resolved, agentKey>>
    BY <1>3 DEF Write
  <2>4. QED
    BY <1>0, <2>1, <2>2, <2>3, WithoutOne DEF SetupIInv, SetupShape, AgentHasKey
<1>4. QED
  BY <1>1, <1>2, <1>3

LEMMA SetupInitInv == ASSUME SetupInit PROVE SetupIInv
<1>1. saves \in Seq(SaveUnderWay) /\ Len(saves) = 0
  BY EmptySeq DEF SetupInit
<1>2. QED
  BY <1>1, NoWizardIsOne, ConfigAssumption, SavesAreBounded
  DEF SetupInit, SetupIInv, SetupShape, AgentHasKey

LEMMA SetupStep == ASSUME SetupIInv, [SetupNext]_setupVars PROVE SetupIInv'
<1>1. CASE Start \/ Bootstrapped \/ KeyAdded \/ WizardTimeout
  BY <1>1, LaunchInv
<1>2. ASSUME NEW i \in DOMAIN saves, ReadBack(i) \/ Open(i) \/ Write(i) PROVE SetupIInv'
  BY <1>2, SavingInv
<1>3. CASE Forward \/ Back \/ Toggle \/ TypeKey \/ Leave
  BY <1>3, PersonInv
<1>4. ASSUME NEW n \in Profiles, BeginSave(n) PROVE SetupIInv'
  BY <1>4, BeginSaveInv
<1>5. CASE UNCHANGED setupVars
  BY <1>5 DEF setupVars, SetupIInv, SetupShape, AgentHasKey
<1>6. QED
  BY <1>1, <1>2, <1>3, <1>4, <1>5 DEF SetupNext, Progress

\* The agent that the start leads to has a key, whatever file and environment there are,
\* whatever the person does at the wizards and however the saves go (startTui,
\* profileHasKey and resolveModelSafe).
THEOREM StartedWithAKey == SetupSpec => []SetupInv
<1>1. SetupIInv => SetupInv
  BY DEF SetupIInv, SetupInv, SetupShape, SetupTypeOK, Wizards, Kinds
<1>2. QED
  BY <1>1, SetupInitInv, SetupStep, PTL DEF SetupSpec
-----------------------------------------------------------------------------
(***************************************************************************)
(* The permission queue and the overlays.                                  *)
(***************************************************************************)
LEMMA PanelsInitInv == ASSUME PanelsInit PROVE PanelsInv
<1>1. queue = <<>> /\ asked = <<>> /\ DOMAIN queue = {} /\ DOMAIN asked = {}
  BY DEF PanelsInit
<1>2. WaitInOrder
  BY <1>1 DEF WaitInOrder, Range
<1>3. PanelsTypeOK
  <2>1. queue \in Seq(Requests) /\ asked \in Seq(Requests)
    BY <1>1
  <2>2. verdicts \in [Requests -> {None, "allow", "deny", "error"}]
    BY DEF PanelsInit
  <2>3. {palette, sidebar, resume} \subseteq BOOLEAN /\ shown \in Requests \cup {None}
    BY DEF PanelsInit
  <2>4. news \in 0 .. MaxNews /\ focus \in Overlays \cup {"input", "permission"}
    BY PanelsAssumption DEF PanelsInit
  <2>5. QED
    BY <2>1, <2>2, <2>3, <2>4 DEF PanelsTypeOK
<1>4. PanelAndFocus
  BY <1>1 DEF PanelsInit, PanelAndFocus
<1>5. QED
  BY <1>2, <1>3, <1>4 DEF PanelsInv

\* A step that rebuilds the children after it has moved the focus to f leaves panel and
\* focus in agreement, if f is on the screen.
LEMMA RebuiltInv ==
  ASSUME NEW f \in Overlays \cup {"input", "permission"}, Rebuilt(f), PanelsInv,
         queue' \in Seq(Requests), {palette', sidebar', resume'} \subseteq BOOLEAN,
         f = "permission" => shown # None,
         f = "palette" => palette', f = "sidebar" => sidebar', f = "resume" => resume'
  PROVE  /\ PanelAndFocus'
         /\ shown' \in Requests \cup {None}
         /\ focus' \in Overlays \cup {"input", "permission"}
<1>1. shown \in Requests \cup {None}
  BY DEF PanelsInv, PanelsTypeOK
<1>2. queue' # <<>> => Head(queue') \in Requests
  BY HeadTailProperties
<1>3. CASE queue' # <<>> /\ ~palette' /\ ~sidebar' /\ shown = None
  BY <1>2, <1>3, PanelsAssumption DEF Rebuilt, PanelAndFocus
<1>4. CASE queue' # <<>> /\ ~palette' /\ ~sidebar' /\ shown # None
  BY <1>1, <1>4 DEF Rebuilt, PanelAndFocus
<1>5. CASE ~(queue' # <<>> /\ ~palette' /\ ~sidebar')
  BY <1>1, <1>5 DEF Rebuilt, PanelAndFocus
<1>6. QED
  BY <1>3, <1>4, <1>5

\* The requests that wait are untouched by what leaves them alone.
LEMMA SameWaiting ==
  ASSUME PanelsInv, UNCHANGED <<queue, asked, verdicts>>
  PROVE  /\ WaitInOrder'
         /\ queue' \in Seq(Requests) /\ asked' \in Seq(Requests)
         /\ verdicts' \in [Requests -> {None, "allow", "deny", "error"}]
BY DEF PanelsInv, PanelsTypeOK, WaitInOrder

LEMMA AskInv == ASSUME PanelsInv, NEW r \in Requests, Ask(r) PROVE PanelsInv'
<1>1. /\ queue \in Seq(Requests) /\ asked \in Seq(Requests)
      /\ verdicts[r] = None /\ \A i \in DOMAIN asked : asked[i] # r
  BY DEF PanelsInv, PanelsTypeOK, Ask, Fresh
<1>2. CASE Push(r) /\ UNCHANGED verdicts
  <2>1. /\ queue' = Append(queue, r) /\ asked' = Append(asked, r)
        /\ UNCHANGED <<palette, sidebar, resume, news>> /\ Rebuilt(focus)
    BY <1>2 DEF Ask, Push
  <2>2. /\ queue' \in Seq(Requests) /\ Len(queue') = Len(queue) + 1
        /\ queue'[Len(queue) + 1] = r /\ \A i \in DOMAIN queue : queue'[i] = queue[i]
        /\ DOMAIN queue = 1 .. Len(queue) /\ DOMAIN queue' = 1 .. Len(queue) + 1
        /\ Len(queue) \in Nat
    BY <1>1, <2>1, AppendProperties
  <2>3. /\ asked' \in Seq(Requests) /\ Len(asked') = Len(asked) + 1
        /\ asked'[Len(asked) + 1] = r /\ \A i \in DOMAIN asked : asked'[i] = asked[i]
        /\ DOMAIN asked = 1 .. Len(asked) /\ DOMAIN asked' = 1 .. Len(asked) + 1
        /\ Len(asked) \in Nat
    BY <1>1, <2>1, AppendProperties
  <2>4. Range(queue') = Range(queue) \cup {r} /\ Range(asked') = Range(asked) \cup {r}
    <3>1. Range(queue') \subseteq Range(queue) \cup {r} /\ r \in Range(queue')
      BY <2>2 DEF Range
    <3>2. Range(asked') \subseteq Range(asked) \cup {r} /\ r \in Range(asked')
      BY <2>3 DEF Range
    <3>3. Range(queue) \subseteq Range(queue')
      BY <2>2 DEF Range
    <3>4. Range(asked) \subseteq Range(asked')
      BY <2>3 DEF Range
    <3>5. QED
      BY <3>1, <3>2, <3>3, <3>4
  <2>5. Range(queue') = {q \in Range(asked') : verdicts'[q] = None}
    BY <1>1, <1>2, <2>4 DEF PanelsInv, WaitInOrder
  <2>6. ASSUME NEW i \in DOMAIN queue', NEW j \in DOMAIN queue', i < j
        PROVE  \E k, l \in DOMAIN asked' : k < l /\ queue'[i] = asked'[k] /\ queue'[j] = asked'[l]
    <3>1. i \in DOMAIN queue /\ queue'[i] = queue[i]
      BY <2>2, <2>6
    <3>2. CASE j \in DOMAIN queue
      <4>1. PICK k \in DOMAIN asked, l \in DOMAIN asked :
              k < l /\ queue[i] = asked[k] /\ queue[j] = asked[l]
        BY <2>6, <3>1, <3>2 DEF PanelsInv, WaitInOrder
      <4>2. QED
        BY <2>2, <2>3, <3>1, <3>2, <4>1
    <3>3. CASE j = Len(queue) + 1
      <4>1. PICK k \in DOMAIN asked : queue[i] = asked[k]
        BY <3>1 DEF PanelsInv, WaitInOrder, Range
      <4>2. k < Len(asked) + 1 /\ k \in DOMAIN asked' /\ Len(asked) + 1 \in DOMAIN asked'
        BY <2>3
      <4>3. queue'[i] = asked'[k] /\ queue'[j] = asked'[Len(asked) + 1]
        BY <2>2, <2>3, <3>1, <3>3, <4>1
      <4>4. QED
        BY <4>2, <4>3
    <3>4. QED
      BY <2>2, <3>2, <3>3
  <2>7. \A k, l \in DOMAIN asked' : asked'[k] = asked'[l] => k = l
    BY <1>1, <2>3 DEF PanelsInv, WaitInOrder
  <2>8. WaitInOrder'
    BY <2>5, <2>6, <2>7 DEF WaitInOrder
  <2>9. /\ PanelAndFocus' /\ shown' \in Requests \cup {None}
        /\ focus' \in Overlays \cup {"input", "permission"}
    BY <2>1, <2>2, RebuiltInv DEF PanelsInv, PanelsTypeOK, PanelAndFocus
  <2>10. QED
    BY <1>2, <2>1, <2>2, <2>3, <2>8, <2>9 DEF PanelsInv, PanelsTypeOK
<1>3. CASE \E v \in {"allow", "error"} : /\ verdicts' = [verdicts EXCEPT ![r] = v]
                                        /\ UNCHANGED <<queue, asked, shown, focus>>
  <2>1. PICK v \in {"allow", "error"} : /\ verdicts' = [verdicts EXCEPT ![r] = v]
                                        /\ UNCHANGED <<queue, asked, shown, focus>>
    BY <1>3
  <2>2. \A q : q # r => verdicts'[q] = verdicts[q]
    BY <2>1
  <2>3. r \notin Range(asked)
    BY <1>1 DEF Range
  <2>4. WaitInOrder'
    BY <2>1, <2>2, <2>3 DEF PanelsInv, WaitInOrder
  <2>5. verdicts' \in [Requests -> {None, "allow", "deny", "error"}]
    BY <2>1, <2>2 DEF PanelsInv, PanelsTypeOK
  <2>6. QED
    BY <2>1, <2>4, <2>5 DEF PanelsInv, PanelsTypeOK, PanelAndFocus, Ask
<1>4. QED
  BY <1>2, <1>3 DEF Ask

LEMMA AnswerInv ==
  ASSUME PanelsInv, NEW v \in {"allow", "deny"}, NEW remember, Answer(v, remember)
  PROVE  PanelsInv'
<1> DEFINE first == Head(queue)
<1>1. queue \in Seq(Requests) /\ asked \in Seq(Requests) /\ queue # <<>> /\ shown # None
  BY DEF PanelsInv, PanelsTypeOK, PanelAndFocus, Answer
<1>2. /\ queue' = Tail(queue) /\ UNCHANGED <<asked, palette, sidebar, resume, news>>
      /\ verdicts' = [verdicts EXCEPT ![first] = v] /\ Rebuilt(focus)
  BY DEF Answer, Rest
<1>3. /\ queue' \in Seq(Requests) /\ Len(queue') = Len(queue) - 1 /\ Len(queue) \in Nat
      /\ \A i \in 1 .. Len(queue) - 1 : queue'[i] = queue[i + 1]
      /\ first = queue[1] /\ first \in Requests
      /\ DOMAIN queue = 1 .. Len(queue) /\ DOMAIN queue' = 1 .. Len(queue) - 1
      /\ 1 \in DOMAIN queue
  BY <1>1, <1>2, HeadTailProperties
<1>4. \A i \in DOMAIN queue' : i + 1 \in DOMAIN queue /\ queue'[i] = queue[i + 1]
  BY <1>3
<1>5. \A i \in DOMAIN queue : i # 1 => i - 1 \in DOMAIN queue' /\ queue'[i - 1] = queue[i]
  BY <1>3
<1>6. \A i \in DOMAIN queue : i # 1 => queue[i] # first
  <2>1. SUFFICES ASSUME NEW i \in DOMAIN queue, i # 1 PROVE queue[i] # queue[1]
    BY <1>3
  <2>2. 1 < i
    BY <1>3, <2>1
  <2>3. PICK k \in DOMAIN asked, l \in DOMAIN asked :
          k < l /\ queue[1] = asked[k] /\ queue[i] = asked[l]
    BY <1>3, <2>2 DEF PanelsInv, WaitInOrder
  <2>4. k \in Nat /\ l \in Nat /\ k # l
    BY <1>1, <2>3
  <2>5. QED
    BY <2>3, <2>4 DEF PanelsInv, WaitInOrder
<1>7. Range(queue') = Range(queue) \ {first}
  <2>1. Range(queue') \subseteq Range(queue) \ {first}
    <3>1. \A i \in DOMAIN queue' : i + 1 # 1
      BY <1>3
    <3>2. QED
      BY <1>4, <1>6, <3>1 DEF Range
  <2>2. Range(queue) \ {first} \subseteq Range(queue')
    BY <1>3, <1>5 DEF Range
  <2>3. QED
    BY <2>1, <2>2
<1>8. /\ verdicts' \in [Requests -> {None, "allow", "deny", "error"}]
      /\ verdicts'[first] # None /\ \A q \in Requests : q # first => verdicts'[q] = verdicts[q]
  BY <1>2, <1>3, PanelsAssumption DEF PanelsInv, PanelsTypeOK
<1>9. Range(asked) \subseteq Requests
  BY <1>1 DEF Range
<1>10. Range(queue') = {r \in Range(asked') : verdicts'[r] = None}
  BY <1>2, <1>3, <1>7, <1>8, <1>9 DEF PanelsInv, WaitInOrder
<1>11. ASSUME NEW i \in DOMAIN queue', NEW j \in DOMAIN queue', i < j
       PROVE  \E k, l \in DOMAIN asked : k < l /\ queue'[i] = asked[k] /\ queue'[j] = asked[l]
  <2>1. i + 1 < j + 1 /\ i + 1 \in DOMAIN queue /\ j + 1 \in DOMAIN queue
    BY <1>3, <1>11
  <2>2. queue'[i] = queue[i + 1] /\ queue'[j] = queue[j + 1]
    BY <1>4, <1>11
  <2>3. QED
    BY <2>1, <2>2 DEF PanelsInv, WaitInOrder
<1>12. WaitInOrder'
  BY <1>2, <1>10, <1>11 DEF PanelsInv, WaitInOrder
<1>13. /\ PanelAndFocus' /\ shown' \in Requests \cup {None}
       /\ focus' \in Overlays \cup {"input", "permission"}
  BY <1>1, <1>2, <1>3, RebuiltInv DEF PanelsInv, PanelsTypeOK, PanelAndFocus
<1>14. QED
  BY <1>1, <1>2, <1>3, <1>8, <1>12, <1>13 DEF PanelsInv, PanelsTypeOK

\* The keys that open and close what lies over the panel, and the commands of the input.
LEMMA OverlayInv ==
  ASSUME PanelsInv, \/ OpenSidebar \/ CloseSidebar \/ OpenPalette \/ ClosePalette
                    \/ OpenResume \/ CloseResume \/ New
  PROVE  PanelsInv'
<1>1. UNCHANGED <<queue, asked, verdicts>>
  BY DEF OpenSidebar, CloseSidebar, OpenPalette, ClosePalette, OpenResume, CloseResume, New
<1>2. /\ WaitInOrder' /\ queue' \in Seq(Requests) /\ asked' \in Seq(Requests)
      /\ verdicts' \in [Requests -> {None, "allow", "deny", "error"}]
  BY <1>1, SameWaiting
<1>3. CASE OpenSidebar \/ CloseSidebar \/ OpenPalette \/ ClosePalette
  <2>1. {palette', sidebar', resume'} \subseteq BOOLEAN /\ news' \in 0 .. MaxNews
    BY <1>3 DEF OpenSidebar, CloseSidebar, OpenPalette, ClosePalette, PanelsInv, PanelsTypeOK
  <2>2. \/ Rebuilt("sidebar") /\ sidebar'
        \/ Rebuilt("palette") /\ palette'
        \/ Rebuilt("input")
    BY <1>3 DEF OpenSidebar, CloseSidebar, OpenPalette, ClosePalette, Closed
  <2>3. /\ PanelAndFocus' /\ shown' \in Requests \cup {None}
        /\ focus' \in Overlays \cup {"input", "permission"}
    BY <1>2, <2>1, <2>2, RebuiltInv DEF Overlays
  <2>4. QED
    BY <1>2, <2>1, <2>3 DEF PanelsInv, PanelsTypeOK
<1>4. CASE OpenResume \/ CloseResume
  BY <1>2, <1>4 DEF OpenResume, CloseResume, PanelsInv, PanelsTypeOK, PanelAndFocus, Overlays
<1>5. CASE New
  BY <1>2, <1>5, PanelsAssumption DEF New, PanelsInv, PanelsTypeOK, PanelAndFocus, Overlays
<1>6. QED
  BY <1>3, <1>4, <1>5

LEMMA PanelsStep == ASSUME PanelsInv, [PanelsNext]_panelVars PROVE PanelsInv'
<1>1. ASSUME NEW r \in Requests, Ask(r) PROVE PanelsInv'
  BY <1>1, AskInv
<1>2. ASSUME NEW v \in {"allow", "deny"}, NEW remember \in {"once", "session", "always"},
             Answer(v, remember)
      PROVE  PanelsInv'
  BY <1>2, AnswerInv
<1>3. CASE \/ OpenSidebar \/ CloseSidebar \/ OpenPalette \/ ClosePalette
           \/ OpenResume \/ LeaveResume \/ CtrlC \/ New
  BY <1>3, OverlayInv DEF LeaveResume, CtrlC
<1>4. CASE UNCHANGED panelVars
  BY <1>4 DEF panelVars, PanelsInv, PanelsTypeOK, PanelAndFocus, WaitInOrder
<1>5. QED
  BY <1>1, <1>2, <1>3, <1>4 DEF PanelsNext

\* A request waits until it is answered, in the order in which it was asked, and panel and
\* focus are those of the first that waits, whatever overlays are opened over each other
\* and however many sub-agents ask (permissionGate, resolve_permission,
\* rebuildDynamicChildren).
THEOREM RequestsWaitTheirTurn == PanelsSpec => []PanelsInv
BY PanelsInitInv, PanelsStep, PTL DEF PanelsSpec
-----------------------------------------------------------------------------
(***************************************************************************)
(* The plan panel.                                                         *)
(***************************************************************************)
StepIds == UNION {StepsOf[p] : p \in Plans}

PlanStatus == {"none", "running", "paused", "completed", "failed"}

\* The types, with the panel's steps a function from some of the ids.
PlanViewIInv ==
  /\ plan.id \in Plans \cup {NoPlan} /\ plan.status \in PlanStatus
  /\ plan = [id |-> plan.id, status |-> plan.status, steps |-> plan.steps]
  /\ plan.steps \in [DOMAIN plan.steps -> StepStatus] /\ DOMAIN plan.steps \subseteq StepIds
  /\ plan.id = NoPlan => plan = Nothing
  /\ DOMAIN reported = Plans
  /\ \A p \in Plans : reported[p] \in [StepsOf[p] -> StepStatus]
  /\ timer \in BOOLEAN /\ runs \subseteq Plans /\ retries \in 0 .. MaxRetries
  /\ StepsTrue

LEMMA PlanViewTypes == ASSUME PlanViewIInv PROVE PlanViewInv
<1>1. plan.steps \in UNION {[S -> StepStatus] : S \in SUBSET StepIds}
  <2>1. DOMAIN plan.steps \in SUBSET StepIds /\ plan.steps \in [DOMAIN plan.steps -> StepStatus]
    BY DEF PlanViewIInv
  <2>2. QED
    BY <2>1
<1>2. plan \in Views
  BY <1>1 DEF PlanViewIInv, Views, StepIds, PlanStatus
<1>3. QED
  BY <1>2 DEF PlanViewIInv, PlanViewInv, PlanViewTypeOK

LEMMA NothingShown ==
  /\ Nothing = [id |-> NoPlan, status |-> "none", steps |-> <<>>]
  /\ DOMAIN Nothing.steps = {} /\ Nothing.steps \in [DOMAIN Nothing.steps -> StepStatus]
BY DEF Nothing

LEMMA PlanViewInitInv == ASSUME PlanViewInit PROVE PlanViewIInv
<1>1. plan = Nothing /\ DOMAIN plan.steps = {}
  BY NothingShown DEF PlanViewInit
<1>2. /\ DOMAIN reported = Plans
      /\ \A p \in Plans : reported[p] \in [StepsOf[p] -> StepStatus]
  BY DEF PlanViewInit, StepStatus
<1>3. timer \in BOOLEAN /\ runs \subseteq Plans
  BY DEF PlanViewInit
<1>4. retries \in 0 .. MaxRetries
  BY PlanViewAssumption DEF PlanViewInit
<1>5. QED
  BY <1>1, <1>2, <1>3, <1>4, NothingShown DEF PlanViewIInv, StepsTrue, PlanStatus

\* An event about step s of plan p, and what the panel makes of the status it reports.
LEMMA ReportedInv ==
  ASSUME PlanViewIInv, NEW p \in Plans, NEW s \in StepsOf[p], NEW st \in StepStatus,
         reported' = [reported EXCEPT ![p][s] = st],
         timer' \in BOOLEAN, runs' \subseteq Plans, retries' \in 0 .. MaxRetries,
         \/ plan' = Updated(plan, s, st)
         \/ ~Shows(p) /\ plan' = OnlyStep(p, s) /\ st = "running"
         \/ /\ Shows(p) /\ s \notin DOMAIN plan.steps /\ st = "running"
            /\ plan' = [plan EXCEPT !.steps = WithStep(s)]
  PROVE  PlanViewIInv'
<1>1. /\ DOMAIN reported' = Plans
      /\ \A q \in Plans : reported'[q] \in [StepsOf[q] -> StepStatus]
      /\ reported'[p][s] = st
      /\ \A q \in Plans : \A x \in StepsOf[q] :
           q # p \/ x # s => reported'[q][x] = reported[q][x]
  BY DEF PlanViewIInv
<1>2. s \in StepIds
  BY DEF StepIds
<1>3. CASE plan' = Updated(plan, s, st) /\ s \in DOMAIN plan.steps
  <2>1. /\ plan'.id = plan.id /\ plan'.status = plan.status
        /\ plan'.steps = [plan.steps EXCEPT ![s] = st]
        /\ plan' = [id |-> plan'.id, status |-> plan'.status, steps |-> plan'.steps]
    BY <1>3 DEF Updated, PlanViewIInv
  <2>2. plan.id # NoPlan
    BY <1>3, NothingShown DEF PlanViewIInv
  <2>3. /\ DOMAIN plan'.steps = DOMAIN plan.steps
        /\ plan'.steps \in [DOMAIN plan'.steps -> StepStatus]
        /\ plan'.steps[s] = st
        /\ \A x \in DOMAIN plan.steps : x # s => plan'.steps[x] = plan.steps[x]
    BY <1>3, <2>1 DEF PlanViewIInv
  <2>4. StepsTrue'
    BY <1>1, <1>3, <2>1, <2>2, <2>3 DEF PlanViewIInv, StepsTrue
  <2>5. QED
    BY <1>1, <2>1, <2>2, <2>3, <2>4 DEF PlanViewIInv
<1>4. CASE plan' = Updated(plan, s, st) /\ s \notin DOMAIN plan.steps
  <2>1. plan' = plan
    BY <1>4 DEF Updated
  <2>2. StepsTrue'
    <3>1. CASE plan.id = NoPlan
      BY <2>1, <3>1, NothingShown DEF PlanViewIInv, StepsTrue
    <3>2. CASE plan.id \in Plans
      BY <1>1, <1>4, <2>1, <3>2 DEF PlanViewIInv, StepsTrue
    <3>3. QED
      BY <3>1, <3>2 DEF PlanViewIInv
  <2>3. QED
    BY <1>1, <2>1, <2>2 DEF PlanViewIInv
<1>5. CASE ~Shows(p) /\ plan' = OnlyStep(p, s) /\ st = "running"
  <2>1. /\ plan'.id = p /\ plan'.status = "running" /\ plan'.steps = [x \in {s} |-> "running"]
        /\ plan' = [id |-> plan'.id, status |-> plan'.status, steps |-> plan'.steps]
    BY <1>5 DEF OnlyStep
  <2>2. DOMAIN plan'.steps = {s} /\ plan'.steps \in [DOMAIN plan'.steps -> StepStatus]
    BY <2>1 DEF StepStatus
  <2>3. StepsTrue'
    BY <1>1, <1>5, <2>1, <2>2 DEF StepsTrue
  <2>4. QED
    BY <1>1, <1>2, <2>1, <2>2, <2>3, PlanViewAssumption DEF PlanViewIInv, PlanStatus
<1>6. CASE /\ Shows(p) /\ s \notin DOMAIN plan.steps /\ st = "running"
           /\ plan' = [plan EXCEPT !.steps = WithStep(s)]
  <2>1. /\ plan'.id = plan.id /\ plan'.status = plan.status /\ plan'.steps = WithStep(s)
        /\ plan' = [id |-> plan'.id, status |-> plan'.status, steps |-> plan'.steps]
        /\ plan.id = p
    BY <1>6 DEF PlanViewIInv, Shows
  <2>2. /\ DOMAIN plan'.steps = DOMAIN plan.steps \cup {s}
        /\ plan'.steps \in [DOMAIN plan'.steps -> StepStatus]
        /\ plan'.steps[s] = "running"
        /\ \A x \in DOMAIN plan.steps : x # s => plan'.steps[x] = plan.steps[x]
    BY <2>1 DEF WithStep, PlanViewIInv, StepStatus
  <2>3. StepsTrue'
    BY <1>1, <1>6, <2>1, <2>2 DEF PlanViewIInv, StepsTrue
  <2>4. QED
    BY <1>1, <1>2, <2>1, <2>2, <2>3, PlanViewAssumption DEF PlanViewIInv
<1>7. QED
  BY <1>3, <1>4, <1>5, <1>6

LEMMA PlanViewStep == ASSUME PlanViewIInv, [PlanViewNext]_planViewVars PROVE PlanViewIInv'
<1>1. ASSUME NEW p \in Plans, NEW s \in StepsOf[p],
             \/ StepStarted(p, s) \/ StepRetried(p, s)
             \/ \E st \in StepStatus : StepEnded(p, s, st)
      PROVE  PlanViewIInv'
  <2>1. CASE StepStarted(p, s)
    <3>1. reported' = [reported EXCEPT ![p][s] = "running"] /\ "running" \in StepStatus
      BY <2>1 DEF StepStarted, StepStatus
    <3>2. timer' \in BOOLEAN /\ runs' \subseteq Plans /\ retries' \in 0 .. MaxRetries
      BY <2>1 DEF StepStarted, PlanViewIInv
    <3>3. QED
      BY <2>1, <3>1, <3>2, ReportedInv DEF StepStarted
  <2>2. CASE StepRetried(p, s)
    <3>1. reported' = [reported EXCEPT ![p][s] = "pending"] /\ "pending" \in StepStatus
      BY <2>2 DEF StepRetried, StepStatus
    <3>2. timer' \in BOOLEAN /\ runs' \subseteq Plans /\ retries' \in 0 .. MaxRetries
      BY <2>2, PlanViewAssumption DEF StepRetried, PlanViewIInv
    <3>3. QED
      BY <2>2, <3>1, <3>2, ReportedInv DEF StepRetried
  <2>3. ASSUME NEW st \in StepStatus, StepEnded(p, s, st) PROVE PlanViewIInv'
    <3>1. timer' \in BOOLEAN /\ runs' \subseteq Plans /\ retries' \in 0 .. MaxRetries
      BY <2>3 DEF StepEnded, PlanViewIInv
    <3>2. QED
      BY <2>3, <3>1, ReportedInv DEF StepEnded
  <2>4. QED
    BY <1>1, <2>1, <2>2, <2>3
<1>2. ASSUME NEW st \in PlanStatus, plan' = WithStatus(st), UNCHANGED <<reported, retries>>,
             timer' \in BOOLEAN, runs' \subseteq Plans
      PROVE  PlanViewIInv'
  <2>1. CASE plan = Nothing
    BY <1>2, <2>1 DEF WithStatus, PlanViewIInv, StepsTrue
  <2>2. CASE plan # Nothing
    <3>1. /\ plan' = [plan EXCEPT !.status = st] /\ plan'.id = plan.id /\ plan'.status = st
          /\ plan'.steps = plan.steps
          /\ plan' = [id |-> plan'.id, status |-> plan'.status, steps |-> plan'.steps]
      BY <1>2, <2>2 DEF WithStatus, PlanViewIInv
    <3>2. QED
      BY <1>2, <2>2, <3>1 DEF PlanViewIInv, StepsTrue
  <2>3. QED
    BY <2>1, <2>2
<1>3. CASE Pause \/ Cancel \/ \E p \in Plans : Resume(p)
  BY <1>2, <1>3 DEF Pause, Cancel, Resume, PlanStatus, PlanViewIInv
<1>4. CASE Dismiss
  <2>1. plan' = Nothing /\ timer' = FALSE /\ UNCHANGED <<reported, runs, retries>>
    BY <1>4 DEF Dismiss
  <2>2. QED
    BY <2>1, NothingShown DEF PlanViewIInv, StepsTrue, PlanStatus
<1>5. ASSUME NEW p \in Plans, NEW st \in {"completed", "failed", "paused"}, PlanDone(p, st)
      PROVE  PlanViewIInv'
  <2>1. /\ plan'.id = p /\ plan'.status = st
        /\ plan'.steps = IF Shows(p) THEN plan.steps ELSE Nothing.steps
        /\ plan' = [id |-> plan'.id, status |-> plan'.status, steps |-> plan'.steps]
        /\ timer' = TRUE /\ runs' \subseteq Plans /\ UNCHANGED <<reported, retries>>
    BY <1>5 DEF PlanDone, PlanViewIInv, Nothing
  <2>2. CASE Shows(p)
    BY <2>1, <2>2, PlanViewAssumption DEF PlanViewIInv, StepsTrue, PlanStatus, Shows
  <2>3. CASE ~Shows(p)
    BY <2>1, <2>3, NothingShown, PlanViewAssumption DEF PlanViewIInv, StepsTrue, PlanStatus
  <2>4. QED
    BY <2>2, <2>3
<1>6. CASE UNCHANGED planViewVars
  BY <1>6 DEF planViewVars, PlanViewIInv, StepsTrue
<1>7. QED
  BY <1>1, <1>3, <1>4, <1>5, <1>6 DEF PlanViewNext

\* The steps the panel shows are those of the plan it names, each as reported last, however
\* the events of any number of plans are interleaved (planEventToAction).
THEOREM PanelTrueToPlan == PlanViewSpec => []PlanViewInv
<1>1. PlanViewIInv => PlanViewInv
  BY PlanViewTypes
<1>2. QED
  BY <1>1, PlanViewInitInv, PlanViewStep, PTL DEF PlanViewSpec
-----------------------------------------------------------------------------
(***************************************************************************)
(* The chat area.                                                          *)
(***************************************************************************)
ItemKinds == {"user", "assistant", "tool_call", "system"}

Items == [kind : ItemKinds, text : Seq(Chunks) \cup Seq(Nat), open : BOOLEAN]

\* The answer a text begins with.
Begins(text, t, a) == text # <<>> /\ text[1] \in Chunks /\ text[1][1] = t /\ text[1][2] = a

\* An item that shows something of the answer under way.
Current(it) == it.kind = "assistant" /\ Begins(it.text, turn, answer)

\* The types in full.
ChatShape ==
  /\ items \in Seq(Items)
  /\ \A i \in DOMAIN items : items[i].kind = "assistant" => items[i].text \in Seq(Chunks)
  /\ phase \in {"idle", "model", "tool", "sending"}
  /\ turn \in 0 .. MaxTurns /\ answer \in 0 .. MaxAnswers /\ chunks \in 0 .. MaxChunks
  /\ notices \in 0 .. MaxNotices /\ clears \in 0 .. MaxClears
  /\ quiet \in BOOLEAN /\ delivered \in BOOLEAN
  /\ phase # "idle" \/ delivered => turn > 0 /\ answer > 0
  /\ phase = "tool" => answer < MaxAnswers

\* No item shows anything of an answer still to come, and none anything of the answer under
\* way until its first delta.
NothingAhead ==
  /\ \A i \in DOMAIN items : items[i].kind = "assistant" =>
       \E t \in 1 .. turn, a \in 1 .. MaxAnswers :
         Begins(items[i].text, t, a) /\ (t = turn => a <= answer)
  /\ phase \in {"model", "sending"} /\ chunks = 0 => \A i \in DOMAIN items : ~Current(items[i])

\* The last item shows what has been streamed of the answer, and no other anything of it, if
\* nothing was put between.
LastIsReply ==
  phase \in {"model", "sending"} /\ chunks > 0 /\ quiet =>
    /\ items # <<>> /\ Last.kind = "assistant" /\ Last.text = Reply
    /\ Last.open = (phase = "model")
    /\ \A i \in DOMAIN items : Current(items[i]) => i = Len(items)

\* An answer begins with an item of its own; what is not streamed any more is not open.
NoneOpen ==
  /\ (phase = "tool" \/ (phase = "model" /\ chunks = 0)) /\ items # <<>> => ~Streaming(Last)
  /\ phase \in {"idle", "sending"} => \A i \in DOMAIN items : ~Streaming(items[i])
  /\ delivered => phase = "idle"

ChatIInv == ChatShape /\ NothingAhead /\ LastIsReply /\ NoneOpen /\ ReplyShown

LEMMA ChatTypes == ASSUME ChatShape PROVE ChatTypeOK
<1>1. \A i \in DOMAIN items : items[i] \in Items
  BY DEF ChatShape
<1>2. \A i \in DOMAIN items : items[i].kind \in ItemKinds /\ items[i].open \in BOOLEAN
  BY <1>1 DEF Items
<1>3. quiet \in BOOLEAN /\ delivered \in BOOLEAN
  BY DEF ChatShape
<1>4. QED
  BY <1>2, <1>3 DEF ChatShape, ChatTypeOK, ItemKinds

LEMMA ChunkParts ==
  ASSUME NEW t \in 1 .. MaxTurns, NEW a \in 1 .. MaxAnswers, NEW c \in 0 .. MaxChunks
  PROVE  <<t, a, c>> \in Chunks /\ <<t, a, c>>[1] = t /\ <<t, a, c>>[2] = a
BY DEF Chunks

\* A reply is a text of the answer under way.
LEMMA ReplyIs ==
  ASSUME ChatShape, turn > 0, answer > 0
  PROVE  /\ Reply \in Seq(Chunks) /\ Begins(Reply, turn, answer)
         /\ chunks > 0 => Len(Reply) = chunks
<1>1. turn \in 1 .. MaxTurns /\ answer \in 1 .. MaxAnswers /\ chunks \in 0 .. MaxChunks
  BY ChatAssumption DEF ChatShape
<1>2. CASE chunks = 0
  <2>1. Reply = <<<<turn, answer, 0>>>> /\ <<turn, answer, 0>> \in Chunks
    BY <1>1, <1>2, ChunkParts, ChatAssumption DEF Reply
  <2>2. <<turn, answer, 0>>[1] = turn /\ <<turn, answer, 0>>[2] = answer
    OBVIOUS
  <2>3. Reply \in Seq(Chunks) /\ Reply # <<>> /\ Reply[1] = <<turn, answer, 0>>
    BY <2>1
  <2>4. QED
    BY <1>2, <2>1, <2>2, <2>3 DEF Begins
<1>3. CASE chunks > 0
  <2>1. Reply = [c \in 1 .. chunks |-> <<turn, answer, c>>] /\ chunks \in Nat /\ 1 \in 1 .. chunks
    BY <1>1, <1>3, ChatAssumption DEF Reply
  <2>2. \A c \in 1 .. chunks : <<turn, answer, c>> \in Chunks
    BY <1>1, ChunkParts, ChatAssumption
  <2>3. Reply \in Seq(Chunks) /\ Len(Reply) = chunks
    BY <2>1, <2>2
  <2>4. Reply[1] = <<turn, answer, 1>> /\ <<turn, answer, 1>> \in Chunks
    BY <2>1, <2>2
  <2>5. <<turn, answer, 1>>[1] = turn /\ <<turn, answer, 1>>[2] = answer
    OBVIOUS
  <2>6. Reply # <<>>
    BY <1>3, <2>3, EmptySeq
  <2>7. QED
    BY <2>3, <2>4, <2>5, <2>6 DEF Begins
<1>4. QED
  BY <1>1, <1>2, <1>3, ChatAssumption

\* An item is added that is no answer.
LEMMA PlainAppended ==
  ASSUME ChatShape, NEW it \in Items, it.kind # "assistant", items' = Append(items, it)
  PROVE  /\ items' \in Seq(Items) /\ items' # <<>> /\ ~Streaming(Last')
         /\ \A i \in DOMAIN items : i \in DOMAIN items' /\ items'[i] = items[i]
         /\ \A i \in DOMAIN items' : items'[i].kind = "assistant" =>
              i \in DOMAIN items /\ items'[i] = items[i]
<1>1. /\ items' \in Seq(Items) /\ Len(items') = Len(items) + 1 /\ Len(items) \in Nat
      /\ DOMAIN items = 1 .. Len(items) /\ DOMAIN items' = 1 .. Len(items) + 1
      /\ items'[Len(items) + 1] = it /\ \A i \in DOMAIN items : items'[i] = items[i]
  BY AppendProperties DEF ChatShape
<1>2. Last' = it /\ items' # <<>>
  BY <1>1 DEF Last
<1>3. QED
  BY <1>1, <1>2 DEF Streaming

LEMMA ItemOf ==
  ASSUME NEW kind \in ItemKinds, NEW text \in Seq(Chunks) \cup Seq(Nat), NEW open \in BOOLEAN
  PROVE  /\ Item(kind, text, open) \in Items /\ Item(kind, text, open).kind = kind
         /\ Item(kind, text, open).text = text /\ Item(kind, text, open).open = open
BY DEF Item, Items

LEMMA BeginInv == ASSUME ChatIInv, Begin PROVE ChatIInv'
<1> DEFINE it == Item("user", <<>>, FALSE)
<1> USE DEF ChatIInv
<1>1. it \in Items /\ it.kind = "user"
  <2>1. "user" \in ItemKinds /\ <<>> \in Seq(Chunks) \cup Seq(Nat)
    BY DEF ItemKinds
  <2>2. QED
    BY <2>1, ItemOf
<1> HIDE DEF it
<1>2. /\ items' = Append(items, it) /\ turn' = turn + 1 /\ answer' = 1 /\ chunks' = 0
      /\ phase' = "model" /\ quiet' = TRUE /\ delivered' = FALSE
      /\ UNCHANGED <<notices, clears>> /\ turn < MaxTurns
  BY DEF Begin, it
<1>3. /\ items' \in Seq(Items) /\ items' # <<>> /\ ~Streaming(Last')
      /\ \A i \in DOMAIN items : i \in DOMAIN items' /\ items'[i] = items[i]
      /\ \A i \in DOMAIN items' : items'[i].kind = "assistant" =>
           i \in DOMAIN items /\ items'[i] = items[i]
  BY <1>1, <1>2, PlainAppended
<1>4. turn \in Nat /\ turn' \in 1 .. MaxTurns
  BY <1>2, ChatAssumption DEF ChatShape
<1>5. ChatShape'
  <2>1. \A i \in DOMAIN items' : items'[i].kind = "assistant" => items'[i].text \in Seq(Chunks)
    BY <1>3 DEF ChatShape
  <2>2. answer' \in 0 .. MaxAnswers /\ chunks' \in 0 .. MaxChunks
    BY <1>2, ChatAssumption
  <2>3. quiet' \in BOOLEAN /\ delivered' \in BOOLEAN
    BY <1>2
  <2>4. turn' \in 0 .. MaxTurns /\ turn' > 0 /\ answer' > 0
    BY <1>2, <1>4, ChatAssumption
  <2>5. QED
    BY <1>2, <1>3, <2>1, <2>2, <2>3, <2>4 DEF ChatShape
<1>6. ASSUME NEW i \in DOMAIN items', items'[i].kind = "assistant"
      PROVE  /\ \E t \in 1 .. turn', a \in 1 .. MaxAnswers :
                  Begins(items'[i].text, t, a) /\ (t = turn' => a <= answer')
             /\ ~Current(items[i])'
  <2>1. PICK t \in 1 .. turn, a \in 1 .. MaxAnswers : Begins(items[i].text, t, a)
    BY <1>3, <1>6 DEF NothingAhead
  <2>2. t \in 1 .. turn' /\ t # turn' /\ items'[i] = items[i]
    BY <1>2, <1>3, <1>4, <1>6
  <2>3. QED
    BY <2>1, <2>2 DEF Current, Begins
<1>7. NothingAhead'
  BY <1>6 DEF NothingAhead, Current
<1>8. LastIsReply' /\ NoneOpen' /\ ReplyShown'
  BY <1>2, <1>3 DEF LastIsReply, NoneOpen, ReplyShown
<1>9. QED
  BY <1>5, <1>7, <1>8

LEMMA DeltaInv == ASSUME ChatIInv, Delta PROVE ChatIInv'
<1> DEFINE chunk == <<turn, answer, chunks + 1>>
           n == Len(items)
<1> USE DEF ChatIInv
<1>1. /\ phase = "model" /\ chunks < MaxChunks /\ chunks' = chunks + 1
      /\ items' = WithDelta(items, <<chunk>>)
      /\ UNCHANGED <<phase, turn, answer, notices, clears, quiet, delivered>>
  BY DEF Delta
<1>2. /\ chunks \in Nat /\ chunks' \in 1 .. MaxChunks /\ turn \in 1 .. MaxTurns
      /\ answer \in 1 .. MaxAnswers /\ ~delivered
  BY <1>1, ChatAssumption DEF ChatShape, NoneOpen
<1>3. chunk \in Chunks /\ chunk[1] = turn /\ chunk[2] = answer
  BY <1>1, <1>2, ChunkParts, ChatAssumption
<1> HIDE DEF chunk
<1>4. /\ <<chunk>> \in Seq(Chunks) /\ Begins(<<chunk>>, turn, answer)
  BY <1>3 DEF Begins
<1>5. NoneOpen' /\ ReplyShown'
  BY <1>1, <1>2 DEF NoneOpen, ReplyShown
<1>6. items \in Seq(Items) /\ n \in Nat /\ DOMAIN items = 1 .. n
  BY DEF ChatShape
<1>7. CASE items # <<>> /\ Streaming(Last)
  <2>1. /\ n \in DOMAIN items /\ Last \in Items /\ Last = items[n]
        /\ Last.kind = "assistant" /\ Last.open /\ Last.text \in Seq(Chunks)
    BY <1>6, <1>7 DEF Last, Streaming, ChatShape
  <2>2. /\ items' = [items EXCEPT ![n] = [items[n] EXCEPT !.text = @ \o <<chunk>>]]
    BY <1>1, <1>7 DEF WithDelta, Last
  <2>3. DEFINE new == [items[n] EXCEPT !.text = @ \o <<chunk>>]
  <2>4. /\ new.kind = "assistant" /\ new.open /\ new.text = Last.text \o <<chunk>>
        /\ new \in Items /\ new.text \in Seq(Chunks)
    <3>1. Last.text \o <<chunk>> \in Seq(Chunks)
      BY <2>1, <1>4, ConcatProperties
    <3>2. QED
      BY <2>1, <3>1 DEF Items
  <2> HIDE DEF new
  <2>5. /\ items' \in Seq(Items) /\ Len(items') = n /\ DOMAIN items' = DOMAIN items
        /\ items'[n] = new /\ \A i \in DOMAIN items : i # n => items'[i] = items[i]
    BY <1>6, <2>1, <2>2, <2>4, ExceptSeq DEF new
  <2>6. ChatShape'
    <3>1. \A i \in DOMAIN items' : items'[i].kind = "assistant" => items'[i].text \in Seq(Chunks)
      BY <2>4, <2>5 DEF ChatShape
    <3>2. chunks' \in 0 .. MaxChunks
      BY <1>2, ChatAssumption
    <3>3. QED
      BY <1>1, <2>5, <3>1, <3>2 DEF ChatShape
  <2>7. PICK t \in 1 .. turn, a \in 1 .. MaxAnswers :
          Begins(Last.text, t, a) /\ (t = turn => a <= answer)
    BY <2>1 DEF NothingAhead
  <2>8. Begins(new.text, t, a)
    <3>1. Len(Last.text) > 0
      BY <2>1, <2>7 DEF Begins
    <3>2. new.text[1] = Last.text[1] /\ new.text # <<>>
      BY <1>4, <2>1, <2>4, <3>1, ConcatProperties
    <3>3. QED
      BY <2>7, <3>2 DEF Begins
  <2>9. NothingAhead'
    <3>1. \A i \in DOMAIN items' : items'[i].kind = "assistant" =>
            \E tt \in 1 .. turn', aa \in 1 .. MaxAnswers :
              Begins(items'[i].text, tt, aa) /\ (tt = turn' => aa <= answer')
      BY <1>1, <2>5, <2>7, <2>8 DEF NothingAhead
    <3>2. chunks' # 0
      BY <1>2
    <3>3. QED
      BY <3>1, <3>2 DEF NothingAhead
  <2>10. chunks > 0
    BY <1>1, <1>2, <1>7 DEF NoneOpen
  <2>11. ASSUME quiet
         PROVE  /\ items' # <<>> /\ Last'.kind = "assistant" /\ Last'.text = Reply'
                /\ Last'.open
                /\ \A i \in DOMAIN items' : Current(items[i])' => i = Len(items')
    <3>1. /\ Last.text = Reply /\ \A i \in DOMAIN items : Current(items[i]) => i = n
      BY <1>1, <2>10, <2>11 DEF LastIsReply
    <3>2. Reply = [c \in 1 .. chunks |-> <<turn, answer, c>>]
      BY <2>10 DEF Reply
    <3>3. Reply' = [c \in 1 .. chunks + 1 |-> <<turn, answer, c>>]
      BY <1>1, <1>2 DEF Reply
    <3>4. Reply' = Reply \o <<chunk>>
      <4>1. /\ Reply \in Seq(Chunks) /\ Len(Reply) = chunks
        BY <2>1, <2>10, <3>1, ReplyIs, <1>2
      <4>2. /\ Len(Reply \o <<chunk>>) = chunks + 1
            /\ \A c \in 1 .. chunks + 1 : (Reply \o <<chunk>>)[c] =
                 IF c <= chunks THEN Reply[c] ELSE <<chunk>>[c - chunks]
        BY <4>1, <1>4, ConcatProperties
      <4>3. \A c \in 1 .. chunks + 1 : (Reply \o <<chunk>>)[c] = Reply'[c]
        BY <1>2, <3>2, <3>3, <4>2 DEF chunk
      <4>4. Reply \o <<chunk>> \in Seq(Chunks)
        BY <4>1, <1>4, ConcatProperties
      <4>5. Reply' \in Seq(Chunks) /\ Len(Reply') = chunks + 1
        <5>1. \A c \in 1 .. chunks + 1 : Reply'[c] \in Chunks
          BY <4>2, <4>3, <4>4
        <5>2. QED
          BY <1>2, <3>3, <5>1
      <4>6. QED
        BY <4>2, <4>3, <4>4, <4>5, SeqEqual
    <3>5. Last' = new /\ items' # <<>>
      BY <1>6, <2>1, <2>5 DEF Last
    <3>6. \A i \in DOMAIN items' : Current(items[i])' => i = Len(items')
      BY <1>1, <2>5, <3>1 DEF Current
    <3>7. QED
      BY <2>4, <3>1, <3>4, <3>5, <3>6
  <2>12. LastIsReply'
    BY <1>1, <2>11 DEF LastIsReply
  <2>13. QED
    BY <1>5, <2>6, <2>9, <2>12
<1>8. CASE ~(items # <<>> /\ Streaming(Last))
  <2> DEFINE new == Item("assistant", <<chunk>>, TRUE)
  <2>1. /\ new \in Items /\ new.kind = "assistant" /\ new.text = <<chunk>> /\ new.open = TRUE
    <3>1. "assistant" \in ItemKinds /\ <<chunk>> \in Seq(Chunks) \cup Seq(Nat)
      BY <1>4 DEF ItemKinds
    <3>2. QED
      BY <3>1, ItemOf
  <2>2. items' = Append(items, new)
    BY <1>1, <1>8 DEF WithDelta, Last
  <2> HIDE DEF new
  <2>3. /\ items' \in Seq(Items) /\ Len(items') = n + 1 /\ DOMAIN items' = 1 .. n + 1
        /\ items'[n + 1] = new /\ \A i \in DOMAIN items : items'[i] = items[i]
    BY <1>6, <2>1, <2>2, AppendProperties
  <2>4. ChatShape'
    <3>1. \A i \in DOMAIN items' : items'[i].kind = "assistant" => items'[i].text \in Seq(Chunks)
      <4>1. \A i \in DOMAIN items' : i = n + 1 \/ i \in DOMAIN items
        BY <1>6, <2>3
      <4>2. new.text \in Seq(Chunks)
        BY <1>4, <2>1
      <4>3. QED
        BY <2>3, <4>1, <4>2 DEF ChatShape
    <3>2. chunks' \in 0 .. MaxChunks
      BY <1>2, ChatAssumption
    <3>3. QED
      BY <1>1, <2>3, <3>1, <3>2 DEF ChatShape
  <2>5. NothingAhead'
    <3>1. turn \in 1 .. turn /\ answer \in 1 .. MaxAnswers /\ answer <= answer
      BY <1>2, ChatAssumption
    <3>2. \A i \in DOMAIN items' : items'[i].kind = "assistant" =>
            \E tt \in 1 .. turn', aa \in 1 .. MaxAnswers :
              Begins(items'[i].text, tt, aa) /\ (tt = turn' => aa <= answer')
      <4>1. \A i \in DOMAIN items' : i = n + 1 \/ i \in DOMAIN items
        BY <1>6, <2>3
      <4>2. Begins(new.text, turn, answer)
        BY <1>4, <2>1
      <4>3. QED
        BY <1>1, <2>3, <3>1, <4>1, <4>2 DEF NothingAhead
    <3>3. chunks' # 0
      BY <1>2
    <3>4. QED
      BY <3>2, <3>3 DEF NothingAhead
  <2>6. ASSUME quiet
        PROVE  /\ items' # <<>> /\ Last'.kind = "assistant" /\ Last'.text = Reply'
               /\ Last'.open = TRUE
               /\ \A i \in DOMAIN items' : Current(items[i])' => i = Len(items')
    <3>1. chunks = 0
      <4>1. SUFFICES ASSUME chunks > 0 PROVE FALSE
        BY <1>2
      <4>2. items # <<>> /\ Last.kind = "assistant" /\ Last.open = (phase = "model")
        BY <1>1, <2>6, <4>1 DEF LastIsReply
      <4>3. QED
        BY <1>1, <1>8, <4>2 DEF Streaming
    <3>2. Last' = new /\ items' # <<>>
      BY <1>6, <2>3 DEF Last
    <3>3. Reply' = <<chunk>>
      <4>1. Reply' = [c \in 1 .. 1 |-> <<turn, answer, c>>]
        BY <1>1, <1>2, <3>1 DEF Reply
      <4>2. <<chunk>> = [c \in 1 .. 1 |-> <<turn, answer, c>>]
        BY <3>1 DEF chunk
      <4>3. QED
        BY <4>1, <4>2
    <3>4. \A i \in DOMAIN items' : Current(items[i])' => i = Len(items')
      BY <1>1, <1>6, <2>3, <3>1 DEF Current, NothingAhead
    <3>5. QED
      BY <2>1, <3>2, <3>3, <3>4
  <2>7. LastIsReply'
    BY <1>1, <2>6 DEF LastIsReply
  <2>8. QED
    BY <1>5, <2>4, <2>5, <2>7
<1>9. QED
  BY <1>7, <1>8
\* What an item that is no answer leaves as it was.
LEMMA PlainKeeps ==
  ASSUME ChatIInv, NEW it \in Items, it.kind # "assistant", items' = Append(items, it),
         UNCHANGED <<turn, answer, chunks>>
  PROVE  /\ items' \in Seq(Items) /\ items' # <<>> /\ ~Streaming(Last')
         /\ \A i \in DOMAIN items' : items'[i].kind = "assistant" =>
              /\ items'[i].text \in Seq(Chunks)
              /\ \E t \in 1 .. turn', a \in 1 .. MaxAnswers :
                   Begins(items'[i].text, t, a) /\ (t = turn' => a <= answer')
         /\ \A i \in DOMAIN items' : Current(items[i])' => i \in DOMAIN items /\ Current(items[i])
         /\ \A i \in DOMAIN items' : Streaming(items'[i]) =>
              i \in DOMAIN items /\ Streaming(items[i])
         /\ Shown' = Shown
<1>1. /\ items' \in Seq(Items) /\ items' # <<>> /\ ~Streaming(Last')
      /\ \A i \in DOMAIN items : i \in DOMAIN items' /\ items'[i] = items[i]
      /\ \A i \in DOMAIN items' : items'[i].kind = "assistant" =>
           i \in DOMAIN items /\ items'[i] = items[i]
  BY PlainAppended DEF ChatIInv
<1>2. Reply' = Reply
  BY DEF Reply
<1>3. Shown' = Shown
  BY <1>1, <1>2 DEF Shown
<1>4. QED
  BY <1>1, <1>3 DEF ChatIInv, ChatShape, NothingAhead, Current, Streaming

LEMMA ToolStartsInv == ASSUME ChatIInv, ToolStarts PROVE ChatIInv'
<1> DEFINE it == Item("tool_call", <<turn, answer>>, TRUE)
<1>1. /\ items' = Append(items, it) /\ phase = "model" /\ phase' = "tool" /\ answer < MaxAnswers
      /\ UNCHANGED <<turn, answer, chunks, notices, clears, quiet, delivered>>
  BY DEF ToolStarts
<1>2. it \in Items /\ it.kind = "tool_call"
  <2>1. turn \in Nat /\ answer \in Nat
    BY ChatAssumption DEF ChatIInv, ChatShape
  <2>2. "tool_call" \in ItemKinds /\ <<turn, answer>> \in Seq(Chunks) \cup Seq(Nat)
    BY <2>1 DEF ItemKinds
  <2>3. QED
    BY <2>2, ItemOf
<1> HIDE DEF it
<1>3. ChatShape'
  BY <1>1, <1>2, PlainKeeps DEF ChatIInv, ChatShape
<1>4. NothingAhead' /\ LastIsReply' /\ NoneOpen' /\ ReplyShown'
  BY <1>1, <1>2, PlainKeeps DEF ChatIInv, NothingAhead, LastIsReply, NoneOpen, ReplyShown
<1>5. QED
  BY <1>3, <1>4 DEF ChatIInv

LEMMA SystemItem == Item("system", <<>>, FALSE) \in Items /\ Item("system", <<>>, FALSE).kind = "system"
<1>1. "system" \in ItemKinds /\ <<>> \in Seq(Chunks) \cup Seq(Nat)
  BY DEF ItemKinds
<1>2. QED
  BY <1>1, ItemOf

LEMMA TurnFailsInv == ASSUME ChatIInv, TurnFails PROVE ChatIInv'
<1>1. /\ items' = Append(items, Item("system", <<>>, FALSE))
      /\ phase = "sending" /\ phase' = "idle"
      /\ UNCHANGED <<turn, answer, chunks, notices, clears, quiet, delivered>>
  BY DEF TurnFails
<1>2. ChatShape'
  BY <1>1, SystemItem, PlainKeeps DEF ChatIInv, ChatShape
<1>3. ~delivered
  BY <1>1 DEF ChatIInv, NoneOpen
<1>4. NothingAhead' /\ LastIsReply' /\ NoneOpen' /\ ReplyShown'
  BY <1>1, <1>3, SystemItem, PlainKeeps DEF ChatIInv, NothingAhead, LastIsReply, NoneOpen, ReplyShown
<1>5. QED
  BY <1>2, <1>4 DEF ChatIInv

LEMMA NoticeInv == ASSUME ChatIInv, Notice PROVE ChatIInv'
<1>1. /\ items' = Append(items, Item("system", <<>>, FALSE))
      /\ notices < MaxNotices /\ notices' = notices + 1
      /\ quiet' = (quiet /\ (phase = "idle" \/ chunks = 0))
      /\ UNCHANGED <<phase, turn, answer, chunks, clears, delivered>>
  BY DEF Notice
<1>2. notices' \in 0 .. MaxNotices
  BY <1>1, ChatAssumption DEF ChatIInv, ChatShape
<1>3. quiet' \in BOOLEAN
  BY <1>1
<1>4. ChatShape'
  BY <1>1, <1>2, <1>3, SystemItem, PlainKeeps DEF ChatIInv, ChatShape
<1>5. NothingAhead' /\ NoneOpen'
  BY <1>1, SystemItem, PlainKeeps DEF ChatIInv, NothingAhead, NoneOpen
<1>6. LastIsReply'
  <2>1. SUFFICES ASSUME phase \in {"model", "sending"}, chunks > 0, quiet' PROVE FALSE
    BY <1>1 DEF LastIsReply
  <2>2. chunks # 0
    BY <2>1
  <2>3. QED
    BY <1>1, <2>1, <2>2
<1>7. ReplyShown'
  BY <1>1, SystemItem, PlainKeeps DEF ChatIInv, ReplyShown
<1>8. QED
  BY <1>4, <1>5, <1>6, <1>7 DEF ChatIInv

LEMMA ClearInv == ASSUME ChatIInv, Clear PROVE ChatIInv'
<1>1. /\ items' = <<>> /\ DOMAIN items' = {} /\ delivered' = FALSE
      /\ clears < MaxClears /\ clears' = clears + 1
      /\ quiet' = (quiet /\ (phase = "idle" \/ chunks = 0))
      /\ UNCHANGED <<phase, turn, answer, chunks, notices>>
  BY DEF Clear
<1>2. clears' \in 0 .. MaxClears
  BY <1>1, ChatAssumption DEF ChatIInv, ChatShape
<1>3. quiet' \in BOOLEAN /\ delivered' \in BOOLEAN
  BY <1>1
<1>4. ChatShape'
  BY <1>1, <1>2, <1>3 DEF ChatIInv, ChatShape
<1>5. NothingAhead' /\ NoneOpen' /\ ReplyShown'
  BY <1>1 DEF ChatIInv, NothingAhead, NoneOpen, ReplyShown
<1>6. LastIsReply'
  <2>1. SUFFICES ASSUME phase \in {"model", "sending"}, chunks > 0, quiet' PROVE FALSE
    BY <1>1 DEF LastIsReply
  <2>2. chunks # 0
    BY <2>1
  <2>3. QED
    BY <1>1, <2>1, <2>2
<1>7. QED
  BY <1>4, <1>5, <1>6 DEF ChatIInv

\* Items some of which are closed.
ClosedAt(its, S) ==
  [i \in DOMAIN its |-> IF i \in S THEN [its[i] EXCEPT !.open = FALSE] ELSE its[i]]

LEMMA ClosedItems ==
  ASSUME NEW its \in Seq(Items), NEW S
  PROVE  /\ ClosedAt(its, S) \in Seq(Items) /\ DOMAIN ClosedAt(its, S) = DOMAIN its
         /\ Len(ClosedAt(its, S)) = Len(its)
         /\ \A i \in DOMAIN its :
              /\ ClosedAt(its, S)[i].kind = its[i].kind /\ ClosedAt(its, S)[i].text = its[i].text
              /\ ClosedAt(its, S)[i].open => its[i].open
              /\ i \in S => ~ClosedAt(its, S)[i].open
<1> DEFINE new == ClosedAt(its, S)
<1>1. DOMAIN its = 1 .. Len(its) /\ Len(its) \in Nat /\ \A i \in DOMAIN its : its[i] \in Items
  OBVIOUS
<1>2. \A i \in DOMAIN its :
         /\ new[i] \in Items
         /\ new[i].kind = its[i].kind /\ new[i].text = its[i].text
         /\ new[i].open => its[i].open
         /\ i \in S => ~new[i].open
  BY <1>1 DEF Items, ClosedAt
<1>3. new \in Seq(Items) /\ DOMAIN new = DOMAIN its /\ Len(new) = Len(its)
  BY <1>1, <1>2 DEF ClosedAt
<1>4. QED
  BY <1>2, <1>3

LEMMA FinalizedItems ==
  ASSUME NEW its \in Seq(Items)
  PROVE  /\ Finalized(its) \in Seq(Items) /\ DOMAIN Finalized(its) = DOMAIN its
         /\ Len(Finalized(its)) = Len(its)
         /\ \A i \in DOMAIN its :
              /\ Finalized(its)[i].kind = its[i].kind /\ Finalized(its)[i].text = its[i].text
              /\ ~Streaming(Finalized(its)[i])
<1> DEFINE S == {i \in DOMAIN its : Streaming(its[i])}
<1>1. Finalized(its) = ClosedAt(its, S)
  BY DEF Finalized, ClosedAt
<1>2. /\ Finalized(its) \in Seq(Items) /\ DOMAIN Finalized(its) = DOMAIN its
      /\ Len(Finalized(its)) = Len(its)
      /\ \A i \in DOMAIN its :
           /\ Finalized(its)[i].kind = its[i].kind /\ Finalized(its)[i].text = its[i].text
           /\ Finalized(its)[i].open => its[i].open
           /\ i \in S => ~Finalized(its)[i].open
  <2> HIDE DEF S
  <2>1. QED
    BY <1>1, ClosedItems
<1>3. QED
  BY <1>2 DEF Streaming

LEMMA ToolEndsInv == ASSUME ChatIInv, ToolEnds PROVE ChatIInv'
<1> DEFINE S == {i \in DOMAIN items : items[i].kind = "tool_call" /\ items[i].text = <<turn, answer>>}
<1>1. /\ phase = "tool" /\ phase' = "model" /\ answer' = answer + 1 /\ chunks' = 0 /\ quiet' = TRUE
      /\ items' = ClosedAt(items, S)
      /\ UNCHANGED <<turn, notices, clears, delivered>>
  BY DEF ToolEnds, ClosedAt
<1> HIDE DEF S
<1>2. items \in Seq(Items)
  BY DEF ChatIInv, ChatShape
<1>3. /\ items' \in Seq(Items) /\ DOMAIN items' = DOMAIN items /\ Len(items') = Len(items)
      /\ \A i \in DOMAIN items :
           /\ items'[i].kind = items[i].kind /\ items'[i].text = items[i].text
           /\ items'[i].open => items[i].open
  BY <1>1, <1>2, ClosedItems
<1>4. /\ answer \in Nat /\ answer < MaxAnswers /\ ~delivered
      /\ answer' \in 0 .. MaxAnswers /\ chunks' \in 0 .. MaxChunks /\ answer' > 0
  BY <1>1, ChatAssumption DEF ChatIInv, ChatShape, NoneOpen
<1>5. quiet' \in BOOLEAN
  BY <1>1
<1>6. ChatShape'
  BY <1>1, <1>3, <1>4, <1>5 DEF ChatIInv, ChatShape
<1>7. ASSUME NEW i \in DOMAIN items', items'[i].kind = "assistant"
      PROVE  /\ \E t \in 1 .. turn', a \in 1 .. MaxAnswers :
                  Begins(items'[i].text, t, a) /\ (t = turn' => a <= answer')
             /\ ~Current(items[i])'
  <2>1. PICK t \in 1 .. turn, a \in 1 .. MaxAnswers :
          Begins(items[i].text, t, a) /\ (t = turn => a <= answer)
    BY <1>3, <1>7 DEF ChatIInv, NothingAhead
  <2>2. t = turn' => a <= answer' /\ a # answer'
    BY <1>1, <1>4, <2>1, ChatAssumption
  <2>3. QED
    BY <1>1, <1>3, <1>7, <2>1, <2>2 DEF Current, Begins
<1>8. NothingAhead'
  BY <1>7 DEF NothingAhead, Current
<1>9. LastIsReply' /\ ReplyShown'
  BY <1>1 DEF LastIsReply, ReplyShown
<1>10. NoneOpen'
  <2>1. ASSUME items' # <<>> PROVE ~Streaming(Last')
    <3>1. items # <<>> /\ Len(items) \in DOMAIN items
      BY <1>2, <1>3, <2>1, EmptySeq
    <3>2. ~Streaming(Last)
      BY <1>1, <3>1 DEF ChatIInv, NoneOpen
    <3>3. QED
      BY <1>3, <3>1, <3>2 DEF Streaming, Last
  <2>2. QED
    BY <1>1, <1>4, <2>1 DEF NoneOpen
<1>11. QED
  BY <1>6, <1>8, <1>9, <1>10 DEF ChatIInv

LEMMA AgentEndsInv == ASSUME ChatIInv, AgentEnds PROVE ChatIInv'
<1>1. /\ phase = "model" /\ phase' = "sending" /\ items' = Finalized(items)
      /\ UNCHANGED <<turn, answer, chunks, notices, clears, quiet, delivered>>
  BY DEF AgentEnds
<1>2. items \in Seq(Items) /\ DOMAIN items = 1 .. Len(items) /\ Len(items) \in Nat
  BY DEF ChatIInv, ChatShape
<1>3. /\ items' \in Seq(Items) /\ DOMAIN items' = DOMAIN items /\ Len(items') = Len(items)
      /\ \A i \in DOMAIN items :
           /\ items'[i].kind = items[i].kind /\ items'[i].text = items[i].text
           /\ ~Streaming(items'[i])
  BY <1>1, <1>2, FinalizedItems
<1>4. ChatShape'
  BY <1>1, <1>3 DEF ChatIInv, ChatShape
<1>5. \A i \in DOMAIN items : Current(items[i])' = Current(items[i])
  BY <1>1, <1>3 DEF Current
<1>6. NothingAhead'
  BY <1>1, <1>3, <1>5 DEF ChatIInv, NothingAhead
<1>7. ASSUME chunks > 0, quiet
      PROVE  /\ items' # <<>> /\ Last'.kind = "assistant" /\ Last'.text = Reply'
             /\ Last'.open = FALSE
             /\ \A i \in DOMAIN items' : Current(items[i])' => i = Len(items')
  <2>1. /\ items # <<>> /\ Last.kind = "assistant" /\ Last.text = Reply
        /\ \A i \in DOMAIN items : Current(items[i]) => i = Len(items)
    BY <1>1, <1>7 DEF ChatIInv, LastIsReply
  <2>2. Len(items) \in DOMAIN items /\ items' # <<>>
    BY <1>2, <1>3, <2>1, EmptySeq
  <2>3. Reply' = Reply
    BY <1>1 DEF Reply
  <2>4. QED
    <3>1. Last' \in Items /\ Last' = items'[Len(items')]
      BY <1>3, <2>2 DEF Last
    <3>2. Last'.kind = "assistant" /\ Last'.text = Reply' /\ ~Last'.open
      BY <1>3, <2>1, <2>2, <2>3, <3>1 DEF Last, Streaming
    <3>3. Last'.open = FALSE
      BY <3>1, <3>2 DEF Items
    <3>4. QED
      BY <1>3, <1>5, <2>1, <2>2, <3>2, <3>3
<1>8. LastIsReply'
  BY <1>1, <1>7 DEF LastIsReply
<1>9. NoneOpen' /\ ReplyShown'
  BY <1>1, <1>3 DEF ChatIInv, NoneOpen, ReplyShown
<1>10. QED
  BY <1>4, <1>6, <1>8, <1>9 DEF ChatIInv

LEMMA SendInv == ASSUME ChatIInv, Send PROVE ChatIInv'
<1> DEFINE n == Len(items)
           it == Item("assistant", Reply, TRUE)
<1>1. /\ phase = "sending" /\ phase' = "idle" /\ delivered' = TRUE
      /\ UNCHANGED <<turn, answer, chunks, notices, clears, quiet>>
  BY DEF Send
<1>2. /\ items \in Seq(Items) /\ DOMAIN items = 1 .. n /\ n \in Nat
      /\ turn \in 1 .. MaxTurns /\ answer \in 1 .. MaxAnswers /\ chunks \in Nat
  BY <1>1, ChatAssumption DEF ChatIInv, ChatShape
<1>3. \A i \in DOMAIN items : ~Streaming(items[i])
  BY <1>1 DEF ChatIInv, NoneOpen
<1>4. Reply' = Reply /\ Reply \in Seq(Chunks) /\ Begins(Reply, turn, answer)
  <2>1. Reply' = Reply
    BY <1>1 DEF Reply
  <2>2. QED
    BY <2>1, <1>2, ReplyIs DEF ChatIInv
<1>5. \A i \in Shown : i \in DOMAIN items /\ Current(items[i])
  BY <1>4 DEF Shown, Current
<1>6. quiet \in BOOLEAN /\ delivered' \in BOOLEAN
  BY <1>1 DEF ChatIInv, ChatShape
<1>7. CASE AlreadyRendered
  <2>1. items' = Finalized(items)
    BY <1>7 DEF Send
  <2>2. /\ items' \in Seq(Items) /\ DOMAIN items' = DOMAIN items /\ Len(items') = Len(items)
        /\ \A i \in DOMAIN items :
             /\ items'[i].kind = items[i].kind /\ items'[i].text = items[i].text
             /\ ~Streaming(items'[i])
    BY <1>2, <2>1, FinalizedItems
  <2>3. ChatShape'
    BY <1>1, <1>2, <1>6, <2>2 DEF ChatIInv, ChatShape
  <2>4. NothingAhead' /\ LastIsReply' /\ NoneOpen'
    BY <1>1, <2>2 DEF ChatIInv, NothingAhead, LastIsReply, NoneOpen
  <2>5. Shown' = Shown
    BY <1>4, <2>2 DEF Shown
  <2>6. n \in Shown
    BY <1>2, <1>7, EmptySeq DEF Shown, AlreadyRendered, Last
  <2>7. ASSUME quiet PROVE \A i, j \in Shown : i = j
    <3>1. chunks > 0
      BY <1>1, <1>2, <1>5, <2>6 DEF ChatIInv, NothingAhead
    <3>2. \A i \in DOMAIN items : Current(items[i]) => i = n
      BY <1>1, <2>7, <3>1 DEF ChatIInv, LastIsReply
    <3>3. QED
      BY <1>5, <3>2
  <2>8. ReplyShown'
    BY <1>1, <2>2, <2>5, <2>6, <2>7 DEF ReplyShown
  <2>9. QED
    BY <2>3, <2>4, <2>8 DEF ChatIInv
<1>8. CASE ~AlreadyRendered
  <2>1. it \in Items /\ it.kind = "assistant" /\ it.text = Reply
    <3>1. "assistant" \in ItemKinds /\ Reply \in Seq(Chunks) \cup Seq(Nat)
      BY <1>4 DEF ItemKinds
    <3>2. QED
      BY <3>1, ItemOf
  <2>2. items' = Finalized(Append(items, it))
    <3>1. items # <<>> => n \in DOMAIN items
      BY <1>2, EmptySeq
    <3>2. WithDelta(items, Reply) = Append(items, it)
      BY <1>3, <3>1 DEF WithDelta
    <3>3. QED
      BY <1>3, <1>8, <3>2 DEF Send
  <2> HIDE DEF it
  <2>3. /\ Append(items, it) \in Seq(Items) /\ DOMAIN Append(items, it) = 1 .. n + 1
        /\ Append(items, it)[n + 1] = it
        /\ \A i \in DOMAIN items : Append(items, it)[i] = items[i]
    BY <1>2, <2>1, AppendProperties
  <2>4. /\ items' \in Seq(Items) /\ DOMAIN items' = 1 .. n + 1
        /\ items'[n + 1].kind = "assistant" /\ items'[n + 1].text = Reply
        /\ \A i \in DOMAIN items : items'[i].kind = items[i].kind /\ items'[i].text = items[i].text
        /\ \A i \in DOMAIN items' : ~Streaming(items'[i])
    <3>1. n + 1 \in 1 .. n + 1 /\ \A i \in DOMAIN items : i \in 1 .. n + 1
      BY <1>2
    <3>2. \A i \in DOMAIN Append(items, it) :
             /\ items'[i].kind = Append(items, it)[i].kind
             /\ items'[i].text = Append(items, it)[i].text
             /\ ~Streaming(items'[i])
      BY <2>2, <2>3, FinalizedItems
    <3>3. items' \in Seq(Items) /\ DOMAIN items' = 1 .. n + 1
      BY <2>2, <2>3, FinalizedItems
    <3>4. QED
      BY <2>1, <2>3, <3>1, <3>2, <3>3
  <2>5. \A i \in DOMAIN items' : i = n + 1 \/ i \in DOMAIN items
    BY <1>2, <2>4
  <2>6. ChatShape'
    <3>1. \A i \in DOMAIN items' : items'[i].kind = "assistant" => items'[i].text \in Seq(Chunks)
      BY <1>4, <2>4, <2>5 DEF ChatIInv, ChatShape
    <3>2. QED
      BY <1>1, <1>2, <1>6, <2>4, <3>1 DEF ChatIInv, ChatShape
  <2>7. NothingAhead'
    <3>1. turn \in 1 .. turn /\ answer <= answer
      BY <1>2
    <3>2. \A i \in DOMAIN items' : items'[i].kind = "assistant" =>
            \E t \in 1 .. turn', a \in 1 .. MaxAnswers :
              Begins(items'[i].text, t, a) /\ (t = turn' => a <= answer')
      BY <1>1, <1>2, <1>4, <2>4, <2>5, <3>1 DEF ChatIInv, NothingAhead
    <3>3. QED
      BY <1>1, <3>2 DEF NothingAhead
  <2>8. LastIsReply' /\ NoneOpen'
    BY <1>1, <2>4 DEF LastIsReply, NoneOpen
  <2>9. n + 1 \in Shown' /\ \A i \in Shown' : i = n + 1 \/ i \in Shown
    BY <1>2, <1>4, <2>4, <2>5 DEF Shown
  <2>10. ASSUME quiet PROVE Shown = {}
    <3>1. CASE chunks = 0
      BY <1>1, <1>5, <3>1 DEF ChatIInv, NothingAhead
    <3>2. CASE chunks > 0
      <4>1. /\ items # <<>> /\ Last.kind = "assistant" /\ Last.text = Reply
            /\ Last.open = (phase = "model")
        BY <1>1, <2>10, <3>2 DEF ChatIInv, LastIsReply
      <4>2. QED
        BY <1>1, <1>8, <4>1 DEF AlreadyRendered
    <3>3. QED
      BY <1>2, <3>1, <3>2
  <2>11. ReplyShown'
    BY <1>1, <2>4, <2>9, <2>10 DEF ReplyShown
  <2>12. QED
    BY <2>6, <2>7, <2>8, <2>11 DEF ChatIInv
<1>9. QED
  BY <1>7, <1>8

LEMMA ChatInitInv == ASSUME ChatInit PROVE ChatIInv
<1>1. items = <<>> /\ DOMAIN items = {} /\ phase = "idle" /\ delivered = FALSE
  BY DEF ChatInit
<1>2. quiet \in BOOLEAN /\ delivered \in BOOLEAN
  BY DEF ChatInit
<1>3. /\ turn \in 0 .. MaxTurns /\ answer \in 0 .. MaxAnswers /\ chunks \in 0 .. MaxChunks
      /\ notices \in 0 .. MaxNotices /\ clears \in 0 .. MaxClears
  BY ChatAssumption DEF ChatInit
<1>4. ChatShape
  BY <1>1, <1>2, <1>3 DEF ChatShape
<1>5. NothingAhead /\ LastIsReply /\ NoneOpen /\ ReplyShown
  BY <1>1 DEF NothingAhead, LastIsReply, NoneOpen, ReplyShown
<1>6. QED
  BY <1>4, <1>5 DEF ChatIInv

LEMMA ChatStep == ASSUME ChatIInv, [ChatNext]_chatVars PROVE ChatIInv'
<1>1. CASE UNCHANGED chatVars
  <2>1. ChatShape' /\ NothingAhead'
    BY <1>1 DEF chatVars, ChatIInv, ChatShape, NothingAhead, Current
  <2>2. LastIsReply' /\ NoneOpen' /\ ReplyShown'
    BY <1>1 DEF chatVars, ChatIInv, LastIsReply, NoneOpen, ReplyShown, Shown, Current, Last, Reply
  <2>3. QED
    BY <2>1, <2>2 DEF ChatIInv
<1>2. QED
  BY <1>1, BeginInv, DeltaInv, ToolStartsInv, ToolEndsInv, AgentEndsInv, SendInv, TurnFailsInv,
     NoticeInv, ClearInv
  DEF ChatNext

\* A reply that was sent is shown whole, and once if nothing came between its deltas and the
\* sending, for any number of turns, answers, deltas, notices and clearings (tuiChannel,
\* append_delta, finalize_streaming).
THEOREM RepliesAreShown == ChatSpec => []ChatInv
<1>1. ChatIInv => ChatInv
  BY ChatTypes DEF ChatIInv, ChatInv
<1>2. QED
  BY <1>1, ChatInitInv, ChatStep, PTL DEF ChatSpec

\* The panel and the chat together (planEventToAction, channel.ts).
THEOREM ScreenIsTrue == ViewSpec => []ViewInv
BY PanelTrueToPlan, RepliesAreShown, PTL DEF ViewSpec, ViewInv
-----------------------------------------------------------------------------
(***************************************************************************)
(* The composer.                                                           *)
(***************************************************************************)
\* Nothing is doubled by an append, a split or a concatenation of queues without repetition.
LEMMA AppendOnce ==
  ASSUME NEW S, NEW s \in Seq(S), NEW x \in S, Once(s), x \notin Range(s)
  PROVE  /\ Append(s, x) \in Seq(S) /\ Once(Append(s, x))
         /\ Range(Append(s, x)) = Range(s) \cup {x}
<1> DEFINE a == Append(s, x)
<1>1. /\ a \in Seq(S) /\ DOMAIN s = 1 .. Len(s) /\ DOMAIN a = 1 .. Len(s) + 1 /\ Len(s) \in Nat
      /\ a[Len(s) + 1] = x /\ \A i \in DOMAIN s : a[i] = s[i]
  BY AppendProperties
<1> HIDE DEF a
<1>2. /\ \A i \in DOMAIN a : i \in DOMAIN s \/ i = Len(s) + 1
      /\ Len(s) + 1 \in DOMAIN a /\ DOMAIN s \subseteq DOMAIN a
  BY <1>1
<1>3. \A i \in DOMAIN s : s[i] # x
  BY DEF Range
<1>4. Once(a)
  BY <1>1, <1>2, <1>3 DEF Once
<1>5. Range(a) \subseteq Range(s) \cup {x}
  BY <1>1, <1>2 DEF Range
<1>6. Range(s) \cup {x} \subseteq Range(a)
  BY <1>1, <1>2 DEF Range
<1>7. QED
  BY <1>1, <1>4, <1>5, <1>6 DEF a

LEMMA SplitOnce ==
  ASSUME NEW S, NEW s \in Seq(S), NEW n \in 0 .. Len(s), Once(s)
  PROVE  LET a == SubSeq(s, 1, n)
             b == SubSeq(s, n + 1, Len(s))
         IN  /\ a \in Seq(S) /\ b \in Seq(S) /\ Once(a) /\ Once(b)
             /\ Range(a) \cup Range(b) = Range(s) /\ Range(a) \cap Range(b) = {}
<1> DEFINE a == SubSeq(s, 1, n)
           b == SubSeq(s, n + 1, Len(s))
<1>1. /\ a \in Seq(S) /\ DOMAIN a = 1 .. n /\ \A i \in 1 .. n : a[i] = s[i]
  BY SubSeqProperties
<1>2. /\ b \in Seq(S) /\ DOMAIN b = 1 .. Len(s) - n
      /\ \A i \in 1 .. Len(s) - n : b[i] = s[n + i]
  BY SubSeqProperties
<1>3. n \in Nat /\ Len(s) \in Nat /\ DOMAIN s = 1 .. Len(s)
  OBVIOUS
<1> HIDE DEF a, b
<1>4. \A i \in DOMAIN a : i \in DOMAIN s
  BY <1>1, <1>3
<1>5. \A i \in DOMAIN b : n + i \in DOMAIN s /\ n + i \notin DOMAIN a
  BY <1>1, <1>2, <1>3
<1>6. \A i \in DOMAIN s : i \in DOMAIN a \/ (i - n \in DOMAIN b /\ n + (i - n) = i)
  BY <1>1, <1>2, <1>3
<1>7. Once(a)
  BY <1>1, <1>4 DEF Once
<1>8. Once(b)
  <2>1. ASSUME NEW i \in DOMAIN b, NEW j \in DOMAIN b, b[i] = b[j] PROVE i = j
    <3>1. n + i = n + j
      BY <1>2, <1>5, <2>1 DEF Once
    <3>2. QED
      BY <1>2, <1>3, <2>1, <3>1
  <2>2. QED
    BY <2>1 DEF Once
<1>9. Range(a) \cap Range(b) = {}
  <2>1. ASSUME NEW i \in DOMAIN a, NEW j \in DOMAIN b, a[i] = b[j] PROVE FALSE
    <3>1. s[i] = s[n + j]
      BY <1>1, <1>2, <2>1
    <3>2. i = n + j
      BY <1>4, <1>5, <2>1, <3>1 DEF Once
    <3>3. QED
      BY <1>5, <2>1, <3>2
  <2>2. QED
    BY <2>1 DEF Range
<1>10. Range(a) \subseteq Range(s) /\ Range(b) \subseteq Range(s)
  BY <1>1, <1>2, <1>4, <1>5 DEF Range
<1>11. Range(s) \subseteq Range(a) \cup Range(b)
  <2>1. ASSUME NEW i \in DOMAIN s PROVE s[i] \in Range(a) \cup Range(b)
    <3>1. CASE i \in DOMAIN a
      BY <1>1, <3>1 DEF Range
    <3>2. CASE i - n \in DOMAIN b /\ n + (i - n) = i
      BY <1>2, <3>2 DEF Range
    <3>3. QED
      BY <1>6, <3>1, <3>2
  <2>2. QED
    BY <2>1 DEF Range
<1>12. QED
  BY <1>1, <1>2, <1>7, <1>8, <1>9, <1>10, <1>11 DEF a, b

LEMMA ConcatOnce ==
  ASSUME NEW S, NEW s \in Seq(S), NEW t \in Seq(S), Once(s), Once(t), Range(s) \cap Range(t) = {}
  PROVE  s \o t \in Seq(S) /\ Once(s \o t) /\ Range(s \o t) = Range(s) \cup Range(t)
<1> DEFINE c == s \o t
           n == Len(s)
<1>1. /\ c \in Seq(S) /\ DOMAIN c = 1 .. n + Len(t) /\ n \in Nat /\ Len(t) \in Nat
      /\ DOMAIN s = 1 .. n /\ DOMAIN t = 1 .. Len(t)
      /\ \A i \in 1 .. n + Len(t) : c[i] = IF i <= n THEN s[i] ELSE t[i - n]
  BY ConcatProperties
<1> HIDE DEF c, n
<1>2. \A i \in DOMAIN c : \/ i \in DOMAIN s /\ c[i] = s[i]
                          \/ i - n \in DOMAIN t /\ c[i] = t[i - n] /\ i > n
  BY <1>1
<1>3. \A i \in DOMAIN s : i \in DOMAIN c /\ c[i] = s[i]
  BY <1>1
<1>4. \A i \in DOMAIN t : i + n \in DOMAIN c /\ c[i + n] = t[i]
  BY <1>1
<1>5. \A i \in DOMAIN s, j \in DOMAIN t : s[i] # t[j]
  BY DEF Range
<1>6. ASSUME NEW i \in DOMAIN c, NEW j \in DOMAIN c, c[i] = c[j] PROVE i = j
  <2>1. i \in Nat /\ j \in Nat
    BY <1>1
  <2>2. CASE i \in DOMAIN s /\ c[i] = s[i] /\ j \in DOMAIN s /\ c[j] = s[j]
    BY <1>6, <2>2 DEF Once
  <2>3. CASE /\ i - n \in DOMAIN t /\ c[i] = t[i - n]
             /\ j - n \in DOMAIN t /\ c[j] = t[j - n]
    <3>1. i - n = j - n
      BY <1>6, <2>3 DEF Once
    <3>2. QED
      BY <1>1, <2>1, <3>1
  <2>4. QED
    BY <1>2, <1>5, <1>6, <2>2, <2>3
<1>7. Once(c)
  BY <1>6 DEF Once
<1>8. Range(c) \subseteq Range(s) \cup Range(t)
  BY <1>2 DEF Range
<1>9. Range(s) \cup Range(t) \subseteq Range(c)
  BY <1>3, <1>4 DEF Range
<1>10. QED
  BY <1>1, <1>7, <1>8, <1>9 DEF c
ComposerShape ==
  /\ busy \in BOOLEAN /\ confirm \in BOOLEAN /\ quit \in BOOLEAN /\ muddled \in BOOLEAN
  /\ pending \in Seq(Messages) /\ deferred \in Seq(Messages)
  /\ lane \in Seq(Messages) /\ sent \in Seq(Messages)
  /\ expanding \subseteq Messages /\ dropped \subseteq Messages
  /\ typed \in 0 .. MaxTyped /\ aborts \in 0 .. MaxAborts /\ plans \in 0 .. MaxPlans
  /\ planning \in 0 .. plans

\* BusyWhileWorking at every step, the microtasks' included.
BusyMeansWork ==
  ~muddled =>
    /\ busy = (lane # <<>> \/ expanding # {} \/ planning > 0)
    /\ Len(lane) + Cardinality(expanding) <= 1

ComposerIInv == ComposerShape /\ NoMessageLost /\ BusyMeansWork

\* Message m is in hand, tasks are deferred.
InHand(m, tasks, n) ==
  /\ 1 .. n = Range(pending) \cup Range(tasks) \cup Range(sent) \cup dropped \cup {m}
  /\ m \notin Range(pending) \cup Range(tasks) \cup Range(sent) \cup dropped
  /\ Range(pending) \cap Range(tasks) = {}
  /\ (Range(pending) \cup Range(tasks)) \cap Range(sent) = {}
  /\ (Range(pending) \cup Range(tasks) \cup Range(sent)) \cap dropped = {}
  /\ Once(pending) /\ Once(tasks) /\ Once(sent)

LEMMA EmptyQueue == Range(<<>>) = {} /\ Once(<<>>)
BY DEF Range, Once

LEMMA LesserIs ==
  ASSUME NEW k \in Nat, NEW s \in Seq(Messages)
  PROVE  Lesser(k, Len(s)) \in 0 .. Len(s)
BY DEF Lesser

LEMMA QueueKeeps ==
  ASSUME ComposerShape, NEW m \in Messages, NEW tasks \in Seq(Messages), NEW n \in 0 .. MaxTyped,
         InHand(m, tasks, n), Queue(m), deferred' = tasks, typed' = n, dropped' = dropped
  PROVE  /\ pending' \in Seq(Messages) /\ deferred' \in Seq(Messages) /\ sent' \in Seq(Messages)
         /\ NoMessageLost'
<1>1. pending' = Append(pending, m) /\ sent' = sent
  BY DEF Queue
<1>2. /\ pending' \in Seq(Messages) /\ Once(pending') /\ Range(pending') = Range(pending) \cup {m}
  BY <1>1, AppendOnce DEF InHand, ComposerShape
<1>3. Range(deferred') = Range(tasks) /\ Once(deferred') /\ Range(sent') = Range(sent) /\ Once(sent')
  BY <1>1 DEF InHand
<1>4. NoMessageLost'
  BY <1>2, <1>3 DEF InHand, NoMessageLost
<1>5. QED
  BY <1>1, <1>2, <1>4 DEF ComposerShape

LEMMA SubmitKeeps ==
  ASSUME ComposerShape, NEW m \in Messages, NEW tasks \in Seq(Messages), NEW n \in 0 .. MaxTyped,
         InHand(m, tasks, n), Submit(m, tasks), typed' = n, dropped' = dropped
  PROVE  /\ pending' \in Seq(Messages) /\ deferred' \in Seq(Messages) /\ sent' \in Seq(Messages)
         /\ NoMessageLost'
<1> DEFINE k == Lesser(2, Len(pending))
           a == SubSeq(pending, 1, k)
<1>1. pending' = Shifted(pending, k) /\ deferred' = tasks \o a /\ sent' = Append(sent, m)
  BY DEF Submit
<1>2. pending \in Seq(Messages) /\ sent \in Seq(Messages) /\ k \in 0 .. Len(pending)
  BY LesserIs DEF ComposerShape
<1>3. /\ sent' \in Seq(Messages) /\ Once(sent') /\ Range(sent') = Range(sent) \cup {m}
  BY <1>1, <1>2, AppendOnce DEF InHand
<1>4. /\ a \in Seq(Messages) /\ pending' \in Seq(Messages) /\ Once(a) /\ Once(pending')
      /\ Range(a) \cup Range(pending') = Range(pending) /\ Range(a) \cap Range(pending') = {}
  BY <1>1, <1>2, SplitOnce DEF InHand, Shifted
<1> HIDE DEF a
<1>5. Range(tasks) \cap Range(a) = {} /\ Once(tasks)
  BY <1>4 DEF InHand
<1>6. /\ deferred' \in Seq(Messages) /\ Once(deferred') /\ Range(deferred') = Range(tasks) \cup Range(a)
  BY <1>1, <1>4, <1>5, ConcatOnce
<1>7. NoMessageLost'
  BY <1>3, <1>4, <1>6 DEF InHand, NoMessageLost
<1>8. QED
  BY <1>3, <1>4, <1>6, <1>7

LEMMA DispatchedKeeps ==
  ASSUME ComposerShape, NoMessageLost, NEW k \in Nat, Dispatched(k), UNCHANGED <<sent, dropped, typed>>
  PROVE  /\ pending' \in Seq(Messages) /\ deferred' \in Seq(Messages)
         /\ NoMessageLost'
<1> DEFINE n == Lesser(k, Len(pending))
           a == SubSeq(pending, 1, n)
<1>1. pending' = Shifted(pending, n) /\ deferred' = deferred \o a
  BY DEF Dispatched
<1>2. pending \in Seq(Messages) /\ deferred \in Seq(Messages) /\ n \in 0 .. Len(pending)
  BY LesserIs DEF ComposerShape
<1>3. /\ a \in Seq(Messages) /\ pending' \in Seq(Messages) /\ Once(a) /\ Once(pending')
      /\ Range(a) \cup Range(pending') = Range(pending) /\ Range(a) \cap Range(pending') = {}
  BY <1>1, <1>2, SplitOnce DEF NoMessageLost, Shifted
<1> HIDE DEF a
<1>4. Range(deferred) \cap Range(a) = {} /\ Once(deferred)
  BY <1>3 DEF NoMessageLost
<1>5. /\ deferred' \in Seq(Messages) /\ Once(deferred')
      /\ Range(deferred') = Range(deferred) \cup Range(a)
  BY <1>1, <1>2, <1>3, <1>4, ConcatOnce
<1>6. NoMessageLost'
  BY <1>3, <1>5 DEF NoMessageLost
<1>7. QED
  BY <1>3, <1>5, <1>6

LEMMA AbortKeeps ==
  ASSUME ComposerShape, NoMessageLost, AbortTurn
  PROVE  /\ pending' \in Seq(Messages) /\ deferred' \in Seq(Messages) /\ dropped' \subseteq Messages
         /\ NoMessageLost'
<1> DEFINE n == Lesser(1, Len(pending))
           a == SubSeq(pending, 1, n)
           b == SubSeq(pending, n + 1, Len(pending))
<1>1. /\ pending' = <<>> /\ deferred' = a /\ UNCHANGED <<sent, typed>> /\ deferred = <<>>
      /\ dropped' = dropped \cup {pending[i] : i \in 2 .. Len(pending)}
  BY DEF AbortTurn, Quiet
<1>2. pending \in Seq(Messages) /\ n \in 0 .. Len(pending) /\ Len(pending) \in Nat
  BY LesserIs DEF ComposerShape
<1>3. /\ a \in Seq(Messages) /\ Once(a)
      /\ Range(a) \cup Range(b) = Range(pending) /\ Range(a) \cap Range(b) = {}
  BY <1>2, SplitOnce DEF NoMessageLost
<1>4. {pending[i] : i \in 2 .. Len(pending)} = Range(b)
  <2>1. DOMAIN b = 1 .. Len(pending) - n /\ \A i \in 1 .. Len(pending) - n : b[i] = pending[n + i]
    BY <1>2, SubSeqProperties
  <2> HIDE DEF b
  <2>2. CASE Len(pending) = 0
    BY <1>2, <2>1, <2>2 DEF Range
  <2>3. CASE Len(pending) > 0
    <3>1. n = 1
      BY <1>2, <2>3 DEF Lesser
    <3>2. \A i \in 2 .. Len(pending) : i - 1 \in DOMAIN b /\ b[i - 1] = pending[i]
      BY <1>2, <2>1, <3>1
    <3>3. \A i \in DOMAIN b : i + 1 \in 2 .. Len(pending) /\ b[i] = pending[i + 1]
      BY <1>2, <2>1, <3>1
    <3>4. QED
      BY <3>2, <3>3 DEF Range
  <2>4. QED
    BY <1>2, <2>2, <2>3
<1>5. Range(pending) \subseteq Messages
  BY <1>2 DEF Range
<1>6. Range(pending') = {} /\ Once(pending') /\ Range(deferred) = {} /\ pending' \in Seq(Messages)
  BY <1>1, EmptyQueue
<1> HIDE DEF a, b
<1>7. NoMessageLost'
  BY <1>1, <1>3, <1>4, <1>6 DEF NoMessageLost
<1>8. QED
  BY <1>1, <1>3, <1>4, <1>5, <1>6, <1>7 DEF ComposerShape
LEMMA Expanding ==
  ASSUME ComposerShape
  PROVE  /\ IsFiniteSet(expanding) /\ Cardinality(expanding) \in Nat
         /\ Cardinality(expanding) = 0 <=> expanding = {}
         /\ Len(lane) \in Nat /\ (Len(lane) = 0 <=> lane = <<>>)
<1>1. expanding \subseteq 1 .. MaxTyped /\ MaxTyped \in Int
  BY ComposerAssumption DEF ComposerShape, Messages
<1>2. IsFiniteSet(expanding)
  <2>1. IsFiniteSet(1 .. MaxTyped)
    BY <1>1, FS_Interval
  <2>2. QED
    BY <1>1, <2>1, FS_Subset
<1>3. lane \in Seq(Messages)
  BY DEF ComposerShape
<1>4. QED
  BY <1>2, <1>3, FS_CardinalityType, FS_EmptySet, EmptySeq

\* Busy is raised where nothing goes on.
LEMMA RaisedInv ==
  ASSUME ComposerIInv, NEW m \in Messages, NEW tasks, Submit(m, tasks),
         UNCHANGED <<lane, planning, muddled>>
  PROVE  BusyMeansWork'
<1>1. ~busy /\ busy' = TRUE /\ expanding' = expanding \cup {m}
  BY DEF Submit, Raised
<1>2. ASSUME ~muddled PROVE Len(lane) = 0 /\ expanding' = {m}
  BY <1>1, <1>2, Expanding DEF ComposerIInv, BusyMeansWork
<1>3. Cardinality({m}) = 1
  BY FS_Singleton
<1>4. ASSUME ~muddled' PROVE Len(lane') + Cardinality(expanding') <= 1 /\ expanding' # {}
  <2>1. Len(lane') = 0 /\ expanding' = {m}
    BY <1>2, <1>4
  <2>2. QED
    BY <1>3, <2>1
<1>5. QED
  BY <1>1, <1>4 DEF BusyMeansWork

LEMMA QueuedInv ==
  ASSUME ComposerIInv, NEW m, Queue(m), UNCHANGED <<lane, planning, muddled>>
  PROVE  BusyMeansWork'
BY DEF ComposerIInv, BusyMeansWork, Queue

LEMMA TypeInv == ASSUME ComposerIInv, Type PROVE ComposerIInv'
<1> USE DEF ComposerIInv
<1>1. /\ deferred = <<>> /\ ~quit /\ typed < MaxTyped /\ typed' = typed + 1
      /\ UNCHANGED <<lane, planning, confirm, quit, dropped, aborts, plans, muddled>>
  BY DEF Type, Quiet
<1>2. /\ typed' \in Messages /\ typed' \in 0 .. MaxTyped /\ typed \in Nat
      /\ 1 .. typed' = 1 .. typed \cup {typed'} /\ typed' \notin 1 .. typed
  BY <1>1, ComposerAssumption DEF ComposerShape, Messages
<1>3. InHand(typed', <<>>, typed')
  BY <1>1, <1>2, EmptyQueue DEF NoMessageLost, InHand
<1>4. <<>> \in Seq(Messages)
  OBVIOUS
<1>5. CASE Queue(typed') /\ UNCHANGED deferred
  <2>1. /\ pending' \in Seq(Messages) /\ deferred' \in Seq(Messages) /\ sent' \in Seq(Messages)
        /\ NoMessageLost'
    BY <1>1, <1>2, <1>3, <1>4, <1>5, QueueKeeps
  <2>2. ComposerShape'
    BY <1>1, <1>2, <1>5, <2>1 DEF ComposerShape, Queue
  <2>3. QED
    BY <1>1, <1>5, <2>1, <2>2, QueuedInv
<1>6. CASE Submit(typed', <<>>)
  <2>1. /\ pending' \in Seq(Messages) /\ deferred' \in Seq(Messages) /\ sent' \in Seq(Messages)
        /\ NoMessageLost'
    BY <1>1, <1>2, <1>3, <1>4, <1>6, SubmitKeeps
  <2>2. busy' = TRUE /\ expanding' \subseteq Messages
    BY <1>2, <1>6 DEF ComposerShape, Submit, Raised
  <2>3. ComposerShape'
    BY <1>1, <1>2, <2>1, <2>2 DEF ComposerShape
  <2>4. QED
    BY <1>1, <1>2, <1>6, <2>1, <2>3, RaisedInv
<1>7. QED
  BY <1>5, <1>6 DEF Type

LEMMA MicrotaskInv == ASSUME ComposerIInv, Microtask PROVE ComposerIInv'
<1> DEFINE m == Head(deferred)
           tasks == Tail(deferred)
<1> USE DEF ComposerIInv
<1>1. /\ deferred # <<>> /\ deferred \in Seq(Messages) /\ typed \in 0 .. MaxTyped
      /\ UNCHANGED <<lane, planning, confirm, quit, typed, dropped, aborts, plans, muddled>>
  BY DEF Microtask, ComposerShape
<1>2. m \in Messages /\ tasks \in Seq(Messages)
  BY <1>1, HeadTailProperties
<1>3. InHand(m, tasks, typed)
  <2>1. Len(deferred) \in Nat /\ Len(deferred) > 0 /\ 1 \in 0 .. Len(deferred)
    BY <1>1, EmptySeq
  <2> DEFINE a == SubSeq(deferred, 1, 1)
             b == SubSeq(deferred, 1 + 1, Len(deferred))
  <2>2. tasks = b
    BY <1>1, <2>1
  <2>3. Range(a) = {m}
    <3>1. DOMAIN a = 1 .. 1 /\ a[1] = deferred[1] /\ m = deferred[1]
      BY <1>1, <2>1, SubSeqProperties, HeadTailProperties
    <3> HIDE DEF a, m
    <3>2. QED
      BY <3>1 DEF Range
  <2>4. /\ Once(tasks) /\ {m} \cup Range(tasks) = Range(deferred) /\ {m} \cap Range(tasks) = {}
    <3>1. Once(b) /\ Range(a) \cup Range(b) = Range(deferred) /\ Range(a) \cap Range(b) = {}
      <4>1. Once(deferred)
        BY DEF NoMessageLost
      <4>2. \A k \in 0 .. Len(deferred) :
              LET p == SubSeq(deferred, 1, k)
                  q == SubSeq(deferred, k + 1, Len(deferred))
              IN  Once(q) /\ Range(p) \cup Range(q) = Range(deferred) /\ Range(p) \cap Range(q) = {}
        BY <1>1, <4>1, SplitOnce
      <4>3. QED
        BY <2>1, <4>2
    <3> HIDE DEF a, b, tasks, m
    <3>2. QED
      BY <2>2, <2>3, <3>1
  <2>5. QED
    BY <2>4 DEF InHand, NoMessageLost
<1>4. CASE Queue(m) /\ deferred' = tasks
  <2>1. /\ pending' \in Seq(Messages) /\ deferred' \in Seq(Messages) /\ sent' \in Seq(Messages)
        /\ NoMessageLost'
    BY <1>1, <1>2, <1>3, <1>4, QueueKeeps
  <2>2. ComposerShape'
    BY <1>1, <1>4, <2>1 DEF ComposerShape, Queue
  <2>3. QED
    BY <1>1, <1>4, <2>1, <2>2, QueuedInv
<1>5. CASE Submit(m, tasks)
  <2>1. /\ pending' \in Seq(Messages) /\ deferred' \in Seq(Messages) /\ sent' \in Seq(Messages)
        /\ NoMessageLost'
    BY <1>1, <1>2, <1>3, <1>5, SubmitKeeps
  <2>2. busy' = TRUE /\ expanding' \subseteq Messages
    BY <1>2, <1>5 DEF ComposerShape, Submit, Raised
  <2>3. ComposerShape'
    BY <1>1, <2>1, <2>2 DEF ComposerShape
  <2>4. QED
    BY <1>1, <1>2, <1>5, <2>1, <2>3, RaisedInv
<1>6. QED
  BY <1>4, <1>5 DEF Microtask

LEMMA ExpandedInv == ASSUME ComposerIInv, NEW m \in Messages, Expanded(m) PROVE ComposerIInv'
<1> USE DEF ComposerIInv
<1>1. /\ m \in expanding /\ expanding' = expanding \ {m} /\ lane' = Append(lane, m)
      /\ UNCHANGED <<busy, pending, deferred, planning, confirm, quit, typed, sent, dropped,
                     aborts, plans, muddled>>
  BY DEF Expanded
<1>2. /\ lane' \in Seq(Messages) /\ Len(lane') = Len(lane) + 1 /\ lane' # <<>> /\ Len(lane) \in Nat
  BY <1>1, AppendProperties DEF ComposerShape
<1>3. Cardinality(expanding') = Cardinality(expanding) - 1 /\ Cardinality(expanding) \in Nat
  BY <1>1, Expanding, FS_RemoveElement
<1>4. ComposerShape' /\ NoMessageLost'
  BY <1>1, <1>2 DEF ComposerShape, NoMessageLost
<1>5. ~muddled => busy = TRUE
  BY <1>1 DEF BusyMeansWork
<1>6. ~muddled => Len(lane') + Cardinality(expanding') <= 1
  BY <1>1, <1>2, <1>3 DEF BusyMeansWork
<1>7. BusyMeansWork'
  BY <1>1, <1>2, <1>5, <1>6 DEF BusyMeansWork
<1>8. QED
  BY <1>4, <1>7

LEMMA OverInv == ASSUME ComposerIInv, TurnOver \/ PlanOver PROVE ComposerIInv'
<1> USE DEF ComposerIInv
<1>1. /\ busy' = FALSE /\ Dispatched(2)
      /\ UNCHANGED <<expanding, confirm, quit, typed, sent, dropped, aborts, plans>>
  BY DEF TurnOver, PlanOver
<1>2. pending' \in Seq(Messages) /\ deferred' \in Seq(Messages) /\ NoMessageLost'
  BY <1>1, DispatchedKeeps
<1>3. CASE TurnOver
  <2>1. /\ lane # <<>> /\ lane' = Tail(lane) /\ muddled' = (muddled \/ planning > 0)
        /\ planning' = planning /\ lane \in Seq(Messages)
    BY <1>3 DEF TurnOver, ComposerShape
  <2>2. lane' \in Seq(Messages) /\ Len(lane') = Len(lane) - 1 /\ Len(lane) > 0
    BY <2>1, HeadTailProperties, EmptySeq
  <2>3. muddled' \in BOOLEAN
    BY <2>1
  <2>4. ComposerShape'
    BY <1>1, <1>2, <2>1, <2>2, <2>3 DEF ComposerShape
  <2>5. ASSUME ~muddled' PROVE lane' = <<>> /\ expanding = {} /\ ~(planning > 0)
    <3>1. ~muddled /\ ~(planning > 0)
      BY <2>1, <2>5
    <3>2. Len(lane) + Cardinality(expanding) <= 1
      BY <3>1 DEF BusyMeansWork
    <3>3. Len(lane) = 1 /\ Cardinality(expanding) = 0
      BY <2>2, <3>2, Expanding
    <3>4. Len(lane') = 0
      BY <2>2, <3>3
    <3>5. QED
      BY <2>2, <3>1, <3>3, <3>4, Expanding, EmptySeq
  <2>6. Len(<<>>) + Cardinality({}) <= 1
    BY FS_EmptySet
  <2>7. BusyMeansWork'
    BY <1>1, <2>1, <2>5, <2>6 DEF BusyMeansWork
  <2>8. QED
    BY <1>2, <2>4, <2>7
<1>4. CASE PlanOver
  <2>1. /\ planning > 0 /\ planning' = planning - 1 /\ lane' = lane
        /\ muddled' = (muddled \/ lane # <<>> \/ expanding # {} \/ planning > 1)
    BY <1>4 DEF PlanOver
  <2>2. muddled' \in BOOLEAN
    BY <2>1
  <2>3. planning \in Nat /\ planning' \in 0 .. plans
    BY <2>1, ComposerAssumption DEF ComposerShape
  <2>4. ComposerShape'
    BY <1>1, <1>2, <2>1, <2>2, <2>3 DEF ComposerShape
  <2>5. ASSUME ~muddled' PROVE lane' = <<>> /\ expanding = {} /\ ~(planning' > 0)
    <3>1. lane = <<>> /\ expanding = {} /\ ~(planning > 1)
      BY <2>1, <2>5
    <3>2. QED
      BY <2>1, <2>3, <3>1
  <2>6. Len(<<>>) + Cardinality({}) <= 1
    BY FS_EmptySet
  <2>7. BusyMeansWork'
    BY <1>1, <2>5, <2>6 DEF BusyMeansWork
  <2>8. QED
    BY <1>2, <2>4, <2>7
<1>5. QED
  BY <1>3, <1>4

\* Keys, timers and events, which start and end nothing, and a plan that begins.
LEMMA OtherInv ==
  ASSUME ComposerIInv, AskToQuit \/ ConfirmExpires \/ AgentEvent \/ AbortTurn \/ PlanCommand
  PROVE  ComposerIInv'
<1> USE DEF ComposerIInv
<1>1. CASE AskToQuit \/ ConfirmExpires \/ AgentEvent
  <2>1. /\ UNCHANGED <<busy, expanding, lane, planning, typed, sent, dropped, plans, muddled>>
        /\ \/ Dispatched(2) \/ Dispatched(1) \/ UNCHANGED <<pending, deferred>>
    BY <1>1 DEF AskToQuit, ConfirmExpires, AgentEvent
  <2>2. /\ pending' \in Seq(Messages) /\ deferred' \in Seq(Messages) /\ NoMessageLost'
    <3>1. CASE UNCHANGED <<pending, deferred>>
      BY <2>1, <3>1 DEF ComposerShape, NoMessageLost
    <3>2. QED
      BY <2>1, <3>1, DispatchedKeeps
  <2>3. aborts' \in 0 .. MaxAborts
    BY <1>1, ComposerAssumption DEF AskToQuit, ConfirmExpires, AgentEvent, ComposerShape
  <2>4. confirm' \in BOOLEAN /\ quit' \in BOOLEAN
    BY <1>1 DEF AskToQuit, ConfirmExpires, AgentEvent, ComposerShape
  <2>5. ComposerShape'
    BY <2>1, <2>2, <2>3, <2>4 DEF ComposerShape
  <2>6. BusyMeansWork'
    BY <2>1 DEF BusyMeansWork
  <2>7. QED
    BY <2>2, <2>5, <2>6
<1>2. CASE AbortTurn
  <2>1. /\ busy' = FALSE /\ muddled' = TRUE /\ aborts < MaxAborts /\ aborts' = aborts + 1
        /\ UNCHANGED <<expanding, lane, planning, confirm, quit, typed, sent, plans>>
    BY <1>2 DEF AbortTurn
  <2>2. aborts' \in 0 .. MaxAborts
    BY <2>1, ComposerAssumption DEF ComposerShape
  <2>3. ComposerShape' /\ NoMessageLost'
    BY <1>2, <2>1, <2>2, AbortKeeps DEF ComposerShape
  <2>4. QED
    BY <2>1, <2>3 DEF BusyMeansWork
<1>3. CASE PlanCommand
  <2>1. /\ plans < MaxPlans /\ plans' = plans + 1 /\ planning' = planning + 1 /\ busy' = TRUE
        /\ UNCHANGED <<pending, deferred, expanding, lane, confirm, quit, typed, sent, dropped,
                       aborts, muddled>>
    BY <1>3 DEF PlanCommand
  <2>2. plans' \in 0 .. MaxPlans /\ planning' \in 0 .. plans' /\ planning' > 0
    BY <2>1, ComposerAssumption DEF ComposerShape
  <2>3. ComposerShape' /\ NoMessageLost'
    BY <2>1, <2>2 DEF ComposerShape, NoMessageLost
  <2>4. BusyMeansWork'
    BY <2>1, <2>2 DEF BusyMeansWork
  <2>5. QED
    BY <2>3, <2>4
<1>4. QED
  BY <1>1, <1>2, <1>3

LEMMA ComposerInitInv == ASSUME ComposerInit PROVE ComposerIInv
<1>1. /\ pending = <<>> /\ deferred = <<>> /\ sent = <<>> /\ lane = <<>> /\ expanding = {}
      /\ dropped = {} /\ typed = 0 /\ aborts = 0 /\ plans = 0 /\ planning = 0
      /\ busy = FALSE /\ confirm = FALSE /\ quit = FALSE /\ muddled = FALSE
  BY DEF ComposerInit
<1>2. typed \in 0 .. MaxTyped /\ aborts \in 0 .. MaxAborts /\ plans \in 0 .. MaxPlans /\ planning \in 0 .. plans
  BY <1>1, ComposerAssumption
<1>3. ComposerShape
  <2>1. busy \in BOOLEAN /\ confirm \in BOOLEAN /\ quit \in BOOLEAN /\ muddled \in BOOLEAN
    BY <1>1
  <2>2. /\ pending \in Seq(Messages) /\ deferred \in Seq(Messages) /\ lane \in Seq(Messages)
        /\ sent \in Seq(Messages) /\ expanding \subseteq Messages /\ dropped \subseteq Messages
    BY <1>1
  <2>3. QED
    BY <1>2, <2>1, <2>2 DEF ComposerShape
<1>4. 1 .. typed = {}
  BY <1>1
<1>5. NoMessageLost
  BY <1>1, <1>4, EmptyQueue DEF NoMessageLost
<1>6. Len(<<>>) + Cardinality({}) <= 1
  BY FS_EmptySet
<1>7. BusyMeansWork
  <2>1. ~(lane # <<>> \/ expanding # {} \/ planning > 0)
    BY <1>1
  <2>2. QED
    BY <1>1, <1>6, <2>1 DEF BusyMeansWork
<1>8. QED
  BY <1>3, <1>5, <1>7 DEF ComposerIInv

LEMMA ComposerStep == ASSUME ComposerIInv, [ComposerNext]_composerVars PROVE ComposerIInv'
<1>1. CASE UNCHANGED composerVars
  BY <1>1 DEF composerVars, ComposerIInv, ComposerShape, NoMessageLost, BusyMeansWork
<1>2. QED
  BY <1>1, TypeInv, MicrotaskInv, ExpandedInv, OverInv, OtherInv DEF ComposerNext

\* No typed message is lost or sent twice, and the app is busy exactly while something goes
\* on, until an abort or a plan lets go of busy early, for any number of messages, aborts
\* and plans (submitUserInput, the render trigger, handleAbort, submitMessage).
THEOREM NoTypedMessageIsLost == ComposerSpec => []ComposerInv
<1>1. ComposerIInv => ComposerInv
  <2>1. ASSUME ComposerIInv PROVE planning \in 0 .. MaxPlans
    BY <2>1, ComposerAssumption DEF ComposerIInv, ComposerShape
  <2>2. ASSUME ComposerIInv PROVE ComposerTypeOK /\ NoMessageLost /\ BusyWhileWorking
    BY <2>1, <2>2 DEF ComposerIInv, ComposerShape, ComposerTypeOK, BusyMeansWork, BusyWhileWorking
  <2>3. QED
    BY <2>2 DEF ComposerInv
<1>2. QED
  BY <1>1, ComposerInitInv, ComposerStep, PTL DEF ComposerSpec
=============================================================================
