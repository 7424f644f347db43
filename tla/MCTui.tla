----------------------------------- MODULE MCTui -----------------------------------
(***************************************************************************)
(* The terminal user interface: what becomes of typed messages, the        *)
(* permission queue with the overlays, the plan panel, the chat area, the  *)
(* choice of a Session, and the start with its wizards.  The six share no  *)
(* state, so that interleaving their steps would add no behaviour of any:  *)
(* a run is of one of them, chosen by part.                                *)
(***************************************************************************)
EXTENDS Composer, Panels, Chat, SessionUse, Setup, TLC

CONSTANTS r1, r2, r3, p1, p2, pd, pw

VARIABLE part

\* Two calls of one tool and one of memory_write.
ToolOfDef == (r1 :> "bash") @@ (r2 :> "bash") @@ (r3 :> "memory_write")
GatedDef == {"memory_write"}

\* Two plans, with a step id in common.
StepsOfDef == (p1 :> {"a", "b"}) @@ (p2 :> {"a", "c"})

\* No file, one whose active profile has no key of its own while the other refers to
\* a variable, and one that makes no profile active.
ConfigFile(active, keyOfDefault, keyOfOther) ==
  [active |-> active, keys |-> (pd :> keyOfDefault) @@ (pw :> keyOfOther)]
InitialConfigsDef ==
  {NoFile, ConfigFile(pw, "reference", "unset"), ConfigFile(NoName, "variable", "absent")}

\* PHUS_PROFILE is not set, or names a profile; the variable with the key is set or not.
Environment(profile, set) == [profile |-> profile, set |-> set]
EnvironmentsDef ==
  {Environment(NoName, FALSE), Environment(pd, TRUE), Environment(pw, FALSE)}

tuiVars == <<composerVars, panelVars, planViewVars, chatVars, useVars, setupVars, part>>

TuiInit ==
  /\ part \in {"composer", "panels", "plans", "chat", "sessions", "setup"}
  /\ ComposerInit /\ PanelsInit /\ PlanViewInit /\ ChatInit /\ UseInit /\ SetupInit
  \* The parts that do not run start from one state only.
  /\ part # "sessions" => process = "tui" /\ roomStatus = [s \in Rooms |-> "none"]
  /\ part # "setup" => configFile = NoFile /\ environ = Environment(NoName, FALSE)

\* Only the part p moves.
Only(p) ==
  /\ part = p /\ UNCHANGED part
  /\ IF p = "composer" THEN TRUE ELSE UNCHANGED composerVars
  /\ IF p = "panels" THEN TRUE ELSE UNCHANGED panelVars
  /\ IF p = "plans" THEN TRUE ELSE UNCHANGED planViewVars
  /\ IF p = "chat" THEN TRUE ELSE UNCHANGED chatVars
  /\ IF p = "sessions" THEN TRUE ELSE UNCHANGED useVars
  /\ IF p = "setup" THEN TRUE ELSE UNCHANGED setupVars

TuiNext ==
  \/ Only("composer") /\ ComposerNext
  \/ Only("panels") /\ PanelsNext
  \/ Only("plans") /\ PlanViewNext
  \/ Only("chat") /\ ChatNext
  \/ Only("sessions") /\ UseNext
  \/ Only("setup") /\ SetupNext

\* The start goes on where it is the part that runs.
TuiSpec ==
  /\ TuiInit /\ [][TuiNext]_tuiVars
  /\ ComposerFairness /\ WF_setupVars(part = "setup" /\ Progress)
=============================================================================
