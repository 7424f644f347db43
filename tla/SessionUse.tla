--------------------------------- MODULE SessionUse ---------------------------------
(***************************************************************************)
(* Which Session a user's next message runs in: the commands that choose,  *)
(* close and reopen Sessions (packages/tui/src/handler/commands/session.ts *)
(* and the sidebar of App.ts), the message on its way (submit-message.ts), *)
(* the terminal's lines and `phus run` (channels/cli.ts), `phus resume`    *)
(* (commands/resume.ts), and the agent's choice of a Session for a turn    *)
(* (bridge/pi-agent.ts).                                                   *)
(*                                                                         *)
(* The catalog is shared by all processes of the home directory, any of    *)
(* which may close and reopen.  Other modules have the lanes in which the  *)
(* turns wait and the runtimes behind the Sessions.                        *)
(***************************************************************************)

CONSTANTS
  Rooms,      \* the Sessions
  Initial,    \* initialSessionId of the agent, which is the TUI's own
  Home,       \* the Session at the address of the terminal's lines
  NoRoom

ASSUME RoomAssumption == Initial \in Rooms /\ Home \in Rooms /\ NoRoom \notin Rooms

VARIABLES
  process,        \* what the process is: the TUI, the terminal's lines, a resumption
  started,        \* whether it takes messages yet
  roomStatus,     \* the status of each Session in the catalog
  selected_,      \* selectedSessionId of the registry
  explicit,       \* explicitSelection
  routed,         \* routedSelection
  addressed,      \* whose address the messages carry, if they do
  typedIn,        \* history: what was selected when the message on its way was typed
  switched,       \* history: whether the user has chosen a Session since then
  wasShut,        \* history: whether the selected Session was shut while it was selected
  lastTurn        \* history: where the latest turn ran, and why

useVars ==
  <<process, started, roomStatus, selected_, explicit, routed, addressed, typedIn, switched,
    wasShut, lastTurn>>

Shut == {"closed", "archived"}

NoTurn == [room |-> NoRoom, typedIn |-> NoRoom, switched |-> FALSE, status |-> "open",
           wasShut |-> FALSE]

\* ensure: a Session that is not in the catalog is created, open.
Ensured(s) ==
  IF roomStatus[s] = "none" THEN [roomStatus EXCEPT ![s] = "open"] ELSE roomStatus
-----------------------------------------------------------------------------
UseInit ==
  /\ process \in {"tui", "lines", "resume"}
  /\ started = FALSE
  /\ roomStatus \in [Rooms -> {"none", "open", "closed", "archived"}]
  \* The constructor of the agent selects without a question.
  /\ selected_ = Initial
  /\ explicit = FALSE /\ routed = FALSE
  /\ addressed = IF process = "tui" THEN NoRoom ELSE Home
  /\ typedIn = NoRoom /\ switched = FALSE /\ wasShut = FALSE
  /\ lastTurn = NoTurn

\* setSelected of the registry.
Select(s) == selected_' = s /\ wasShut' = (wasShut /\ s = selected_)

\* setNextSessionId.  The registry may fail to save the Session left, or to dispose of
\* another: done tells how far it gets.
setNextSessionId(s, done) ==
  /\ roomStatus[s] \notin Shut
  /\ roomStatus' = Ensured(s)
  /\ IF done = "nothing" THEN UNCHANGED <<selected_, wasShut>> ELSE Select(s)
  /\ explicit' = (explicit \/ done = "all")
  /\ switched' = (switched \/ typedIn # NoRoom)
  /\ UNCHANGED <<process, addressed, routed, typedIn, lastTurn>>

\* startTui: it begins with a Session of its own, or not at all.  The lines begin without.
StartProcess ==
  /\ ~started /\ process # "resume"
  /\ started' = TRUE
  /\ IF process = "tui" THEN setNextSessionId(Initial, "all")
     ELSE UNCHANGED <<process, roomStatus, selected_, explicit, routed, addressed, typedIn,
                      switched, wasShut, lastTurn>>

\* resumeSession: what is shut is refused, the rest is selected by restoreCheckpoint.  A
\* Session that is not in the catalog has no address, and the lines' is taken.
ResumeSession(s) ==
  /\ ~started /\ process = "resume" /\ roomStatus[s] \notin Shut
  /\ started' = TRUE
  /\ Select(s)
  /\ addressed' = IF roomStatus[s] = "none" THEN Home ELSE s
  /\ UNCHANGED <<process, roomStatus, explicit, routed, typedIn, switched, lastTurn>>

\* /use and the sidebar, which know the Sessions of the catalog; ,use and --session, which
\* take any name.
Use(s, done) ==
  /\ started /\ process # "resume"
  /\ process = "tui" => roomStatus[s] = "open"
  /\ setNextSessionId(s, done)
  /\ UNCHANGED started

\* /compact selects what is selected.
CompactSelected ==
  /\ started /\ process = "tui"
  /\ setNextSessionId(selected_, "all")
  /\ UNCHANGED started

\* updateStatus, by this process or another.
UpdateStatus(s, status) ==
  /\ roomStatus' = [roomStatus EXCEPT ![s] = status]
  /\ wasShut' = (wasShut \/ (s = selected_ /\ status \in Shut))
  /\ UNCHANGED <<process, started, selected_, explicit, routed, addressed, typedIn, switched,
                 lastTurn>>

CloseRoom(s) == roomStatus[s] = "open" /\ UpdateStatus(s, "closed")

\* /archive and the sidebar's archive, which does not look at the status.
ArchiveRoom(s) == roomStatus[s] # "none" /\ UpdateStatus(s, "archived")

ReopenRoom(s) == roomStatus[s] # "none" /\ UpdateStatus(s, "open")

\* /end: the selected Session is closed, whatever it was, and stays selected.
End ==
  /\ started /\ process = "tui" /\ roomStatus[selected_] # "none"
  /\ UpdateStatus(selected_, "closed")

\* A message: in the TUI, the files that it mentions are read first.
TypeMessage ==
  /\ started /\ typedIn = NoRoom
  /\ typedIn' = selected_ /\ switched' = FALSE
  /\ UNCHANGED <<process, started, roomStatus, selected_, explicit, routed, addressed,
                 wasShut, lastTurn>>

\* Mutant: the TUI's message names no Session, and the hook's answer is its own.
Unnamed == IF process = "tui" THEN Initial ELSE addressed

\* The Session of an envelope: the one that the TUI reads now, or that of the address.
Target == IF process = "tui" THEN selected_ ELSE addressed

\* turn throws for an address whose Session is shut.
Refused(s) == process # "tui" /\ roomStatus[s] \in Shut

\* turn up to the lane of the Session.  The first one selects its Session where nobody has
\* chosen one.
Turn_(s) ==
  /\ typedIn # NoRoom /\ s = Target
  /\ typedIn' = NoRoom /\ switched' = FALSE
  /\ IF Refused(s)
     THEN UNCHANGED <<roomStatus, selected_, routed, wasShut, lastTurn>>
     ELSE /\ roomStatus' = Ensured(s)
          /\ lastTurn' = [room |-> s, typedIn |-> typedIn, switched |-> switched,
                          status |-> roomStatus[s], wasShut |-> wasShut]
          /\ IF routed \/ explicit THEN UNCHANGED <<selected_, routed, wasShut>>
             ELSE routed' = TRUE /\ Select(s)
  /\ UNCHANGED <<process, started, explicit, addressed>>

UseNext ==
  \/ StartProcess \/ CompactSelected \/ End \/ TypeMessage
  \/ \E s \in Rooms :
       \/ ResumeSession(s) \/ CloseRoom(s) \/ ArchiveRoom(s) \/ ReopenRoom(s) \/ Turn_(s)
       \/ \E done \in {"all", "selection", "nothing"} : Use(s, done)

UseSpec == UseInit /\ [][UseNext]_useVars
-----------------------------------------------------------------------------
\* Every variable has its type.
UseTypeOK ==
  /\ process \in {"tui", "lines", "resume"} /\ started \in BOOLEAN
  /\ roomStatus \in [Rooms -> {"none", "open", "closed", "archived"}]
  /\ selected_ \in Rooms /\ addressed \in Rooms \cup {NoRoom}
  /\ {explicit, routed, switched, wasShut} \subseteq BOOLEAN
  /\ typedIn \in Rooms \cup {NoRoom}
  /\ lastTurn.room \in Rooms \cup {NoRoom}

\* A message of the TUI runs in the Session that was selected when it was typed, unless the
\* user chose another while its files were read (submitMessage and turn).
RunsWhereTyped ==
  process = "tui" /\ lastTurn.room # lastTurn.typedIn => lastTurn.switched

\* Nobody is moved into a Session that is shut: once one has been chosen, by whatever
\* command or by the first turn, it is shut only if that happened while it was selected
\* (setNextSessionId, turn and resumeSession).
ChosenOpen ==
  (explicit \/ routed \/ selected_ # Initial) /\ roomStatus[selected_] \in Shut => wasShut

\* A turn begins in a shut Session only in the TUI, and only in one that was shut while it
\* was selected (turn, /end and archive).
ShutRunsNothing == lastTurn.status \in Shut => process = "tui" /\ lastTurn.wasShut

\* A user's messages run where the user is, and nobody is put into a shut Session.
SessionUseInv == UseTypeOK /\ RunsWhereTyped /\ ChosenOpen /\ ShutRunsNothing
=============================================================================
