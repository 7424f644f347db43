---------------------------------- MODULE Panels ----------------------------------
(***************************************************************************)
(* The permission queue and the overlays of the TUI (permissionGate,       *)
(* rebuildDynamicChildren and the overlays of packages/tui/src/App.ts, the *)
(* permission actions of state/state.ts, PermissionPanel, ResumePrompt and *)
(* SessionsPanel).                                                         *)
(*                                                                         *)
(* A call of a dangerous tool waits until the user answers its request.    *)
(* Sub-agents of a plan ask side by side, so the queue holds several.  The *)
(* panel shows the request that was first when it was made; an answer goes *)
(* to the one that is first now.  Keys go to the component with the focus; *)
(* Ctrl+B, Ctrl+K and Ctrl+C come first, whatever has it.                  *)
(***************************************************************************)
EXTENDS Naturals, Sequences, FiniteSets, Functions

CONSTANTS
  Requests,   \* the calls of dangerous tools
  ToolOf,     \* the tool each of them calls
  Gated,      \* the tools an autonomy gate should decide about first: memory_write
  MaxNews,    \* bound: how often /new is run
  None

ASSUME PanelsAssumption ==
  /\ MaxNews \in Nat
  /\ None \notin Requests \cup {"allow", "deny", "error"}

VARIABLES
  queue,      \* permissionQueue
  verdicts,   \* what each request was answered
  always,     \* allowedTools
  session,    \* sessionAllowedTools
  shown,      \* the request of permissionChild
  palette,    \* paletteOpen
  sidebar,    \* sidebarOpen
  resume,     \* resumeChild is there
  focus,      \* the component with the focus
  asked,      \* history: the requests pushed, in order
  news        \* how often /new was run

panelVars == <<queue, verdicts, always, session, shown, palette, sidebar, resume,
               focus, asked, news>>

Overlays == {"palette", "sidebar", "resume"}

\* rebuildDynamicChildren, when the focus was moved to f just before: the panel is made for
\* the head of the queue and takes the focus, or is removed and gives it to the input.
Rebuilt(f) ==
  IF queue' # <<>> /\ ~palette' /\ ~sidebar'
  THEN IF shown = None
       THEN shown' = Head(queue') /\ focus' = "permission"
       ELSE shown' = shown /\ focus' = f
  ELSE shown' = None /\ focus' = IF shown = None THEN f ELSE "input"

\* closePalette, closeSidebar: the input takes the focus, then the children are rebuilt.
Closed(f) == Rebuilt(f)

\* Mutant: the answered request stays and the last one goes.
WithoutLast(s) == SubSeq(s, 1, Len(s) - 1)

\* resolve_permission: [first, ...rest].
Rest(s) == Tail(s)

-----------------------------------------------------------------------------
PanelsInit ==
  /\ queue = <<>> /\ asked = <<>> /\ news = 0
  /\ verdicts = [r \in Requests |-> None]
  /\ always = {} /\ session = {}
  /\ shown = None /\ palette = FALSE /\ sidebar = FALSE /\ resume = FALSE
  /\ focus = "input"

Push(r) ==
  /\ queue' = Append(queue, r)
  /\ asked' = Append(asked, r)
  /\ UNCHANGED <<palette, sidebar>>
  /\ Rebuilt(focus)

Fresh(r) == verdicts[r] = None /\ \A i \in DOMAIN asked : asked[i] # r

\* permissionGate: an earlier answer allows the call, or the request is pushed.  Of a call
\* of memory_write the gate parses the arguments where it should parse their action: it
\* throws, and the call fails.
Ask(r) ==
  /\ Fresh(r)
  /\ \/ /\ ToolOf[r] \in always \cup session
        /\ verdicts' = [verdicts EXCEPT ![r] = "allow"]
        /\ UNCHANGED <<queue, asked, shown, focus>>
     \/ /\ ToolOf[r] \in Gated \ (always \cup session)
        /\ verdicts' = [verdicts EXCEPT ![r] = "error"]
        /\ UNCHANGED <<queue, asked, shown, focus>>
     \/ /\ ToolOf[r] \notin Gated \cup always \cup session
        /\ Push(r)
        /\ UNCHANGED <<verdicts>>
  /\ UNCHANGED <<always, session, palette, sidebar, resume, news>>

\* A key of the panel: yes, no, for this session or always.
Answer(v, remember) ==
  /\ focus = "permission"
  /\ v = "deny" => remember = "once"
  /\ LET first == Head(queue)
     IN  /\ verdicts' = [verdicts EXCEPT ![first] = v]
         /\ always' = always \cup (IF remember = "always" THEN {ToolOf[first]} ELSE {})
         /\ session' = session \cup (IF remember = "session" THEN {ToolOf[first]} ELSE {})
  /\ queue' = Rest(queue)
  /\ UNCHANGED <<palette, sidebar>>
  /\ Rebuilt(focus)
  /\ UNCHANGED <<resume, asked, news>>

\* Ctrl+B, /subagent show and /subagent files.
OpenSidebar ==
  /\ ~sidebar
  /\ sidebar' = TRUE
  /\ UNCHANGED <<queue, palette>>
  /\ Rebuilt("sidebar")
  /\ UNCHANGED <<verdicts, always, session, resume, asked, news>>

CloseSidebar ==
  /\ sidebar' = FALSE
  /\ UNCHANGED <<queue, palette>>
  /\ Closed("input")
  /\ UNCHANGED <<verdicts, always, session, resume, asked, news>>

\* Ctrl+K, and again; a command that is picked closes the palette too.
OpenPalette ==
  /\ ~palette
  /\ palette' = TRUE
  /\ UNCHANGED <<queue, sidebar>>
  /\ Rebuilt("palette")
  /\ UNCHANGED <<verdicts, always, session, resume, asked, news>>

ClosePalette ==
  /\ palette
  /\ palette' = FALSE
  /\ UNCHANGED <<queue, sidebar>>
  /\ Closed("input")
  /\ UNCHANGED <<verdicts, always, session, resume, asked, news>>

\* /resume, typed in the input: nothing is rebuilt.
OpenResume ==
  /\ focus = "input" /\ ~resume
  /\ resume' = TRUE /\ focus' = "resume"
  /\ UNCHANGED <<queue, verdicts, always, session, shown, palette, sidebar, asked, news>>

\* A plan is resumed, the last one is abandoned, or the prompt is dismissed.  With a plan
\* left after an abandon the prompt is made anew.
CloseResume ==
  /\ resume
  /\ resume' = FALSE /\ focus' = "input"
  /\ UNCHANGED <<queue, verdicts, always, session, shown, palette, sidebar, asked, news>>

\* The prompt's keys need the focus; Ctrl+C closes the first overlay that is open.
LeaveResume == focus = "resume" /\ CloseResume
CtrlC ==
  \/ palette /\ ClosePalette
  \/ ~palette /\ sidebar /\ CloseSidebar
  \/ ~palette /\ ~sidebar /\ resume /\ CloseResume

\* /new, /end: the grants of the session are gone.
New ==
  /\ focus = "input" /\ news < MaxNews
  /\ news' = news + 1
  /\ session' = {}
  /\ UNCHANGED <<queue, verdicts, always, shown, palette, sidebar, resume, focus, asked>>

PanelsNext ==
  \/ \E r \in Requests : Ask(r)
  \/ \E v \in {"allow", "deny"}, remember \in {"once", "session", "always"} : Answer(v, remember)
  \/ OpenSidebar \/ CloseSidebar \/ OpenPalette \/ ClosePalette
  \/ OpenResume \/ LeaveResume \/ CtrlC \/ New

PanelsSpec == PanelsInit /\ [][PanelsNext]_panelVars
-----------------------------------------------------------------------------
\* Every variable has its type.
PanelsTypeOK ==
  /\ queue \in Seq(Requests) /\ asked \in Seq(Requests)
  /\ verdicts \in [Requests -> {None, "allow", "deny", "error"}]
  /\ {palette, sidebar, resume} \subseteq BOOLEAN
  /\ shown \in Requests \cup {None} /\ news \in 0 .. MaxNews
  /\ focus \in Overlays \cup {"input", "permission"}

\* A request waits under no panel only while the palette or the sidebar covers it, no panel
\* outlives the queue, and the focus is never on a component that is not on the screen,
\* whatever overlays were opened over each other (rebuildDynamicChildren).
PanelAndFocus ==
  /\ (shown # None) = (queue # <<>> /\ ~palette /\ ~sidebar)
  /\ focus = "permission" => shown # None
  /\ focus = "palette" => palette
  /\ focus = "sidebar" => sidebar
  /\ focus = "resume" => resume

\* The requests that wait are those asked and not answered, in the order they were asked,
\* each once: no tool call is left waiting for ever by an answer to another
\* (resolve_permission).
WaitInOrder ==
  /\ Range(queue) = {r \in Range(asked) : verdicts[r] = None}
  /\ \A i, j \in DOMAIN queue :
       i < j => \E k, l \in DOMAIN asked : k < l /\ queue[i] = asked[k] /\ queue[j] = asked[l]
  /\ \A k, l \in DOMAIN asked : asked[k] = asked[l] => k = l

\* The panels' state is well formed, the panel and the focus agree with the queue, and the
\* requests wait in the order they were asked (reducer and dispatchAction).
PanelsInv == PanelsTypeOK /\ PanelAndFocus /\ WaitInOrder
=============================================================================
