----------------------------------- MODULE Chat -----------------------------------
(***************************************************************************)
(* The chat area of the TUI during the turns of a session (eventToAction   *)
(* of packages/tui/src/transform/events.ts, the item actions of            *)
(* state/state.ts and tuiChannel of channel.ts).                           *)
(*                                                                         *)
(* The text of an answer arrives twice: in deltas while the model streams  *)
(* it, and whole when the turn sends its outbound.  The channel has to     *)
(* tell whether the deltas have put it on the screen.  A text is the       *)
(* sequence of its chunks; a chunk is <<turn, answer, number>>, the        *)
(* placeholder of an empty answer is one chunk with number 0.              *)
(* Beside the chat is the plan panel (PlanView), which shares nothing with *)
(* it.                                                                     *)
(***************************************************************************)
EXTENDS PlanView, Sequences

CONSTANTS
  MaxTurns,   \* bound: the turns
  MaxAnswers, \* bound: the answers of a turn, all but the last followed by tools
  MaxChunks,  \* bound: the text deltas of an answer
  MaxNotices, \* bound: the system items
  MaxClears   \* bound: how often the chat is cleared

ASSUME ChatAssumption ==
  /\ {MaxTurns, MaxAnswers, MaxChunks, MaxNotices, MaxClears} \subseteq Nat
  /\ MaxAnswers > 0

VARIABLES
  items,      \* items: kind, text, whether it is streaming or (a tool call) not complete
  phase,      \* "idle", "model", "tool" or "sending"
  turn,       \* the number of the turn
  answer,     \* the number of the answer in the turn
  chunks,     \* how many chunks of the answer have been streamed
  notices,    \* how many notices were added
  clears,     \* how often the chat was cleared
  quiet,      \* history: nothing was put between the answer's deltas and its sending
  delivered   \* history: the turn has sent its reply, and the chat was not cleared since

chatVars == <<items, phase, turn, answer, chunks, notices, clears, quiet,
              delivered>>

Item(kind, text, open) == [kind |-> kind, text |-> text, open |-> open]

Last == items[Len(items)]

Streaming(it) == it.kind = "assistant" /\ it.open

Finalized(its) ==
  [i \in DOMAIN its |-> IF Streaming(its[i]) THEN [its[i] EXCEPT !.open = FALSE] ELSE its[i]]

\* append_delta: the last item goes on if it is streaming, else an item is added.
WithDelta(its, text) ==
  IF its # <<>> /\ Streaming(its[Len(its)])
  THEN [its EXCEPT ![Len(its)].text = @ \o text]
  ELSE Append(its, Item("assistant", text, TRUE))

\* What the turn sends: the text of the last answer, or a placeholder.
Reply == IF chunks = 0 THEN <<<<turn, answer, 0>>>>
         ELSE [c \in 1 .. chunks |-> <<turn, answer, c>>]

\* alreadyRenderedThisTurn.
AlreadyRendered ==
  items # <<>> /\ Last.kind = "assistant" /\ ~Last.open /\ Last.text = Reply

-----------------------------------------------------------------------------
ChatInit ==
  /\ items = <<>> /\ phase = "idle" /\ turn = 0 /\ answer = 0 /\ chunks = 0
  /\ notices = 0 /\ clears = 0 /\ quiet = TRUE
  /\ delivered = FALSE

\* submitMessage: add_user, and the turn starts.
Begin ==
  /\ phase = "idle" /\ turn < MaxTurns
  /\ turn' = turn + 1 /\ answer' = 1 /\ chunks' = 0 /\ phase' = "model"
  /\ items' = Append(items, Item("user", <<>>, FALSE))
  /\ quiet' = TRUE /\ delivered' = FALSE
  /\ UNCHANGED <<notices, clears>>

Delta ==
  /\ phase = "model" /\ chunks < MaxChunks
  /\ chunks' = chunks + 1
  /\ items' = WithDelta(items, <<<<turn, answer, chunks'>>>>)
  /\ UNCHANGED <<phase, turn, answer, notices, clears, quiet, delivered>>

\* tool_execution_start: the answer ends with a call.
ToolStarts ==
  /\ phase = "model" /\ answer < MaxAnswers
  /\ phase' = "tool"
  /\ items' = Append(items, Item("tool_call", <<turn, answer>>, TRUE))
  /\ UNCHANGED <<turn, answer, chunks, notices, clears, quiet, delivered>>

\* tool_execution_end: complete_tool_call finds the item, unless the chat was cleared.
ToolEnds ==
  /\ phase = "tool"
  /\ phase' = "model" /\ answer' = answer + 1 /\ chunks' = 0 /\ quiet' = TRUE
  /\ items' = [i \in DOMAIN items |->
                 IF items[i].kind = "tool_call" /\ items[i].text = <<turn, answer>>
                 THEN [items[i] EXCEPT !.open = FALSE] ELSE items[i]]
  /\ UNCHANGED <<turn, notices, clears, delivered>>

\* agent_end: finalize_streaming.
AgentEnds ==
  /\ phase = "model"
  /\ phase' = "sending"
  /\ items' = Finalized(items)
  /\ UNCHANGED <<turn, answer, chunks, notices, clears, quiet, delivered>>

\* channel.send: the text is added if nothing has shown it.
Send ==
  /\ phase = "sending"
  /\ phase' = "idle"
  /\ items' = IF (\E i \in DOMAIN items : Streaming(items[i])) \/ AlreadyRendered
              THEN Finalized(items)
              ELSE Finalized(WithDelta(items, Reply))
  /\ delivered' = TRUE
  /\ UNCHANGED <<turn, answer, chunks, notices, clears, quiet>>

\* The turn fails before it sends: submitMessage adds an error.
TurnFails ==
  /\ phase = "sending"
  /\ phase' = "idle"
  /\ items' = Append(items, Item("system", <<>>, FALSE))
  /\ UNCHANGED <<turn, answer, chunks, notices, clears, quiet, delivered>>

\* add_system: a message is queued, a command answers, an abort is noted.
Notice ==
  /\ notices < MaxNotices
  /\ notices' = notices + 1
  /\ items' = Append(items, Item("system", <<>>, FALSE))
  /\ quiet' = (quiet /\ (phase = "idle" \/ chunks = 0))
  /\ UNCHANGED <<phase, turn, answer, chunks, clears, delivered>>

\* clear_items.
Clear ==
  /\ clears < MaxClears
  /\ clears' = clears + 1
  /\ items' = <<>> /\ delivered' = FALSE
  /\ quiet' = (quiet /\ (phase = "idle" \/ chunks = 0))
  /\ UNCHANGED <<phase, turn, answer, chunks, notices>>

ChatNext ==
  Begin \/ Delta \/ ToolStarts \/ ToolEnds \/ AgentEnds \/ Send \/ TurnFails \/ Notice \/ Clear

ChatSpec == ChatInit /\ [][ChatNext]_chatVars
-----------------------------------------------------------------------------
Chunks == (1 .. MaxTurns) \X (1 .. MaxAnswers) \X (0 .. MaxChunks)

\* Every variable has its type.
ChatTypeOK ==
  /\ \A i \in DOMAIN items :
       /\ items[i].kind \in {"user", "assistant", "tool_call", "system"}
       /\ items[i].kind = "assistant" => items[i].text \in Seq(Chunks)
       /\ items[i].open \in BOOLEAN
  /\ phase \in {"idle", "model", "tool", "sending"}
  /\ turn \in 0 .. MaxTurns /\ answer \in 0 .. MaxAnswers /\ chunks \in 0 .. MaxChunks
  /\ notices \in 0 .. MaxNotices /\ clears \in 0 .. MaxClears /\ {quiet, delivered} \subseteq BOOLEAN

Shown == {i \in DOMAIN items : items[i].kind = "assistant" /\ items[i].text = Reply}

\* Once a turn has sent its reply, one item shows the whole of it, and only one if nothing
\* was put between the deltas and the sending; no item is left streaming (tuiChannel).
ReplyShown ==
  phase = "idle" /\ delivered =>
    /\ Shown # {}
    /\ quiet => \A i, j \in Shown : i = j
    /\ \A i \in DOMAIN items : ~Streaming(items[i])

\* The chat's state is well formed and a finished reply is shown whole (tuiChannel).
ChatInv == ChatTypeOK /\ ReplyShown
-----------------------------------------------------------------------------
\* The panel and the chat.
ViewSpec == PlanViewSpec /\ ChatSpec

\* What is on the screen is so: the plan panel's steps are those of the plan it names
\* (planEventToAction), and a reply that is finished is shown whole (channel.ts).
ViewInv == PlanViewInv /\ ChatInv
=============================================================================
