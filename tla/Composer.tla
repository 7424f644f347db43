--------------------------------- MODULE Composer ---------------------------------
(***************************************************************************)
(* What the TUI does with typed messages (submitUserInput, handleAbort and *)
(* the render trigger of packages/tui/src/App.ts, submitMessage of         *)
(* handler/submit-message.ts, the plan commands of handler/commands/plan.ts*)
(* and resumePlanById).                                                    *)
(*                                                                         *)
(* A message typed while busy is queued.  Every dispatch runs the render   *)
(* trigger, which takes a message from the queue if the app is not busy    *)
(* and defers its submission to a microtask; the microtasks run before the *)
(* next event.  An operator Dispatched follows the trigger through the     *)
(* dispatches of one piece of code.  The lane of the session, which runs   *)
(* one turn at a time, is external here (module SessionRegistry).          *)
(***************************************************************************)
EXTENDS Naturals, Sequences, FiniteSets, Functions

CONSTANTS
  MaxTyped,   \* bound: the messages typed
  MaxAborts,  \* bound: how often Ctrl+C is pressed
  MaxPlans    \* bound: the plans run by a command

ASSUME ComposerAssumption == {MaxTyped, MaxAborts, MaxPlans} \subseteq Nat

VARIABLES
  busy,       \* busy
  pending,    \* pendingInputs
  deferred,   \* the messages whose submission waits in a microtask
  expanding,  \* the messages whose file mentions are being read
  lane,       \* the turns of the session: the first runs, the others wait
  planning,   \* how many plans started by commands run
  confirm,    \* quitConfirmPending
  quit,       \* quitRequested
  typed,      \* how many messages were typed
  sent,       \* history: the messages submitted to the agent, in order
  dropped,    \* history: the messages dropped by an abort that said so
  aborts,     \* how often Ctrl+C was pressed
  plans,      \* how many plans were started
  muddled     \* history: an abort, or a plan beside a turn, has let go of busy early

composerVars == <<busy, pending, deferred, expanding, lane, planning, confirm, quit, typed,
                  sent, dropped, aborts, plans, muddled>>

Messages == 1 .. MaxTyped

Lesser(a, b) == IF a <= b THEN a ELSE b

\* Mutant: the trigger reads the head of the queue and leaves it there.
Kept(queue, k) == queue

\* pendingInputs.shift(), k times.
Shifted(queue, k) == SubSeq(queue, k + 1, Len(queue))

\* Mutant: the trigger forgets the queue.
NeverFlushed(k) == UNCHANGED <<pending, deferred>>

\* The render trigger after k dispatches while the app is not busy.
Dispatched(k) ==
  LET n == Lesser(k, Len(pending))
  IN  /\ deferred' = deferred \o SubSeq(pending, 1, n)
      /\ pending' = Shifted(pending, n)

\* Events are handled when no microtask is left.
Quiet == deferred = <<>> /\ ~quit

\* Mutant: busy is raised when the turn is in its lane.
RaisedLate == busy

\* submitMessage raises busy before it awaits anything.
Raised == TRUE

-----------------------------------------------------------------------------
ComposerInit ==
  /\ busy = FALSE /\ pending = <<>> /\ deferred = <<>>
  /\ expanding = {} /\ lane = <<>> /\ planning = 0
  /\ confirm = FALSE /\ quit = FALSE
  /\ typed = 0 /\ sent = <<>> /\ dropped = {}
  /\ aborts = 0 /\ plans = 0 /\ muddled = FALSE

\* submitUserInput while busy: the message is queued, a notice is dispatched.
Queue(m) ==
  /\ busy
  /\ pending' = Append(pending, m)
  /\ UNCHANGED <<busy, expanding, sent>>

\* submitUserInput while not busy: submitMessage dispatches hide_hint and scroll_bottom
\* before busy, and begins to read the mentions.  Taken are the messages that leave.
Submit(m, tasks) ==
  LET n == Lesser(2, Len(pending))
  IN  /\ ~busy
      /\ busy' = Raised
      /\ pending' = Shifted(pending, n)
      /\ deferred' = tasks \o SubSeq(pending, 1, n)
      /\ expanding' = expanding \cup {m}
      /\ sent' = Append(sent, m)

Type ==
  /\ Quiet /\ typed < MaxTyped
  /\ typed' = typed + 1
  /\ \/ Queue(typed') /\ UNCHANGED deferred
     \/ Submit(typed', <<>>)
  /\ UNCHANGED <<lane, planning, confirm, quit, dropped, aborts, plans, muddled>>

\* The microtask of a message taken from the queue submits it, or queues it again.
Microtask ==
  /\ deferred # <<>> /\ ~quit
  /\ \/ Queue(Head(deferred)) /\ deferred' = Tail(deferred)
     \/ Submit(Head(deferred), Tail(deferred))
  /\ UNCHANGED <<lane, planning, confirm, quit, typed, dropped, aborts, plans, muddled>>

\* The mentions are read and agent.turn is called.
Expanded(m) ==
  /\ Quiet /\ m \in expanding
  /\ expanding' = expanding \ {m}
  /\ lane' = Append(lane, m)
  /\ UNCHANGED <<busy, pending, deferred, planning, confirm, quit, typed, sent, dropped,
                 aborts, plans, muddled>>

\* The turn at the head of the lane ends, well or not: the finally block of submitMessage
\* dispatches set_busy and set_last_op, whatever else runs by now.
TurnOver ==
  /\ Quiet /\ lane # <<>>
  /\ lane' = Tail(lane)
  /\ busy' = FALSE
  /\ Dispatched(2)
  /\ muddled' = (muddled \/ planning > 0)
  /\ UNCHANGED <<expanding, planning, confirm, quit, typed, sent, dropped, aborts, plans>>

\* /plan create, run or resume, and a plan picked in the resume prompt: commands pass
\* whether busy or not.
PlanCommand ==
  /\ Quiet /\ plans < MaxPlans
  /\ plans' = plans + 1 /\ planning' = planning + 1
  /\ busy' = TRUE
  /\ UNCHANGED <<pending, deferred, expanding, lane, confirm, quit, typed, sent, dropped,
                 aborts, muddled>>

PlanOver ==
  /\ Quiet /\ planning > 0
  /\ planning' = planning - 1
  /\ busy' = FALSE
  /\ Dispatched(2)
  /\ muddled' = (muddled \/ lane # <<>> \/ expanding # {} \/ planning > 1)
  /\ UNCHANGED <<expanding, lane, confirm, quit, typed, sent, dropped, aborts, plans>>

\* Ctrl+C while busy: set_busy lets the trigger take one message; the rest is dropped.
AbortTurn ==
  /\ Quiet /\ busy /\ aborts < MaxAborts
  /\ aborts' = aborts + 1
  /\ busy' = FALSE
  /\ deferred' = SubSeq(pending, 1, Lesser(1, Len(pending)))
  /\ dropped' = dropped \cup {pending[i] : i \in 2 .. Len(pending)}
  /\ pending' = <<>>
  /\ muddled' = TRUE
  /\ UNCHANGED <<expanding, lane, planning, confirm, quit, typed, sent, plans>>

\* Ctrl+C while idle asks, and quits when it is pressed again in time.
AskToQuit ==
  /\ Quiet /\ ~busy /\ aborts < MaxAborts
  /\ aborts' = aborts + 1
  /\ IF confirm
     THEN quit' = TRUE /\ UNCHANGED confirm
     ELSE confirm' = TRUE /\ UNCHANGED quit
  /\ Dispatched(2)
  /\ UNCHANGED <<busy, expanding, lane, planning, typed, sent, dropped, plans, muddled>>

ConfirmExpires ==
  /\ Quiet /\ confirm
  /\ confirm' = FALSE
  /\ IF busy THEN UNCHANGED <<pending, deferred>> ELSE Dispatched(1)
  /\ UNCHANGED <<busy, expanding, lane, planning, quit, typed, sent, dropped, aborts, plans,
                 muddled>>

\* The agent of a turn goes on after an abort: each of its events is dispatched.
AgentEvent ==
  /\ Quiet /\ lane # <<>> /\ ~busy
  /\ Dispatched(1)
  /\ UNCHANGED <<busy, expanding, lane, planning, confirm, quit, typed, sent, dropped, aborts,
                 plans, muddled>>

ComposerNext ==
  \/ Type \/ Microtask \/ TurnOver \/ PlanCommand \/ PlanOver
  \/ AbortTurn \/ AgentEvent \/ AskToQuit \/ ConfirmExpires
  \/ \E m \in Messages : Expanded(m)

\* Microtasks and file reads are run by the event loop; that turns and plans end is what
\* their own modules say (PromptEnds of Turn).
ComposerFairness ==
  /\ WF_composerVars(Microtask)
  /\ \A m \in Messages : WF_composerVars(Expanded(m))
  /\ WF_composerVars(TurnOver) /\ WF_composerVars(PlanOver)

ComposerSpec == ComposerInit /\ [][ComposerNext]_composerVars /\ ComposerFairness
-----------------------------------------------------------------------------
\* Every variable has its type.
ComposerTypeOK ==
  /\ {busy, confirm, quit, muddled} \subseteq BOOLEAN
  /\ {pending, deferred, lane, sent} \subseteq Seq(Messages)
  /\ {expanding, dropped} \subseteq SUBSET Messages
  /\ typed \in 0 .. MaxTyped /\ aborts \in 0 .. MaxAborts
  /\ planning \in 0 .. MaxPlans /\ plans \in 0 .. MaxPlans

\* No message is in a queue twice.
Once(queue) == \A i, j \in DOMAIN queue : queue[i] = queue[j] => i = j

\* A typed message is in one place: it waits, it was sent once, or it was dropped and
\* the user told, however many dispatches, microtasks and aborts came in between (the
\* render trigger, submitUserInput and handleAbort).
NoMessageLost ==
  /\ 1 .. typed = Range(pending) \cup Range(deferred) \cup Range(sent) \cup dropped
  /\ Range(pending) \cap Range(deferred) = {}
  /\ (Range(pending) \cup Range(deferred)) \cap Range(sent) = {}
  /\ (Range(pending) \cup Range(deferred) \cup Range(sent)) \cap dropped = {}
  /\ Once(pending) /\ Once(deferred) /\ Once(sent)

\* Until an abort or a plan beside a turn lets go of busy early, the app is busy exactly
\* while something it started goes on, and it starts one thing at a time: Ctrl+C then
\* aborts what runs and never quits (submitMessage and the plan commands).
BusyWhileWorking ==
  ~muddled /\ Quiet =>
    /\ busy = (lane # <<>> \/ expanding # {} \/ planning > 0)
    /\ Len(lane) + Cardinality(expanding) <= 1

\* A queued message is sent, or dropped by an abort, or the app quits (the render trigger).
QueueDrains ==
  \A m \in Messages :
    (\E i \in DOMAIN pending : pending[i] = m)
      ~> (quit \/ m \in dropped \/ \E i \in DOMAIN sent : sent[i] = m)

\* The composer's state is well formed, each typed message is in one place, and busy says
\* whether something goes on (submitMessage and abort).
ComposerInv == ComposerTypeOK /\ NoMessageLost /\ BusyWhileWorking
=============================================================================
