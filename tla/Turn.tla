----------------------------------- MODULE Turn -----------------------------------
(***************************************************************************)
(* One session runtime through its turns (turn, abort and the tool         *)
(* callbacks of packages/runtime/src/bridge/pi-agent.ts, with SubAgent.run *)
(* of core/runtime/subagent/index.ts).                                     *)
(*                                                                         *)
(* The registry gives the runtime one turn at a time.  Around a turn run   *)
(* the loop of the agent library, a plan with its sub-agents, requests for *)
(* permission, and three kinds of timers and signals that stop things: the *)
(* watchdog of the turn, the time-out of a sub-agent, and the user.  The   *)
(* loop itself is external: it asks the model, calls tools, and returns    *)
(* when the model has nothing to call or when it has been aborted.         *)
(***************************************************************************)
EXTENDS Naturals, Sequences

CONSTANTS
  MaxTurns,    \* bound: the turns the runtime gets
  Subs,        \* bound: the sub-agents that are spawned
  MaxPosts,    \* bound: the messages put into the steering inbox
  HasWatchdog, \* robustness.turnTimeoutMs > 0
  Parent       \* the agent of the runtime, as opposed to its sub-agents

ASSUME TurnAssumption ==
  /\ MaxTurns \in Nat /\ MaxPosts \in Nat
  /\ HasWatchdog \in BOOLEAN
  /\ Parent \notin Subs

VARIABLES
  turn,      \* the number of the turn under way, or of the last one
  stage,     \* how far it is
  armed,     \* the turns whose watchdog is set
  loop,      \* where the agent's loop is
  stopped,   \* whether the loop has been aborted
  plan,      \* the plan run by the turn: off, calling the planner, or stepping
  planStop,  \* abortRequested of the plan runner
  sub,       \* the sub-agents
  asked,     \* the agents waiting for the permission handler
  handler,   \* whether a toolPermissionHandler is set
  inbox,     \* the steering inbox
  queue,     \* the messages given to the agent's own queue by steer
  said,      \* history: the messages the loop has taken from the queue
  hits       \* history: the aborts made by timers, as <<turn that set it, turn hit>>

turnVars == <<turn, stage, armed, loop, stopped, plan, planStop, sub, asked,
              handler, inbox, queue, said, hits>>

loopVars == <<loop, stopped>>
planVars == <<plan, planStop, sub>>
steerVars == <<inbox, queue, said>>

TurnIds == 1 .. MaxTurns

\* A sub-agent spawned by turn of, or outside of any turn when of is 0: where its loop is,
\* whether its time-out is set, and whether the plan still waits for its answer.
NoSub == [st |-> "none", of |-> 0, timer |-> FALSE, waited |-> FALSE]

Now == IF stage = "idle" THEN 0 ELSE turn

Waited == {s \in Subs : sub[s].waited}

Posted == Len(said) + Len(queue) + Len(inbox)

\* Mutant: abort stops the plan and leaves the loop.
AbortPlan(subs) ==
  /\ UNCHANGED stopped
  /\ planStop' = (planStop \/ plan = "stepping" \/ \E s \in Subs : subs[s].waited)

\* What abort does to the loop and to the plan runner.  It also trips abortController,
\* whose signal nothing in flight listens to: neither the planner nor a sub-agent gets it.
AbortAll(subs) ==
  /\ stopped' = (stopped \/ loop # "off")
  /\ planStop' = (planStop \/ plan = "stepping" \/ \E s \in Subs : subs[s].waited)

\* The finally block of turn.
Cleared(ok) == armed \ {turn}

\* drainMessages leaves the inbox empty.
Drained == <<>>

-----------------------------------------------------------------------------
TurnInit ==
  /\ turn = 0 /\ stage = "idle"
  /\ armed = {}
  /\ loop = "off" /\ stopped = FALSE
  /\ plan = "off" /\ planStop = FALSE
  /\ sub = [s \in Subs |-> NoSub]
  /\ asked = {} /\ handler \in BOOLEAN
  /\ inbox = <<>> /\ queue = <<>> /\ said = <<>>
  /\ hits = {}

\* turn up to its first hook: the watchdog is set, the steering inbox handed to the agent.
BeginTurn ==
  /\ stage = "idle" /\ turn < MaxTurns
  /\ turn' = turn + 1 /\ stage' = "admitting"
  /\ armed' = IF HasWatchdog THEN armed \cup {turn'} ELSE armed
  /\ queue' = queue \o inbox /\ inbox' = Drained
  /\ UNCHANGED <<loopVars, planVars, asked, handler, said, hits>>

\* The billing fuse is open: turn throws before it has set anything.
RefuseTurn ==
  /\ stage = "idle" /\ turn < MaxTurns
  /\ turn' = turn + 1
  /\ UNCHANGED <<stage, armed, loopVars, planVars, asked, handler, steerVars, hits>>

\* The hooks up to build_prompt let a message pass, to the loop or to a plan.
AdmitToLoop ==
  /\ stage = "admitting"
  /\ stage' = "prompting" /\ loop' = "polling" /\ stopped' = FALSE
  /\ UNCHANGED <<turn, armed, planVars, asked, handler, steerVars, hits>>

AdmitToPlan ==
  /\ stage = "admitting"
  /\ stage' = "planning" /\ plan' = "calling"
  /\ UNCHANGED <<turn, armed, loopVars, planStop, sub, asked, handler, steerVars, hits>>

\* admit_message rejects the message, or a later stage of the turn throws.
Fail ==
  /\ \/ stage \in {"admitting", "sending", "saving"}
     \/ stage = "prompting" /\ loop = "off"
  /\ stage' = "failing"
  /\ UNCHANGED <<turn, armed, loopVars, planVars, asked, handler, steerVars, hits>>

\* prompt has returned; the answer is sent, then saved and recorded.
PromptReturns ==
  /\ stage = "prompting" /\ loop = "off"
  /\ stage' = "sending"
  /\ UNCHANGED <<turn, armed, loopVars, planVars, asked, handler, steerVars, hits>>

Send ==
  /\ stage = "sending"
  /\ stage' = "saving"
  /\ UNCHANGED <<turn, armed, loopVars, planVars, asked, handler, steerVars, hits>>

\* The end of turn: recorded after save_state, or thrown after on_error.
EndTurn ==
  /\ stage \in {"saving", "failing"}
  /\ stage' = "idle"
  /\ armed' = Cleared(stage = "saving")
  /\ UNCHANGED <<turn, loopVars, planVars, asked, handler, steerVars, hits>>
-----------------------------------------------------------------------------
\* The loop takes a message from its queue, if there is one, and asks the model.
Poll ==
  /\ loop = "polling" /\ ~stopped
  /\ loop' = "asking"
  /\ IF queue = <<>>
     THEN UNCHANGED <<queue, said>>
     ELSE queue' = Tail(queue) /\ said' = Append(said, Head(queue))
  /\ UNCHANGED <<turn, stage, armed, stopped, planVars, asked, handler, inbox, hits>>

\* The model answers without a tool call: the loop ends unless messages are queued.
ModelAnswers ==
  /\ loop = "asking" /\ ~stopped
  /\ loop' = IF queue = <<>> THEN "off" ELSE "polling"
  /\ UNCHANGED <<turn, stage, armed, stopped, planVars, asked, handler, steerVars, hits>>

\* An aborted loop returns from where the signal reaches it, and a failed call ends it too.
LoopEnds ==
  /\ \/ loop = "asking"
     \/ loop = "polling" /\ stopped
  /\ loop' = "off"
  /\ UNCHANGED <<turn, stage, armed, stopped, planVars, asked, handler, steerVars, hits>>

\* beforeToolCall of the parent: refused by the policy, allowed, or put to the handler.
ModelCallsTool ==
  /\ loop = "asking" /\ ~stopped
  /\ \/ loop' = "polling" /\ UNCHANGED asked
     \/ ~handler /\ loop' = "tool" /\ UNCHANGED asked
     \/ handler /\ loop' = "gate" /\ asked' = asked \cup {Parent}
  /\ UNCHANGED <<turn, stage, armed, stopped, planVars, handler, steerVars, hits>>

\* The tool is a plan of its own: plan_create, plan_run.
ToolStartsPlan ==
  /\ loop = "tool" /\ plan = "off"
  /\ plan' = "calling"
  /\ UNCHANGED <<turn, stage, armed, loopVars, planStop, sub, asked, handler,
                 steerVars, hits>>

\* afterToolCall: a tool returns, fails, or is cut short by the signal of the loop.
ToolEnds ==
  /\ loop = "tool" /\ plan = "off"
  /\ loop' = "polling"
  /\ UNCHANGED <<turn, stage, armed, stopped, planVars, asked, handler, steerVars, hits>>
-----------------------------------------------------------------------------
\* The planner's call is not given the signal; when it fails, /plan becomes a prompt.
PlannerFails ==
  /\ plan = "calling"
  /\ plan' = "off"
  /\ IF stage = "planning"
     THEN stage' = "prompting" /\ loop' = "polling" /\ stopped' = FALSE
     ELSE loop' = "polling" /\ UNCHANGED <<stage, stopped>>
  /\ UNCHANGED <<turn, armed, planStop, sub, asked, handler, steerVars, hits>>

\* runPlan begins, and forgets an abort made before.
PlannerAnswers ==
  /\ plan = "calling"
  /\ plan' = "stepping" /\ planStop' = FALSE
  /\ UNCHANGED <<turn, stage, armed, loopVars, sub, asked, handler, steerVars, hits>>

\* Between the steps the plan is done, gives up, or obeys the abort.
PlanEnds ==
  /\ plan = "stepping"
  /\ \A s \in Waited : sub[s].of # turn
  /\ plan' = "off"
  /\ IF stage = "planning"
     THEN stage' = "sending" /\ UNCHANGED loop
     ELSE loop' = "polling" /\ UNCHANGED stage
  /\ UNCHANGED <<turn, armed, stopped, planStop, sub, asked, handler, steerVars, hits>>

\* SubAgent.run for a step of the turn's plan, or of a plan resumed outside of any turn.
Spawn(s, t) ==
  /\ sub[s].st = "none"
  /\ ~planStop
  /\ t = 0 \/ (t = turn /\ plan = "stepping")
  /\ sub' = [sub EXCEPT ![s] = [st |-> "asking", of |-> t, timer |-> TRUE, waited |-> TRUE]]
  /\ UNCHANGED <<turn, stage, armed, loopVars, plan, planStop, asked, handler,
                 steerVars, hits>>

\* The model of a sub-agent calls a tool, which passes the parent's beforeToolCall.
SubCallsTool(s) ==
  /\ sub[s].st = "asking"
  /\ \/ ~handler /\ sub' = [sub EXCEPT ![s].st = "tool"] /\ UNCHANGED asked
     \/ handler /\ sub' = [sub EXCEPT ![s].st = "gate"] /\ asked' = asked \cup {s}
  /\ UNCHANGED <<turn, stage, armed, loopVars, plan, planStop, handler, steerVars, hits>>

SubToolEnds(s) ==
  /\ sub[s].st = "tool"
  /\ sub' = [sub EXCEPT ![s].st = "asking"]
  /\ UNCHANGED <<turn, stage, armed, loopVars, plan, planStop, asked, handler,
                 steerVars, hits>>

\* Mutant: the time-out of a sub-agent that has answered stays set.
LeftSet(s) == [sub[s] EXCEPT !.st = "done", !.waited = FALSE]

\* The finally block of SubAgent.run.
Settled(s) == [sub[s] EXCEPT !.st = "done", !.timer = FALSE, !.waited = FALSE]

\* The sub-agent answers or fails, in time or after the race is over.
SubEnds(s) ==
  /\ sub[s].st = "asking"
  /\ sub' = [sub EXCEPT ![s] = Settled(s)]
  /\ UNCHANGED <<turn, stage, armed, loopVars, plan, planStop, asked, handler,
                 steerVars, hits>>

\* The time-out of a sub-agent aborts the parent and fails the step; the sub-agent itself
\* is not told, and goes on.
SubTimesOut(s) ==
  /\ sub[s].timer
  /\ sub' = [sub EXCEPT ![s].timer = FALSE, ![s].waited = FALSE]
  /\ AbortAll(sub)
  /\ hits' = hits \cup {<<sub[s].of, Now>>}
  /\ UNCHANGED <<turn, stage, armed, loop, plan, asked, handler, steerVars>>
-----------------------------------------------------------------------------
\* The watchdog of turn t, which fires once.
WatchdogFires(t) ==
  /\ t \in armed
  /\ armed' = armed \ {t}
  /\ AbortAll(sub)
  /\ hits' = hits \cup {<<t, Now>>}
  /\ UNCHANGED <<turn, stage, loop, plan, sub, asked, handler, steerVars>>

\* The user presses Ctrl+C, during a turn or not.
UserAborts ==
  /\ AbortAll(sub)
  /\ UNCHANGED <<turn, stage, armed, loop, plan, sub, asked, handler, steerVars, hits>>

\* The user answers a request.  A tool that is allowed after its loop was aborted may or
\* may not run: the library decides.
Decide(a) ==
  /\ a \in asked
  /\ asked' = asked \ {a}
  /\ IF a = Parent
     THEN /\ \/ loop' = "tool"
             \/ loop' = "polling"
          /\ UNCHANGED sub
     ELSE /\ \/ sub' = [sub EXCEPT ![a].st = "tool"]
             \/ sub' = [sub EXCEPT ![a].st = "asking"]
          /\ UNCHANGED loop
  /\ UNCHANGED <<turn, stage, armed, stopped, plan, planStop, handler, steerVars, hits>>

\* enqueueMessage: a plugin or a service puts a message into the inbox.
Enqueue ==
  /\ Posted < MaxPosts
  /\ inbox' = Append(inbox, Posted + 1)
  /\ UNCHANGED <<turn, stage, armed, loopVars, planVars, asked, handler, queue,
                 said, hits>>

TurnNext ==
  \/ BeginTurn \/ RefuseTurn \/ AdmitToLoop \/ AdmitToPlan \/ Fail
  \/ PromptReturns \/ Send \/ EndTurn
  \/ Poll \/ ModelAnswers \/ LoopEnds \/ ModelCallsTool \/ ToolStartsPlan \/ ToolEnds
  \/ PlannerFails \/ PlannerAnswers \/ PlanEnds
  \/ \E s \in Subs :
       \/ \E t \in {0, turn} : Spawn(s, t)
       \/ SubCallsTool(s) \/ SubToolEnds(s) \/ SubEnds(s) \/ SubTimesOut(s)
  \/ \E t \in TurnIds : WatchdogFires(t)
  \/ UserAborts \/ Enqueue
  \/ \E a \in {Parent} \cup Subs : Decide(a)

\* The event loop runs what is ready: a timer that is due, a loop that was aborted, a tool
\* (each has a time limit or obeys the signal), the planner's failure or answer, the steps
\* of a plan.  Neither the model nor the user has to answer.
TurnFairness ==
  /\ \A t \in TurnIds : WF_turnVars(WatchdogFires(t))
  /\ WF_turnVars(Poll) /\ WF_turnVars(stopped /\ LoopEnds)
  /\ WF_turnVars(ToolEnds) /\ WF_turnVars(PromptReturns)
  /\ WF_turnVars(PlanEnds)
  /\ \A s \in Subs : WF_turnVars(SubTimesOut(s))

TurnSpec == TurnInit /\ [][TurnNext]_turnVars /\ TurnFairness
-----------------------------------------------------------------------------
\* Every variable has its type.
TurnTypeOK ==
  /\ turn \in 0 .. MaxTurns
  /\ stage \in {"idle", "admitting", "prompting", "planning", "sending", "saving", "failing"}
  /\ armed \subseteq TurnIds
  /\ loop \in {"off", "polling", "asking", "gate", "tool"}
  /\ {stopped, planStop, handler} \subseteq BOOLEAN
  /\ plan \in {"off", "calling", "stepping"}
  /\ sub \in [Subs -> [st : {"none", "asking", "gate", "tool", "done"}, of : 0 .. MaxTurns,
                       timer : BOOLEAN, waited : BOOLEAN]]
  /\ asked \subseteq {Parent} \cup Subs
  /\ {inbox, queue, said} \subseteq Seq(1 .. MaxPosts)
  /\ hits \subseteq (0 .. MaxTurns) \X (0 .. MaxTurns)

\* A timer set in a turn, be it the watchdog or the time-out of a sub-agent, aborts that
\* turn and no later one, whichever way the turn or the sub-agent ended (the finally
\* blocks of turn and of SubAgent.run); a plan outside of any turn is another matter.
TimersHitOwnTurn == \A h \in hits : h[1] # 0 => h[2] = h[1]

\* Steering messages reach the agent in the order they were put into the inbox, each once
\* and none lost, though turns that drain them may be rejected, fail, run a plan instead
\* or be aborted before the loop takes them (turn, PiSteeringInbox).
SteeredInOrder ==
  \A i \in 1 .. Posted : (said \o queue \o inbox)[i] = i

\* A prompt whose watchdog is set comes to an end, whatever the model and the tools do,
\* unless it waits for the user's permission or for the planner, which abort does not
\* reach (the runaway guards of turn).
PromptEnds ==
  (stage = "prompting" /\ turn \in armed)
    ~> (stage # "prompting" \/ Parent \in asked \/ plan = "calling")

\* The runtime's state is well formed, no timer outlives its turn and no steering message
\* is lost or overtaken (turn, SubAgent.run, PiSteeringInbox).
TurnInv == TurnTypeOK /\ TimersHitOwnTurn /\ SteeredInOrder
=============================================================================
