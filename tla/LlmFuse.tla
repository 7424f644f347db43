-------------------------------- MODULE LlmFuse --------------------------------
(***************************************************************************)
(* The fuse before the requests to language models                         *)
(* (packages/runtime/src/infra/llm-fuse.ts), one for the whole process,    *)
(* with the three places that use it: the start of a turn, the stream      *)
(* function of every agent (bridge/pi-agent.ts) and the plain completions  *)
(* of planner, verifier and learner (bridge/core-port-impl.ts).  The turns *)
(* of different Sessions overlap.                                          *)
(*                                                                         *)
(* Time is what has passed, not a clock: age[r] is how long ago the check  *)
(* or request r was made, openFor what is left of billingOpenUntil.  The   *)
(* members of Requests are used again once they are older than the hour.   *)
(***************************************************************************)
EXTENDS Naturals, FiniteSets

CONSTANTS
  Sessions,   \* whose turns share the fuse
  Requests,   \* bound: the calls of one hour that can be told apart
  Nobody,     \* no Session
  PerTurn,    \* llmCallsPerTurn, 0 for none
  PerHour,    \* llmCallsPerHour, 0 for none
  Hour,       \* the length of the hour, in ticks
  BillingMs   \* billingFuseMs, in ticks

ASSUME NumberAssumption ==
  {PerTurn, PerHour, Hour} \subseteq Nat /\ BillingMs \in Nat \ {0}
ASSUME RequestsAssumption == IsFiniteSet(Requests)
ASSUME NobodyAssumption == Nobody \notin Sessions

VARIABLES
  openFor,        \* how long the billing fuse stays open, 0 when it is closed
  callsThisTurn,  \* callsThisTurn, counted up to PerTurn + 1
  hourWindow,     \* hourWindow: the calls whose time stamps it holds
  age,            \* how long ago each call was made, up to Hour + 1
  streamed,       \* history: the calls that were streams sent within the hour
  sender,         \* the Session whose turn awaits the answer, if one does
  turn,           \* the turn of each Session
  latest,         \* history: the Session whose turn started last
  used            \* history: the streams since each turn's start, up to PerTurn + 1

budgetVars == <<callsThisTurn, hourWindow>>
historyVars == <<streamed, latest, used>>
vars == <<openFor, budgetVars, age, sender, turn, historyVars>>

MinOf(m, n) == IF m < n THEN m ELSE n

Counter == 0 .. PerTurn + 1

Raised(n) == MinOf(n + 1, PerTurn + 1)

Open == openFor > 0

\* Not in use for a call of the last hour.
Spare(r) == sender[r] = Nobody /\ age[r] > Hour

\* Mutant: time stamps are dropped as they reach the hour.
KeptLess == {r \in hourWindow : age[r] < Hour}

\* The time stamps check does not drop.
Kept == {r \in hourWindow : age[r] <= Hour}

WithinTurn(n) == PerTurn > 0 => n <= PerTurn

WithinHour(W) == PerHour > 0 => Cardinality(W) <= PerHour

\* A call is made now.
Now(r) == age' = [age EXCEPT ![r] = 0]

Running == {s \in Sessions : turn[s] = "running"}

\* Mutant: an open fuse is opened for longer.
ReportAgain == openFor' = BillingMs

\* report, of an error whose text speaks of billing.
Report == openFor' = IF Open THEN openFor ELSE BillingMs
-----------------------------------------------------------------------------
Init ==
  /\ openFor = 0
  /\ callsThisTurn = 0
  /\ hourWindow = {}
  /\ age = [r \in Requests |-> Hour + 1]
  /\ streamed = {}
  /\ sender = [r \in Requests |-> Nobody]
  /\ turn = [s \in Sessions |-> "idle"]
  /\ latest = Nobody
  /\ used = [s \in Sessions |-> 0]

\* SessionRuntime.turn resets the counter, whosever it is, and then checks, which
\* counts although nothing is sent.  A turn refused here never runs.
StartTurn(s) ==
  /\ turn[s] = "idle"
  /\ latest' = s
  /\ used' = [used EXCEPT ![s] = 0]
  /\ \/ /\ Open
        /\ callsThisTurn' = 0
        /\ UNCHANGED <<hourWindow, age, turn>>
     \/ /\ ~Open
        /\ callsThisTurn' = 1
        /\ \E r \in Requests :
             /\ Spare(r)
             /\ Now(r)
             /\ hourWindow' = Kept \cup {r}
        /\ turn' = [turn EXCEPT ![s] = IF WithinTurn(1) /\ WithinHour(hourWindow')
                                       THEN "running" ELSE "idle"]
  /\ UNCHANGED <<openFor, sender, streamed>>

\* A stream is refused by the open fuse, without being counted.  The error, whose
\* text speaks of billing, may end the turn.
StreamRefused(s) ==
  /\ s \in Running
  /\ Open
  /\ turn' \in {turn, [turn EXCEPT ![s] = "failing"]}
  /\ UNCHANGED <<openFor, budgetVars, age, sender, historyVars>>

\* A stream is counted and, within the budgets, sent: by the agent of a turn, or by
\* a sub-agent that runs a step of a plan, which may be resumed outside any turn.
Stream(s) ==
  /\ ~Open
  /\ \E r \in Requests :
       /\ Spare(r)
       /\ callsThisTurn' = Raised(callsThisTurn)
       /\ hourWindow' = Kept \cup {r}
       /\ Now(r)
       /\ IF WithinTurn(callsThisTurn') /\ WithinHour(hourWindow')
          THEN /\ sender' = [sender EXCEPT ![r] = s]
               /\ streamed' = streamed \cup {r}
               /\ used' = [used EXCEPT ![s] = Raised(@)]
          ELSE UNCHANGED <<sender, streamed, used>>
  /\ UNCHANGED <<openFor, turn, latest>>

\* CorePort.complete sends without a check.
Complete(s) ==
  /\ \E r \in Requests \ hourWindow :
       /\ Spare(r)
       /\ Now(r)
       /\ sender' = [sender EXCEPT ![r] = s]
  /\ UNCHANGED <<openFor, budgetVars, turn, historyVars>>

Answered(r) ==
  /\ sender[r] # Nobody
  /\ sender' = [sender EXCEPT ![r] = Nobody]
  /\ UNCHANGED <<budgetVars, age, historyVars>>

\* A request is answered, or ends without the fuse hearing of billing.
Answer(r) ==
  /\ Answered(r)
  /\ UNCHANGED <<openFor, turn>>

\* It fails with an error about billing, which may end the turn that made it.
Charge(r) ==
  /\ Answered(r)
  /\ Report
  /\ \/ UNCHANGED turn
     \/ /\ sender[r] \in Running
        /\ turn' = [turn EXCEPT ![sender[r]] = "failing"]

\* A turn ends, or fails with an error that is not about billing.
EndTurn(s) ==
  /\ s \in Running
  /\ turn' = [turn EXCEPT ![s] = "idle"]
  /\ UNCHANGED <<openFor, budgetVars, age, sender, historyVars>>

\* It fails with one that is: the error is reported, for the second time or although
\* it came from the fuse itself.
FailTurn(s) ==
  /\ turn[s] = "failing"
  /\ turn' = [turn EXCEPT ![s] = "idle"]
  /\ Report
  /\ UNCHANGED <<budgetVars, age, sender, historyVars>>

Tick ==
  /\ openFor' = IF Open THEN openFor - 1 ELSE 0
  /\ age' = [r \in Requests |-> MinOf(age[r] + 1, Hour + 1)]
  /\ streamed' = {r \in streamed : age[r] < Hour}
  /\ UNCHANGED <<budgetVars, sender, turn, latest, used>>

Next ==
  \/ \E s \in Sessions :
       \/ StartTurn(s) \/ StreamRefused(s) \/ Stream(s) \/ Complete(s)
       \/ EndTurn(s) \/ FailTurn(s)
  \/ \E r \in Requests : Answer(r) \/ Charge(r)
  \/ Tick

Spec == Init /\ [][Next]_vars

\* Time passes.
FairSpec == Spec /\ WF_vars(Tick)
-----------------------------------------------------------------------------
\* Every variable has its type.
TypeOK ==
  /\ openFor \in 0 .. BillingMs
  /\ callsThisTurn \in Counter
  /\ hourWindow \subseteq Requests
  /\ age \in [Requests -> 0 .. Hour + 1]
  /\ streamed \subseteq Requests
  /\ sender \in [Requests -> Sessions \cup {Nobody}]
  /\ turn \in [Sessions -> {"idle", "running", "failing"}]
  /\ latest \in Sessions \cup {Nobody}
  /\ used \in [Sessions -> Counter]

\* Whatever turns overlap, no hour sees more than llmCallsPerHour streams, although
\* time stamps are dropped only when the next check comes.
HourBudget == PerHour > 0 => Cardinality(streamed) <= PerHour

\* The turn that started last keeps to llmCallsPerTurn, its own check counted: nothing
\* that older turns do takes calls back.
LatestTurnBudget ==
  PerTurn > 0 => \A s \in {latest} \cap Sessions : turn[s] = "running" => used[s] < PerTurn

\* The two budgets of check hold together, which share no count but the same streams.
Budgets == HourBudget /\ LatestTurnBudget

\* The billing fuse closes again, however many errors are reported while it is open.
FuseCloses == Open ~> ~Open

=============================================================================
