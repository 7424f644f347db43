------------------------------- MODULE PlanRun -------------------------------
(***************************************************************************)
(* The plan runner (packages/runtime/src/core/runtime/plan/plan-runner.ts) *)
(* with the executor it calls for each step (core/runtime/executor), the   *)
(* durable copy of the plan in the plan store                              *)
(* (packages/core/src/session/plan-store.ts) and the user's controls       *)
(* (bridge/pi-agent.ts): one plan of one Session, and every call of        *)
(* runPlan made for it.                                                    *)
(*                                                                         *)
(* Each call works on its own copy of the plan and saves it whole; the     *)
(* controls load, change and save the stored one.  What a call does between*)
(* two awaits cannot be interleaved: while it is at stage "levels" nothing *)
(* else runs, although the segment is made of several steps here.  Saves   *)
(* do not fail.                                                            *)
(***************************************************************************)
EXTENDS Naturals, FiniteSets

CONSTANTS
  Calls,       \* the calls of runPlan
  Graphs,      \* the plans the planner may write: dependsOn of each step
  NoPlan,      \* nothing stored, or no copy yet
  Cap,         \* steps run in parallel at most
  MaxRetries,  \* Executor.maxRetries
  MaxReplans,  \* MAX_REPLAN_ATTEMPTS
  MaxSteps,    \* planMaxSteps, 0 for none
  LlmVerify,   \* requireLLMVerify: the verifier may say anything
  Overlap,     \* the user or the model may run a plan that a call is running
  MaxTries,    \* bound: the retryCount up to which a user retries a step
  MaxCrashes   \* bound: how many times the process dies and is started again

Steps == UNION {DOMAIN g : g \in Graphs}

\* A step may depend on an id that is no step's.
ASSUME GraphAssumption == \A g \in Graphs : DOMAIN g # {} /\ IsFiniteSet(DOMAIN g)
ASSUME LimitAssumption ==
  /\ Cap \in Nat \ {0}
  /\ {MaxRetries, MaxReplans, MaxSteps, MaxTries, MaxCrashes} \subseteq Nat
  /\ {LlmVerify, Overlap} \subseteq BOOLEAN

VARIABLES
  store,           \* the plan's row in the plan store
  copy,            \* the plan object of each call
  stage,           \* where each call is
  attempt,         \* attempt
  passed,          \* the steps of the levels entered
  ready,           \* what is left of readyInLevel
  flying,          \* the steps of the batch not settled yet
  replan,          \* replanRequested
  stopped,         \* stoppedEarly
  executed,        \* executedSteps
  running,         \* this.running
  abortRequested,  \* this.abortRequested
  crashes          \* how many times the process has died

passVars == <<attempt, passed, ready, flying, replan, stopped, executed>>
flagVars == <<running, abortRequested>>
vars == <<store, copy, stage, passVars, flagVars, crashes>>

PlanStatus == {"pending", "running", "paused", "completed", "failed"}
StepStatus == {"pending", "running", "completed", "failed", "skipped"}

ASSUME NoPlanAssumption ==
  \A g \in Graphs :
    NoPlan \notin [status : PlanStatus, graph : {g},
                  step : [DOMAIN g -> StepStatus], tries : [DOMAIN g -> Nat]]

\* What the planner returns.
Fresh(g) ==
  [status |-> "pending", graph |-> g,
   step |-> [s \in DOMAIN g |-> "pending"], tries |-> [s \in DOMAIN g |-> 0]]

StepsOf(P) == DOMAIN P.graph

WithStatus(P, st) == {s \in StepsOf(P) : P.step[s] = st}

Completed(P) == WithStatus(P, "completed")

\* The steps in S take the status st.
Marked(P, S, st) ==
  [P EXCEPT !.step = [s \in StepsOf(P) |-> IF s \in S THEN st ELSE P.step[s]]]

Unfinished(P) == WithStatus(P, "pending") \cup WithStatus(P, "running")

InProgress(c) == stage[c] \in {"levels", "batch", "replanning"}

\* No call is inside a synchronous segment: another task may run.
Idle == \A c \in Calls : stage[c] # "levels"

(***************************************************************************)
(* computeLevels, one level at a time: the steps whose dependencies, those *)
(* that are steps, are all in the levels before.  Where a cycle leaves none*)
(* the rest is one level: its order does not matter, for all of it will be *)
(* skipped.                                                                *)
(***************************************************************************)
NextLevel(P, done) ==
  LET rest == StepsOf(P) \ done
      free == {s \in rest : P.graph[s] \cap StepsOf(P) \subseteq done}
  IN IF free = {} THEN rest ELSE free

MinOf(m, n) == IF m < n THEN m ELSE n

\* Mutant: one step too many.
BudgetLeftOver(c, wanted) == IF MaxSteps = 0 THEN wanted ELSE MaxSteps + 1 - executed[c]

\* budgetRemaining, for a batch of the size wanted.
BudgetLeft(c, wanted) == IF MaxSteps = 0 THEN wanted ELSE MaxSteps - executed[c]

OutOfSteps(c) == MaxSteps > 0 /\ executed[c] >= MaxSteps

Save(P) == store' = P
-----------------------------------------------------------------------------
Init ==
  /\ store = NoPlan
  /\ copy = [c \in Calls |-> NoPlan]
  /\ stage = [c \in Calls |-> "new"]
  /\ attempt = [c \in Calls |-> 0]
  /\ passed = [c \in Calls |-> {}]
  /\ ready = [c \in Calls |-> {}]
  /\ flying = [c \in Calls |-> {}]
  /\ replan = [c \in Calls |-> FALSE]
  /\ stopped = [c \in Calls |-> FALSE]
  /\ executed = [c \in Calls |-> 0]
  /\ running = FALSE
  /\ abortRequested = FALSE
  /\ crashes = 0

\* The beginning of attempt n of runPlan on plan P: the plan is saved as running
\* and the flags of the runner, which all calls share, are set anew.
Begin(c, P, n) ==
  LET Q == [P EXCEPT !.status = "running"]
  IN /\ Save(Q)
     /\ copy' = [copy EXCEPT ![c] = Q]
     /\ stage' = [stage EXCEPT ![c] = "levels"]
     /\ attempt' = [attempt EXCEPT ![c] = n]
     /\ passed' = [passed EXCEPT ![c] = {}]
     /\ ready' = [ready EXCEPT ![c] = {}]
     /\ replan' = [replan EXCEPT ![c] = FALSE]
     /\ stopped' = [stopped EXCEPT ![c] = FALSE]
     /\ executed' = [executed EXCEPT ![c] = 0]
     /\ running' = TRUE
     /\ abortRequested' = FALSE
     /\ UNCHANGED <<flying, crashes>>

\* createAndRun, once the planner has answered: /plan, or the plan_create tool.
CreateAndRun(c) ==
  /\ Idle
  /\ stage[c] = "new"
  /\ store = NoPlan
  /\ \E g \in Graphs : Begin(c, Fresh(g), 0)

\* A stored plan is run: by resumeActivePlan, which asks that it be paused, or by
\* the plan_run tool, which does not ask.
RunStored(c) ==
  /\ Idle
  /\ stage[c] = "new"
  /\ store # NoPlan
  /\ Overlap \/ \A d \in Calls : ~InProgress(d)
  /\ Begin(c, store, 0)
-----------------------------------------------------------------------------
\* The next level is due: the batches of the one before are through.
AtLevel(c) ==
  /\ stage[c] = "levels"
  /\ ready[c] = {}
  /\ ~stopped[c]
  /\ passed[c] # StepsOf(copy[c])

\* The run stops here, with a save; the steps in S will not be run.
StopsShort(c, S) ==
  /\ copy' = [copy EXCEPT ![c] = Marked(copy[c], S \cap Unfinished(copy[c]), "skipped")]
  /\ Save(copy'[c])
  /\ stopped' = [stopped EXCEPT ![c] = TRUE]
  /\ ready' = [ready EXCEPT ![c] = {}]
  /\ UNCHANGED <<stage, attempt, passed, flying, replan, executed, flagVars, crashes>>

\* The check before a level: the user has aborted, the step budget is used up, or
\* the wall-clock budget, which may happen at any time.
StopAtLevel(c) == AtLevel(c) /\ StopsShort(c, StepsOf(copy[c]))

\* Neither an abort nor the step budget is in the way, before a level or a batch.
GoesOn(c) == ~abortRequested /\ ~OutOfSteps(c)

\* Mutant: completed steps are scheduled again.
PendingAll(P, L) == L

\* The steps of level L that are not completed: whatever else happened to them in
\* an earlier run, they are scheduled again.
Pending(P, L) == L \ Completed(P)

\* Mutant: a dependency has to be done with, not completed.
RunnableLax(P, s) == P.graph[s] \cap Unfinished(P) = {}

Runnable(P, s) == P.graph[s] \subseteq Completed(P)

\* The ready set of the next level; a step with a dependency that failed or is
\* missing is skipped.  Nothing is saved.
OpenLevel(c) ==
  LET P == copy[c]
      L == NextLevel(P, passed[c])
      due == Pending(P, L)
      fit == {s \in due : Runnable(P, s)}
  IN /\ AtLevel(c)
     /\ GoesOn(c)
     /\ copy' = [copy EXCEPT ![c] =
          Marked(Marked(P, fit \cap WithStatus(P, "running"), "pending"), due \ fit, "skipped")]
     /\ passed' = [passed EXCEPT ![c] = @ \cup L]
     /\ ready' = [ready EXCEPT ![c] = fit]
     /\ UNCHANGED <<store, stage, attempt, flying, replan, stopped, executed, flagVars,
                    crashes>>

AtBatch(c) == stage[c] = "levels" /\ ready[c] # {}

\* The check before a batch finds an abort: the rest of the level stays as it is.
StopAtBatch(c) ==
  /\ AtBatch(c)
  /\ abortRequested
  /\ stopped' = [stopped EXCEPT ![c] = TRUE]
  /\ ready' = [ready EXCEPT ![c] = {}]
  /\ UNCHANGED <<store, copy, stage, attempt, passed, flying, replan, executed, flagVars,
                 crashes>>

\* It finds the step budget used up: the rest of the level is skipped.
OverBudget(c) ==
  /\ AtBatch(c)
  /\ ~abortRequested
  /\ OutOfSteps(c)
  /\ StopsShort(c, ready[c])

\* The next batch: the first Cap steps that are left, in the order the planner
\* listed them, or fewer when the budget is smaller; then what is left of the
\* level is skipped and the run stops after the batch.
LaunchBatch(c) ==
  LET wanted == MinOf(Cap, Cardinality(ready[c]))
      room == BudgetLeft(c, wanted)
      cut == room < wanted
  IN /\ AtBatch(c)
     /\ GoesOn(c)
     /\ \E B \in SUBSET ready[c] :
          LET rest == ready[c] \ B
          IN /\ Cardinality(B) = MinOf(wanted, room)
             /\ copy' = [copy EXCEPT ![c] =
                  Marked(Marked(@, IF cut THEN rest \cap Unfinished(@) ELSE {}, "skipped"),
                         B, "running")]
             /\ ready' = [ready EXCEPT ![c] = IF cut THEN {} ELSE rest]
             /\ flying' = [flying EXCEPT ![c] = B]
     /\ Save(copy'[c])
     /\ stage' = [stage EXCEPT ![c] = "batch"]
     /\ stopped' = [stopped EXCEPT ![c] = cut]
     /\ UNCHANGED <<attempt, passed, replan, executed, flagVars, crashes>>
-----------------------------------------------------------------------------
\* executeAndClassify ends for step s, with status st and a request to replan or not.
StepEnds(c, s, st, again) ==
  /\ copy' = [copy EXCEPT ![c] = Marked(@, {s}, st)]
  /\ flying' = [flying EXCEPT ![c] = @ \ {s}]
  /\ executed' = [executed EXCEPT ![c] = @ + 1]
  /\ replan' = [replan EXCEPT ![c] = @ \/ again]

\* The static rules ask for a retry twice; a model may ask for it as often as it likes.
MayRetry(n) == LlmVerify \/ n < 2

\* One pass of executeStep's loop: the step ran, and the verifier said "proceed",
\* "replan", "abort" or "escalate".
StepSettles(c, s) ==
  /\ Idle
  /\ stage[c] = "batch"
  /\ s \in flying[c]
  /\ copy[c].tries[s] <= MaxRetries
  /\ \/ StepEnds(c, s, "completed", FALSE)
     \/ StepEnds(c, s, "failed", FALSE)
     \/ LlmVerify /\ StepEnds(c, s, "failed", TRUE)
  /\ UNCHANGED <<store, stage, attempt, passed, ready, stopped, flagVars, crashes>>

\* The verifier said "retry".
StepRetries(c, s) ==
  /\ Idle
  /\ stage[c] = "batch"
  /\ s \in flying[c]
  /\ copy[c].tries[s] <= MaxRetries
  /\ MayRetry(copy[c].tries[s])
  /\ copy' = [copy EXCEPT ![c].tries[s] = @ + 1]
  /\ UNCHANGED <<store, stage, passVars, flagVars, crashes>>

\* The retries are used up: the loop is left, or never entered.
StepGivesUp(c, s) ==
  /\ Idle
  /\ stage[c] = "batch"
  /\ s \in flying[c]
  /\ copy[c].tries[s] > MaxRetries
  /\ StepEnds(c, s, "failed", FALSE)
  /\ UNCHANGED <<store, stage, attempt, passed, ready, stopped, flagVars, crashes>>

\* Mutant: Promise.all in place of Promise.allSettled.
AllSettledOrNone(c) == flying[c] = {} /\ WithStatus(copy[c], "failed") = {}

AllSettled(c) == flying[c] = {}

\* The batch is joined and saved.  A request to replan or an early stop ends the
\* level, but a request to replan does not keep the next level from being opened.
JoinBatch(c) ==
  /\ Idle
  /\ stage[c] = "batch"
  /\ AllSettled(c)
  /\ Save(copy[c])
  /\ stage' = [stage EXCEPT ![c] = "levels"]
  /\ ready' = [ready EXCEPT ![c] = IF replan[c] \/ stopped[c] THEN {} ELSE @]
  /\ UNCHANGED <<copy, attempt, passed, flying, replan, stopped, executed, flagVars,
                 crashes>>
-----------------------------------------------------------------------------
AtEnd(c) ==
  /\ stage[c] = "levels"
  /\ ready[c] = {}
  /\ stopped[c] \/ passed[c] = StepsOf(copy[c])

\* Mutant: a plan without a failed step counts as completed.
OutcomeLax(P, early) ==
  IF early THEN "paused"
  ELSE IF WithStatus(P, "failed") = {} THEN "completed" ELSE "failed"

Outcome(P, early) ==
  IF early THEN "paused"
  ELSE IF Completed(P) = StepsOf(P) THEN "completed" ELSE "failed"

\* What a call worked with goes when it ends.
Dropped(C) ==
  /\ copy' = [c \in Calls |-> IF c \in C THEN NoPlan ELSE copy[c]]
  /\ attempt' = [c \in Calls |-> IF c \in C THEN 0 ELSE attempt[c]]
  /\ passed' = [c \in Calls |-> IF c \in C THEN {} ELSE passed[c]]
  /\ ready' = [c \in Calls |-> IF c \in C THEN {} ELSE ready[c]]
  /\ flying' = [c \in Calls |-> IF c \in C THEN {} ELSE flying[c]]
  /\ replan' = [c \in Calls |-> c \notin C /\ replan[c]]
  /\ stopped' = [c \in Calls |-> c \notin C /\ stopped[c]]
  /\ executed' = [c \in Calls |-> IF c \in C THEN 0 ELSE executed[c]]

\* The call returns with its plan saved.
Returns(c, st) ==
  /\ Save([copy[c] EXCEPT !.status = st])
  /\ stage' = [stage EXCEPT ![c] = "done"]
  /\ running' = FALSE
  /\ Dropped({c})
  /\ UNCHANGED <<abortRequested, crashes>>

ReplansLeft(c) == attempt[c] < MaxReplans

\* The pass is over and the plan settles.
Settle(c) ==
  /\ AtEnd(c)
  /\ ~(replan[c] /\ ReplansLeft(c))
  /\ Returns(c, Outcome(copy[c], stopped[c] \/ replan[c]))

\* A step asked to replan: the planner is called, whether or not the pass was
\* stopped early.
AskPlanner(c) ==
  /\ AtEnd(c)
  /\ replan[c]
  /\ ReplansLeft(c)
  /\ stage' = [stage EXCEPT ![c] = "replanning"]
  /\ UNCHANGED <<store, copy, passVars, flagVars, crashes>>

\* The planner answers with another plan, which takes the place of the old one.
Replanned(c) ==
  /\ Idle
  /\ stage[c] = "replanning"
  /\ \E g \in Graphs : Begin(c, Fresh(g), attempt[c] + 1)

\* The planner throws: one of the plan_created hooks did.
PlannerFails(c) ==
  /\ Idle
  /\ stage[c] = "replanning"
  /\ Returns(c, "paused")
-----------------------------------------------------------------------------
\* pauseActivePlan: the row alone; a call in progress saves over it.
Paused(P) == IF P # NoPlan /\ P.status = "running" THEN [P EXCEPT !.status = "paused"] ELSE P

Pause ==
  /\ Idle
  /\ Save(Paused(store))
  /\ UNCHANGED <<copy, stage, passVars, flagVars, crashes>>

\* SessionRuntime.abort (Ctrl+C, the turn's watchdog, a sub-agent's time-out): the
\* runner is asked to stop if it says it is running, and the row is paused.  The
\* steps in flight go on.
Abort ==
  /\ Idle
  /\ abortRequested' = (abortRequested \/ running)
  /\ Save(Paused(store))
  /\ UNCHANGED <<copy, stage, passVars, running, crashes>>

Cancelled(P) == [Marked(P, Unfinished(P), "skipped") EXCEPT !.status = "failed"]

\* cancelActivePlan: again the row alone.
Cancel ==
  /\ Idle
  /\ store # NoPlan
  /\ store.status \notin {"completed", "failed"}
  /\ Save(Cancelled(store))
  /\ UNCHANGED <<copy, stage, passVars, flagVars, crashes>>

\* retryStep, on the row.
RetryStep(s) ==
  /\ Idle
  /\ store # NoPlan
  /\ s \in WithStatus(store, "failed")
  /\ store.tries[s] < MaxTries
  /\ Save([Marked(store, {s}, "pending") EXCEPT !.status = "paused", !.tries[s] = @ + 1])
  /\ UNCHANGED <<copy, stage, passVars, flagVars, crashes>>

\* reconcileInterruptedPlans.
Reconciled(P) == Paused(P)

\* The process dies, at any moment, and is started again.
Restart ==
  /\ crashes < MaxCrashes
  /\ crashes' = crashes + 1
  /\ stage' = [c \in Calls |-> IF InProgress(c) THEN "lost" ELSE stage[c]]
  /\ Dropped(Calls)
  /\ running' = FALSE
  /\ abortRequested' = FALSE
  /\ Save(Reconciled(store))
-----------------------------------------------------------------------------
\* What call c does once it has been made.
Advance(c) ==
  \/ StopAtLevel(c) \/ OpenLevel(c)
  \/ StopAtBatch(c) \/ OverBudget(c) \/ LaunchBatch(c)
  \/ \E s \in Steps : StepSettles(c, s) \/ StepRetries(c, s) \/ StepGivesUp(c, s)
  \/ JoinBatch(c)
  \/ Settle(c) \/ AskPlanner(c)
  \/ Replanned(c) \/ PlannerFails(c)

Next ==
  \/ \E c \in Calls : CreateAndRun(c) \/ RunStored(c) \/ Advance(c)
  \/ Pause \/ Abort \/ Cancel
  \/ \E s \in Steps : RetryStep(s)
  \/ Restart

\* Synchronous code goes on; a step ends, as its sub-agent's time-out sees to; so
\* does the planner's call of the model.
Fairness == \A c \in Calls : WF_vars(Advance(c))

Spec == Init /\ [][Next]_vars

FairSpec == Spec /\ Fairness
-----------------------------------------------------------------------------
Fields == {"status", "graph", "step", "tries"}

IsPlan(P) ==
  /\ P = [x \in Fields |-> P[x]]
  /\ P.graph \in Graphs
  /\ P.status \in PlanStatus
  /\ P.step \in [DOMAIN P.graph -> StepStatus]
  /\ P.tries \in [DOMAIN P.graph -> Nat]

Types ==
  /\ store = NoPlan \/ IsPlan(store)
  /\ DOMAIN copy = Calls /\ \A c \in Calls : copy[c] = NoPlan \/ IsPlan(copy[c])
  /\ stage \in [Calls -> {"new", "levels", "batch", "replanning", "done", "lost"}]
  /\ attempt \in [Calls -> 0 .. MaxReplans]
  /\ passed \in [Calls -> SUBSET Steps]
  /\ ready \in [Calls -> SUBSET Steps]
  /\ flying \in [Calls -> SUBSET Steps]
  /\ replan \in [Calls -> BOOLEAN]
  /\ stopped \in [Calls -> BOOLEAN]
  /\ executed \in [Calls -> Nat]
  /\ running \in BOOLEAN
  /\ abortRequested \in BOOLEAN
  /\ crashes \in Nat

\* Every variable has its type, and a call keeps to the steps of its plan.
TypeOK ==
  /\ Types
  /\ \A c \in Calls : InProgress(c) =>
       /\ IsPlan(copy[c])
       /\ passed[c] \subseteq StepsOf(copy[c])
       /\ ready[c] \cup flying[c] \subseteq passed[c]
       /\ ready[c] \cap flying[c] = {}

\* While a step runs, every step it depends on is completed in the copy its call
\* works on: through levels, batches, retries, replans and resumes of what an
\* earlier run left.
DependenciesFirst ==
  \A c \in Calls : \A s \in flying[c] : copy[c].graph[s] \subseteq Completed(copy[c])

\* A plan stored as completed has completed every step, whichever of overlapping
\* calls and controls saved it last.
CompletedMeansAll ==
  store # NoPlan /\ store.status = "completed" => Completed(store) = StepsOf(store)

\* A plan stored as running is being run: no call ends, and no process dies,
\* leaving behind a plan that neither runs nor can be resumed.
RunningIsRun ==
  store # NoPlan /\ store.status = "running" => \E c \in Calls : InProgress(c)

\* packages/runtime/src/infra/llm-fuse.ts:31: planMaxSteps steps at most are
\* executed in one pass, batches counted whole.
StepBudget ==
  MaxSteps > 0 => \A c \in Calls : executed[c] + Cardinality(flying[c]) <= MaxSteps

\* Every call of runPlan ends, unless the process dies first.
PlanEnds == \A c \in Calls : InProgress(c) ~> ~InProgress(c)

Launched(c) == flying'[c] \ flying[c]

StoredAsCompleted == IF store = NoPlan THEN {} ELSE Completed(store)

\* A step the store holds as completed is not run again: not by a resume, a retry
\* of another step or a restart; only as part of another plan.
NoRework ==
  [][\A c \in Calls : Launched(c) \cap StoredAsCompleted = {}]_vars

=============================================================================
