--------------------------------- MODULE PlanView ---------------------------------
(***************************************************************************)
(* The plan panel of the TUI (planEventToAction of                         *)
(* packages/tui/src/transform/plan-events.ts, the plan actions of          *)
(* state/state.ts, the plan listener and the dismiss timer of App.ts).     *)
(*                                                                         *)
(* There is one panel and any number of plans report to it: the events of  *)
(* the plans of all sessions arrive in one stream.  A step's id is taken   *)
(* from the planner's answer, so two plans may use the same one.           *)
(***************************************************************************)
EXTENDS Naturals, FiniteSets

CONSTANTS
  Plans,      \* the plans that run
  StepsOf,    \* the step ids of each
  MaxRetries, \* bound: how often a failed step is queued again
  NoPlan

ASSUME PlanViewAssumption == MaxRetries \in Nat /\ NoPlan \notin Plans

VARIABLES
  plan,       \* the plan of the state: its id, its status and the steps known so far
  timer,      \* planDismissTimer is set
  reported,   \* external: the status of each step by the last event about it
  runs,       \* external: the plans a runner is running
  retries     \* how many steps were queued again

planViewVars == <<plan, timer, reported, runs, retries>>

StepStatus == {"pending", "running", "completed", "failed"}

Nothing == [id |-> NoPlan, status |-> "none", steps |-> <<>>]

\* set_plan with one step, when the panel shows another plan or none.
OnlyStep(p, s) ==
  [id |-> p, status |-> "running", steps |-> [x \in {s} |-> "running"]]

\* The steps of the panel with step s added as running.
WithStep(s) ==
  [x \in DOMAIN plan.steps \cup {s} |-> IF x = s THEN "running" ELSE plan.steps[x]]

\* update_plan_step: the step of that id, of whatever plan is shown.
Updated(view, s, st) ==
  IF s \in DOMAIN view.steps THEN [view EXCEPT !.steps[s] = st] ELSE view

\* Mutant: whatever plan is shown passes for the plan of the event.
ShowsAny(p) == plan # Nothing

\* currentPlan?.id === event.planId; the listener has just set currentPlan to the state's.
Shows(p) == plan.id = p

-----------------------------------------------------------------------------
PlanViewInit ==
  /\ plan = Nothing /\ timer = FALSE
  /\ reported = [p \in Plans |-> [s \in StepsOf[p] |-> "pending"]]
  /\ runs = Plans
  /\ retries = 0

\* plan_step_started: a step not seen yet is added.
StepStarted(p, s) ==
  /\ p \in runs /\ reported[p][s] # "completed"
  /\ reported' = [reported EXCEPT ![p][s] = "running"]
  /\ plan' = IF ~Shows(p) THEN OnlyStep(p, s)
             ELSE IF s \notin DOMAIN plan.steps
                  THEN [plan EXCEPT !.steps = WithStep(s)]
                  ELSE Updated(plan, s, "running")
  /\ UNCHANGED <<timer, runs, retries>>

\* plan_step_completed and plan_step_failed.
StepEnded(p, s, st) ==
  /\ st \in {"completed", "failed"}
  /\ p \in runs
  /\ reported[p][s] = "running" \/ (st = "failed" /\ reported[p][s] = "pending")
  /\ reported' = [reported EXCEPT ![p][s] = st]
  /\ plan' = Updated(plan, s, st)
  /\ UNCHANGED <<timer, runs, retries>>

\* plan_step_retry: retryStep queues a failed step again.
StepRetried(p, s) ==
  /\ reported[p][s] = "failed" /\ retries < MaxRetries
  /\ retries' = retries + 1
  /\ reported' = [reported EXCEPT ![p][s] = "pending"]
  /\ plan' = Updated(plan, s, "pending")
  /\ UNCHANGED <<timer, runs>>

\* set_plan_status, of whatever plan is shown.
WithStatus(st) == IF plan = Nothing THEN plan ELSE [plan EXCEPT !.status = st]

\* plan_paused: the runner is not told.
Pause ==
  /\ plan' = WithStatus("paused")
  /\ UNCHANGED <<timer, reported, runs, retries>>

\* plan_resumed: the plan is run again.
Resume(p) ==
  /\ plan' = WithStatus("running")
  /\ runs' = runs \cup {p}
  /\ UNCHANGED <<timer, reported, retries>>

\* plan_cancelled: the runner is not told; the timer is set.
Cancel ==
  /\ plan' = WithStatus("failed")
  /\ timer' = TRUE
  /\ UNCHANGED <<reported, runs, retries>>

\* plan_completed, once no step runs: the plan is shown, its steps only if it was before.
PlanDone(p, st) ==
  /\ p \in runs /\ \A s \in StepsOf[p] : reported[p][s] # "running"
  /\ runs' = runs \ {p}
  /\ plan' = [id |-> p, status |-> st, steps |-> IF Shows(p) THEN plan.steps ELSE <<>>]
  /\ timer' = TRUE
  /\ UNCHANGED <<reported, retries>>

\* The dismiss timer: clear_plan, whatever plan is shown by now.
Dismiss ==
  /\ timer
  /\ timer' = FALSE /\ plan' = Nothing
  /\ UNCHANGED <<reported, runs, retries>>

PlanViewNext ==
  \/ Dismiss \/ Pause \/ Cancel
  \/ \E p \in Plans : Resume(p)
  \/ \E p \in Plans, st \in {"completed", "failed", "paused"} : PlanDone(p, st)
  \/ \E p \in Plans : \E s \in StepsOf[p] :
       \/ StepStarted(p, s) \/ StepRetried(p, s)
       \/ \E st \in StepStatus : StepEnded(p, s, st)

PlanViewSpec == PlanViewInit /\ [][PlanViewNext]_planViewVars
-----------------------------------------------------------------------------
Views ==
  [id : Plans \cup {NoPlan}, status : {"none", "running", "paused", "completed", "failed"},
   steps : UNION {[S -> StepStatus] : S \in SUBSET UNION {StepsOf[p] : p \in Plans}}]

\* Every variable has its type.
PlanViewTypeOK ==
  /\ plan \in Views /\ (plan.id = NoPlan => plan = Nothing) /\ timer \in BOOLEAN
  /\ \A p \in Plans : reported[p] \in [StepsOf[p] -> StepStatus]
  /\ runs \subseteq Plans
  /\ retries \in 0 .. MaxRetries

\* A step the panel shows is one of the plan it names, with the status that plan reported
\* last, however the events of several plans, retries and dismissals are interleaved, if no
\* other plan has a step of the same id (planEventToAction and update_plan_step).
StepsTrue ==
  \A s \in DOMAIN plan.steps :
    /\ s \in StepsOf[plan.id]
    /\ (\A q \in Plans \ {plan.id} : s \notin StepsOf[q]) => plan.steps[s] = reported[plan.id][s]

\* The panel's state is well formed and its steps are true to the plan it names
\* (planEventToAction).
PlanViewInv == PlanViewTypeOK /\ StepsTrue
=============================================================================
