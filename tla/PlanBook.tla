--------------------------------- MODULE PlanBook ---------------------------------
(***************************************************************************)
(* The plans of a home directory over the life of the processes that use   *)
(* it: the rows of the plan store (packages/core/src/session/plan-store.ts),*)
(* the controls of a Session, which find their plan by its status and its  *)
(* age, and what a process does with the rows it finds when it starts      *)
(* (packages/runtime/src/bridge/pi-agent.ts, packages/tui/src/App.ts).     *)
(*                                                                         *)
(* What a runner does inside of a plan is PlanRun's matter: here it saves  *)
(* the plan as running now and then, and at the end as something else.     *)
(* The comment over reconcileInterruptedPlans assumes a single process;    *)
(* here there may be several, and shared tells whether there were.         *)
(***************************************************************************)
EXTENDS Naturals, FiniteSets

CONSTANTS
  Book,         \* the plans, each a pair of its Session and a number
  Processes,    \* bound: the processes that may live at the same time
  MaxClock,     \* bound: the time
  MaxRuns       \* bound: the calls of runPlan in progress for a plan, in a process

ASSUME BookAssumption == MaxClock \in Nat /\ MaxRuns \in Nat

VARIABLES
  time,        \* the time
  row,          \* the row of each plan: its status and updated_at
  runs,         \* how many calls of runPlan each process makes for each plan
  alive,        \* the processes that live
  shared        \* history: two processes lived at once since a start that was alone

bookVars == <<time, row, runs, alive, shared>>

SessionOf(n) == n[1]

NoRow == [status |-> "none", at |-> 0]

Rows == {NoRow} \cup [status : {"running", "paused", "completed", "failed"}, at : 0 .. MaxClock]

Final == {"completed", "failed"}

Stored == {n \in Book : row[n] # NoRow}

\* save: the row is replaced, with the time of the change.
SaveRow(n, status) == row' = [row EXCEPT ![n] = [status |-> status, at |-> time]]

\* ORDER BY updated_at DESC: what may come first.
NewestOf(S) == {n \in S : \A m \in S : row[m].at <= row[n].at}

\* loadActiveForSession: the newest plan of the Session that is not final.
ActivePlans(s) ==
  NewestOf({n \in Stored : SessionOf(n) = s /\ row[n].status \notin Final})

\* Mutant: only the newest row is looked at.
LatestInterrupted(cutoff) ==
  NewestOf({n \in Stored : row[n].status = "running" /\ row[n].at < cutoff})

\* loadInterrupted: rows that look alive and are older than the process.
Interrupted(cutoff) == {n \in Stored : row[n].status = "running" /\ row[n].at < cutoff}

\* loadPaused, which getInterruptedPlans returns.
PausedPlans == {n \in Stored : row[n].status = "paused"}

RunBy(p) == {n \in Book : runs[p][n] > 0}

RunByAny == UNION {RunBy(p) : p \in Processes}
-----------------------------------------------------------------------------
BookInit ==
  /\ time = 0
  /\ row = [n \in Book |-> NoRow]
  /\ runs = [p \in Processes |-> [n \in Book |-> 0]]
  /\ alive = {} /\ shared = FALSE

TimePasses ==
  /\ time < MaxClock
  /\ time' = time + 1
  /\ UNCHANGED <<row, runs, alive, shared>>

\* The agent of a process: every plan that looks alive is paused.  A process takes longer
\* to start than the resolution of the clock.
StartProcess(p) ==
  /\ p \notin alive
  /\ time < MaxClock /\ time' = time + 1
  /\ alive' = alive \cup {p}
  /\ shared' = (alive # {})
  /\ row' = [n \in Book |-> IF n \in Interrupted(time') THEN [status |-> "paused", at |-> time']
                            ELSE row[n]]
  /\ UNCHANGED runs

\* The process ends, whatever it was running.
Die(p) ==
  /\ p \in alive
  /\ alive' = alive \ {p}
  /\ runs' = [runs EXCEPT ![p] = [n \in Book |-> 0]]
  /\ UNCHANGED <<time, row, shared>>

\* runPlan saves the plan as running before anything else.
Run(p, n) ==
  /\ runs[p][n] < MaxRuns
  /\ runs' = [runs EXCEPT ![p][n] = @ + 1]
  /\ SaveRow(n, "running")
  /\ UNCHANGED <<time, alive, shared>>

\* createAndRun: a plan that the planner has just written.
NewPlan(p, n) == n \notin Stored /\ Run(p, n)

\* plan_run, and resumePlanById of the prompt at the start: a plan by its identifier.
RunById(p, n) == n \in Stored /\ Run(p, n)

\* A step of the plan is over: the runner saves its own copy of the plan, which is running.
Progress(p, n) ==
  /\ n \in RunBy(p)
  /\ SaveRow(n, "running")
  /\ UNCHANGED <<time, runs, alive, shared>>

\* The terminal state of runPlan.
FinishRun(p, n, status) ==
  /\ n \in RunBy(p)
  /\ runs' = [runs EXCEPT ![p][n] = @ - 1]
  /\ SaveRow(n, status)
  /\ UNCHANGED <<time, alive, shared>>

\* pauseActivePlan: nothing when the newest plan is not the one that runs.
PauseActive(n) ==
  /\ n \in ActivePlans(SessionOf(n)) /\ row[n].status = "running"
  /\ SaveRow(n, "paused")
  /\ UNCHANGED <<time, runs, alive, shared>>

\* resumeActivePlan, which runs the plan.
ResumeActive(p, n) ==
  /\ n \in ActivePlans(SessionOf(n)) /\ row[n].status = "paused"
  /\ Run(p, n)

\* cancelActivePlan.
CancelActive(n) ==
  /\ n \in ActivePlans(SessionOf(n))
  /\ SaveRow(n, "failed")
  /\ UNCHANGED <<time, runs, alive, shared>>

\* abandonPlanById of the prompt: a plan that was paused when it was shown.
AbandonById(n) ==
  /\ n \in Stored
  /\ SaveRow(n, "failed")
  /\ UNCHANGED <<time, runs, alive, shared>>

\* retryStep of a plan with a failed step.
RetryStepOf(n) ==
  /\ n \in Stored
  /\ SaveRow(n, "paused")
  /\ UNCHANGED <<time, runs, alive, shared>>

BookNext ==
  \/ TimePasses
  \/ \E p \in Processes : StartProcess(p) \/ Die(p)
  \/ \E p \in alive, n \in Book :
       \/ NewPlan(p, n) \/ RunById(p, n) \/ Progress(p, n) \/ ResumeActive(p, n)
       \/ \E status \in {"completed", "failed", "paused"} : FinishRun(p, n, status)
       \/ PauseActive(n) \/ CancelActive(n) \/ AbandonById(n) \/ RetryStepOf(n)

BookSpec == BookInit /\ [][BookNext]_bookVars
-----------------------------------------------------------------------------
\* Every variable has its type.
BookTypeOK ==
  /\ time \in 0 .. MaxClock
  /\ row \in [Book -> Rows]
  /\ runs \in [Processes -> [Book -> 0 .. MaxRuns]]
  /\ alive \subseteq Processes
  /\ shared \in BOOLEAN

\* While a process has the home to itself, or has started alone after those who shared it,
\* a plan that looks alive is one that it runs, however the plans of a Session overlap, are
\* paused, run twice or cancelled (reconcileInterruptedPlans, runPlan and the controls).
NothingLooksAlive ==
  alive # {} /\ ~shared => \A n \in Stored : row[n].status = "running" => n \in RunByAny

\* Then no unfinished plan is lost: what nobody runs can be resumed from the prompt
\* (getInterruptedPlans).
EveryPlanOffered ==
  alive # {} /\ ~shared =>
    {n \in Stored : row[n].status \notin Final} \ RunByAny \subseteq PausedPlans

\* The book of plans is well formed and tells a plan that runs from one to resume.
BookInv == BookTypeOK /\ NothingLooksAlive /\ EveryPlanOffered
=============================================================================
