---------------------------- MODULE PlanRunProofs ----------------------------
(***************************************************************************)
(* Theorems about PlanRun.  The safety properties follow from one inductive*)
(* invariant, IInv: what holds of each call (CallInv) and of the row in the*)
(* plan store (StoreInv), whichever other calls and controls interleave.   *)
(* There is one lemma for each action, or for the few that do alike.       *)
(***************************************************************************)
EXTENDS PlanRun, FiniteSetTheorems, TLAPS

\* What holds of call c between any two steps.  Its copy is marked as running; what
\* it has yet to run or is running is not completed, and its dependencies are;
\* only a batch has steps in flight.
CallInv(c) ==
  /\ InProgress(c) =>
       /\ IsPlan(copy[c])
       /\ copy[c].status = "running"
       /\ passed[c] \subseteq StepsOf(copy[c])
       /\ ready[c] \cup flying[c] \subseteq passed[c]
       /\ ready[c] \cap flying[c] = {}
       /\ \A s \in ready[c] \cup flying[c] :
            s \notin Completed(copy[c]) /\ copy[c].graph[s] \subseteq Completed(copy[c])
  /\ stage[c] # "batch" => flying[c] = {}
  /\ stage[c] = "replanning" => ready[c] = {} /\ ReplansLeft(c)
  /\ IsFiniteSet(flying[c])
  /\ MaxSteps > 0 => executed[c] + Cardinality(flying[c]) <= MaxSteps

StoreInv == CompletedMeansAll /\ RunningIsRun

IInv == Types /\ (\A c \in Calls : CallInv(c)) /\ StoreInv

\* A marking changes the status of steps and nothing else.
LEMMA MarkedLemma ==
  ASSUME NEW P, IsPlan(P), NEW S, NEW st \in StepStatus
  PROVE  /\ IsPlan(Marked(P, S, st))
         /\ Marked(P, S, st).status = P.status
         /\ Marked(P, S, st).graph = P.graph
         /\ Marked(P, S, st).tries = P.tries
         /\ \A s \in StepsOf(P) : Marked(P, S, st).step[s] = IF s \in S THEN st ELSE P.step[s]
<1> DEFINE Q == Marked(P, S, st)
<1>1. /\ Q = [x \in Fields |-> Q[x]]
      /\ Q.status = P.status
      /\ Q.graph = P.graph
      /\ Q.tries = P.tries
      /\ Q.step = [s \in DOMAIN P.graph |-> IF s \in S THEN st ELSE P.step[s]]
  BY DEF Marked, IsPlan, Fields, StepsOf
<1> HIDE DEF Q
<1>2. IsPlan(Q)
  BY <1>1 DEF IsPlan
<1>3. \A s \in StepsOf(P) : Q.step[s] = IF s \in S THEN st ELSE P.step[s]
  BY <1>1 DEF StepsOf
<1>4. QED
  BY <1>1, <1>2, <1>3 DEF Q

\* A plan as the planner returns it.
LEMMA FreshLemma ==
  ASSUME NEW g \in Graphs
  PROVE  /\ IsPlan(Fresh(g))
         /\ Completed(Fresh(g)) = {}
         /\ StepsOf(Fresh(g)) = DOMAIN g
<1> DEFINE Q == Fresh(g)
<1>1. /\ Q = [x \in Fields |-> Q[x]]
      /\ Q.status = "pending"
      /\ Q.graph = g
      /\ Q.tries = [s \in DOMAIN g |-> 0]
      /\ Q.step = [s \in DOMAIN g |-> "pending"]
  BY DEF Fresh, Fields
<1> HIDE DEF Q
<1>2. QED
  BY <1>1 DEF IsPlan, Q, Completed, WithStatus, StepsOf, PlanStatus, StepStatus

\* A change of the status of the plan changes nothing else.
LEMMA StatusLemma ==
  ASSUME NEW P, IsPlan(P), NEW st \in PlanStatus
  PROVE  LET Q == [P EXCEPT !.status = st]
         IN /\ IsPlan(Q)
            /\ Q.status = st
            /\ Q.graph = P.graph
            /\ Q.step = P.step
            /\ Q.tries = P.tries
<1> DEFINE Q == [P EXCEPT !.status = st]
<1>1. /\ Q = [x \in Fields |-> Q[x]]
      /\ Q.status = st
      /\ Q.graph = P.graph
      /\ Q.tries = P.tries
      /\ Q.step = P.step
  BY DEF IsPlan, Fields
<1> HIDE DEF Q
<1>2. IsPlan(Q)
  BY <1>1 DEF IsPlan
<1>3. QED
  BY <1>1, <1>2 DEF Q


\* Completed after a marking.
LEMMA CompletedLemma ==
  ASSUME NEW P, IsPlan(P), NEW S, NEW st \in StepStatus
  PROVE  /\ StepsOf(Marked(P, S, st)) = StepsOf(P)
         /\ st = "completed" => Completed(Marked(P, S, st)) = Completed(P) \cup (S \cap StepsOf(P))
         /\ st # "completed" => Completed(Marked(P, S, st)) = Completed(P) \ S
<1> DEFINE Q == Marked(P, S, st)
<1>1. Q.graph = P.graph /\ \A s \in StepsOf(P) : Q.step[s] = IF s \in S THEN st ELSE P.step[s]
  BY MarkedLemma
<1> HIDE DEF Q
<1>2. QED
  BY <1>1 DEF Completed, WithStatus, StepsOf, Q

\* The steps of a plan are finitely many.
LEMMA StepsFinite ==
  ASSUME NEW P, IsPlan(P)
  PROVE  IsFiniteSet(StepsOf(P)) /\ StepsOf(P) \subseteq Steps
BY GraphAssumption DEF IsPlan, StepsOf, Steps

\* Nothing of call d has changed.
LEMMA SameCall ==
  ASSUME NEW d, CallInv(d), copy'[d] = copy[d], stage'[d] = stage[d], attempt'[d] = attempt[d],
         passed'[d] = passed[d], ready'[d] = ready[d], flying'[d] = flying[d],
         executed'[d] = executed[d]
  PROVE  CallInv(d)'
BY DEF CallInv, InProgress, ReplansLeft

\* The limits, one by one.
LEMMA Limits ==
  /\ Cap \in Nat /\ Cap > 0
  /\ MaxRetries \in Nat
  /\ MaxReplans \in Nat
  /\ MaxSteps \in Nat
BY LimitAssumption

\* Initially.
LEMMA InitInv == ASSUME Init PROVE IInv
<1>1. Types
  <2>1. 0 \in 0 .. MaxReplans
    BY Limits
  <2>2. DOMAIN copy = Calls /\ \A c \in Calls : copy[c] = NoPlan
    BY DEF Init
  <2>3. /\ stage \in [Calls -> {"new", "levels", "batch", "replanning", "done", "lost"}]
        /\ attempt \in [Calls -> 0 .. MaxReplans]
        /\ passed \in [Calls -> SUBSET Steps]
        /\ ready \in [Calls -> SUBSET Steps]
        /\ flying \in [Calls -> SUBSET Steps]
        /\ replan \in [Calls -> BOOLEAN]
        /\ stopped \in [Calls -> BOOLEAN]
        /\ executed \in [Calls -> Nat]
    BY <2>1 DEF Init
  <2>4. QED
    BY <2>2, <2>3 DEF Init, Types
<1>2. ASSUME NEW c \in Calls PROVE CallInv(c)
  BY Limits, FS_EmptySet DEF Init, CallInv, InProgress
<1>3. StoreInv
  BY DEF Init, StoreInv, CompletedMeansAll, RunningIsRun
<1>4. QED
  BY <1>1, <1>2, <1>3 DEF IInv

\* A plan that is saved as running, by a call that goes on, is fine.
LEMMA SavesRunning ==
  ASSUME NEW c \in Calls, InProgress(c)', store'.status = "running"
  PROVE  StoreInv'
BY DEF StoreInv, CompletedMeansAll, RunningIsRun

\* So is the store when it is left alone and no call ends.
LEMMA StoreKept ==
  ASSUME StoreInv, store' = store, \A d \in Calls : InProgress(d) => InProgress(d)'
  PROVE  StoreInv'
BY DEF StoreInv, CompletedMeansAll, RunningIsRun, Completed, WithStatus, StepsOf

\* An attempt begins.
LEMMA BeginInv ==
  ASSUME IInv, NEW c \in Calls, NEW P, IsPlan(P), NEW n \in 0 .. MaxReplans,
         stage[c] # "batch", Begin(c, P, n)
  PROVE  IInv'
<1> DEFINE Q == [P EXCEPT !.status = "running"]
<1>1. IsPlan(Q) /\ Q.status = "running"
  BY StatusLemma DEF PlanStatus
<1>2. Types /\ (\A d \in Calls : CallInv(d))
  BY DEF IInv
<1>3. /\ store' = Q
      /\ copy' = [copy EXCEPT ![c] = Q]
      /\ stage' = [stage EXCEPT ![c] = "levels"]
      /\ attempt' = [attempt EXCEPT ![c] = n]
      /\ passed' = [passed EXCEPT ![c] = {}]
      /\ ready' = [ready EXCEPT ![c] = {}]
      /\ replan' = [replan EXCEPT ![c] = FALSE]
      /\ stopped' = [stopped EXCEPT ![c] = FALSE]
      /\ executed' = [executed EXCEPT ![c] = 0]
      /\ running' = TRUE
      /\ abortRequested' = FALSE
      /\ UNCHANGED <<flying, crashes>>
  BY DEF Begin, Save
<1> HIDE DEF Q
<1>4. Types'
  BY <1>1, <1>2, <1>3 DEF Types
<1>5. flying[c] = {}
  BY <1>2 DEF CallInv
<1>6. CallInv(c)'
  BY <1>1, <1>2, <1>3, <1>5, FS_EmptySet, Limits DEF CallInv, InProgress, Types
<1>7. ASSUME NEW d \in Calls, d # c PROVE CallInv(d)'
  BY <1>2, <1>3, <1>7, SameCall DEF Types
<1>8. StoreInv'
  BY <1>1, <1>2, <1>3, SavesRunning DEF InProgress, Types
<1>9. QED
  BY <1>4, <1>6, <1>7, <1>8 DEF IInv


\* CreateAndRun and RunStored.
LEMMA StartInv ==
  ASSUME IInv, NEW c \in Calls, CreateAndRun(c) \/ RunStored(c)
  PROVE  IInv'
<1>1. CASE CreateAndRun(c)
  <2>1. PICK g \in Graphs : Begin(c, Fresh(g), 0)
    BY <1>1 DEF CreateAndRun
  <2>2. stage[c] # "batch"
    BY <1>1 DEF CreateAndRun, IInv, Types
  <2>3. IsPlan(Fresh(g)) /\ 0 \in 0 .. MaxReplans
    BY FreshLemma, Limits
  <2>4. QED
    BY <2>1, <2>2, <2>3, BeginInv
<1>2. CASE RunStored(c)
  <2>1. IsPlan(store) /\ 0 \in 0 .. MaxReplans
    BY <1>2, Limits DEF RunStored, IInv, Types
  <2>2. stage[c] # "batch" /\ Begin(c, store, 0)
    BY <1>2 DEF RunStored
  <2>3. QED
    BY <2>1, <2>2, BeginInv
<1>3. QED
  BY <1>1, <1>2

\* Replanned.
LEMMA ReplannedInv ==
  ASSUME IInv, NEW c \in Calls, Replanned(c)
  PROVE  IInv'
<1>1. PICK g \in Graphs : Begin(c, Fresh(g), attempt[c] + 1)
  BY DEF Replanned
<1>2. stage[c] = "replanning"
  BY DEF Replanned, IInv, Types
<1>3. attempt[c] + 1 \in 0 .. MaxReplans
  BY <1>2, Limits DEF IInv, CallInv, ReplansLeft, Types
<1>4. QED
  BY <1>1, <1>2, <1>3, FreshLemma, BeginInv

\* A step of call c that stays at stage "levels" with nothing in flight: its copy
\* becomes Q.
LEMMA LevelsInv ==
  ASSUME IInv, NEW c \in Calls, NEW Q, IsPlan(Q), Q.status = "running",
         stage[c] = "levels", DOMAIN copy' = Calls, copy'[c] = Q,
         \A d \in Calls : d # c => copy'[d] = copy[d],
         passed' \in [Calls -> SUBSET Steps], ready' \in [Calls -> SUBSET Steps],
         \A d \in Calls : d # c => passed'[d] = passed[d] /\ ready'[d] = ready[d],
         passed'[c] \subseteq StepsOf(Q),
         ready'[c] \subseteq passed'[c],
         \A s \in ready'[c] : s \notin Completed(Q) /\ Q.graph[s] \subseteq Completed(Q),
         stopped' \in [Calls -> BOOLEAN],
         store' = store \/ store' = Q,
         UNCHANGED <<stage, attempt, flying, replan, executed, flagVars, crashes>>
  PROVE  IInv'
<1>1. Types /\ (\A d \in Calls : CallInv(d)) /\ StoreInv
  BY DEF IInv
<1>2. Types'
  BY <1>1 DEF Types, flagVars
<1>3. flying[c] = {} /\ InProgress(c)
  BY <1>1 DEF CallInv, InProgress
<1>4. CallInv(c)'
  <2>1. copy'[c] = Q /\ stage'[c] = "levels" /\ flying'[c] = {}
    BY <1>1, <1>3 DEF Types
  <2>2. executed'[c] = executed[c] /\ flying'[c] = flying[c]
    OBVIOUS
  <2>3. QED
    BY <1>1, <2>1, <2>2 DEF CallInv
<1>5. ASSUME NEW d \in Calls, d # c PROVE CallInv(d)'
  BY <1>1, <1>5, SameCall DEF Types
<1>6. StoreInv'
  <2>1. \A d \in Calls : InProgress(d) => InProgress(d)'
    BY DEF InProgress
  <2>2. CASE store' = store
    BY <1>1, <2>1, <2>2, StoreKept
  <2>3. CASE store' = Q
    BY <1>3, <2>1, <2>3, SavesRunning
  <2>4. QED
    BY <2>2, <2>3
<1>7. QED
  BY <1>2, <1>4, <1>5, <1>6 DEF IInv

\* The copy of a call in progress.
LEMMA CopyFacts ==
  ASSUME IInv, NEW c \in Calls, InProgress(c)
  PROVE  /\ IsPlan(copy[c]) /\ copy[c].status = "running"
         /\ passed[c] \subseteq StepsOf(copy[c])
         /\ ready[c] \cup flying[c] \subseteq passed[c]
         /\ ready[c] \cap flying[c] = {}
         /\ \A s \in ready[c] \cup flying[c] :
              s \notin Completed(copy[c]) /\ copy[c].graph[s] \subseteq Completed(copy[c])
         /\ StepsOf(copy[c]) \subseteq Steps /\ IsFiniteSet(StepsOf(copy[c]))
BY StepsFinite DEF IInv, CallInv

\* StopAtLevel and OverBudget.
LEMMA StopsShortInv ==
  ASSUME IInv, NEW c \in Calls, stage[c] = "levels", NEW S, StopsShort(c, S)
  PROVE  IInv'
<1> DEFINE T == S \cap Unfinished(copy[c])
           Q == Marked(copy[c], T, "skipped")
<1>1. InProgress(c)
  BY DEF InProgress
<1>2. IsPlan(Q) /\ Q.status = "running" /\ StepsOf(Q) = StepsOf(copy[c])
  <2> HIDE DEF T
  <2>1. IsPlan(copy[c]) /\ copy[c].status = "running" /\ "skipped" \in StepStatus
    BY <1>1, CopyFacts DEF StepStatus
  <2>2. IsPlan(Q) /\ Q.status = copy[c].status
    BY <2>1, MarkedLemma
  <2>3. StepsOf(Q) = StepsOf(copy[c])
    BY <2>1, CompletedLemma
  <2>4. QED
    BY <2>1, <2>2, <2>3
<1>3. /\ copy' = [copy EXCEPT ![c] = Q]
      /\ store' = copy'[c]
      /\ stopped' = [stopped EXCEPT ![c] = TRUE]
      /\ ready' = [ready EXCEPT ![c] = {}]
      /\ UNCHANGED <<stage, attempt, passed, flying, replan, executed, flagVars,
                     crashes>>
  BY DEF StopsShort, Save
<1> HIDE DEF Q
<1>4. /\ store' = Q /\ DOMAIN copy' = Calls /\ copy'[c] = Q
      /\ \A d \in Calls : d # c => copy'[d] = copy[d]
  BY <1>3 DEF IInv, Types
<1>5. /\ passed' \in [Calls -> SUBSET Steps] /\ ready' \in [Calls -> SUBSET Steps]
      /\ stopped' \in [Calls -> BOOLEAN]
      /\ ready'[c] = {} /\ passed'[c] \subseteq StepsOf(Q)
      /\ \A d \in Calls : d # c => passed'[d] = passed[d] /\ ready'[d] = ready[d]
  BY <1>1, <1>2, <1>3, CopyFacts DEF IInv, Types
<1>6. QED
  BY <1>2, <1>3, <1>4, <1>5, LevelsInv

\* OpenLevel.
LEMMA OpenLevelInv ==
  ASSUME IInv, NEW c \in Calls, OpenLevel(c)
  PROVE  IInv'
<1> DEFINE P == copy[c]
           L == NextLevel(P, passed[c])
           due == Pending(P, L)
           fit == {s \in due : Runnable(P, s)}
           reset == fit \cap WithStatus(P, "running")
           R == Marked(P, reset, "pending")
           Q == Marked(R, due \ fit, "skipped")
<1>1. InProgress(c) /\ stage[c] = "levels"
  BY DEF InProgress, OpenLevel, AtLevel
<1>2. IsPlan(P) /\ P.status = "running"
  BY <1>1, CopyFacts
<1>3. L \subseteq StepsOf(P) /\ due = L \ Completed(P) /\ fit \subseteq due
  BY DEF NextLevel, Pending
<1>4. \A s \in fit : P.graph[s] \subseteq Completed(P)
  BY DEF Runnable
<1>5. reset \cap Completed(P) = {}
  BY <1>3
<1> HIDE DEF P, L, due, fit, reset, R, Q
<1>6. /\ IsPlan(R) /\ R.status = "running" /\ R.graph = P.graph
      /\ StepsOf(R) = StepsOf(P) /\ Completed(R) = Completed(P)
  <2>1. "pending" \in StepStatus /\ "pending" # "completed"
    BY DEF StepStatus
  <2>2. IsPlan(R) /\ R.status = "running" /\ R.graph = P.graph
    BY <1>2, <2>1, MarkedLemma DEF R
  <2>3. StepsOf(R) = StepsOf(P) /\ Completed(R) = Completed(P) \ reset
    BY <1>2, <2>1, CompletedLemma DEF R
  <2>4. QED
    BY <1>5, <2>2, <2>3
<1>7. /\ IsPlan(Q) /\ Q.status = "running" /\ Q.graph = P.graph
      /\ StepsOf(Q) = StepsOf(P) /\ Completed(Q) = Completed(P)
  <2>1. "skipped" \in StepStatus /\ "skipped" # "completed"
    BY DEF StepStatus
  <2>2. IsPlan(Q) /\ Q.status = "running" /\ Q.graph = P.graph
    BY <1>6, <2>1, MarkedLemma DEF Q
  <2>3. StepsOf(Q) = StepsOf(P) /\ Completed(Q) = Completed(P) \ (due \ fit)
    BY <1>6, <2>1, CompletedLemma DEF Q
  <2>4. (due \ fit) \cap Completed(P) = {}
    BY <1>3
  <2>5. QED
    BY <2>2, <2>3, <2>4
<1>8. /\ copy' = [copy EXCEPT ![c] = Q]
      /\ passed' = [passed EXCEPT ![c] = @ \cup L]
      /\ ready' = [ready EXCEPT ![c] = fit]
      /\ UNCHANGED <<store, stage, attempt, flying, replan, stopped, executed, flagVars,
                    crashes>>
  BY DEF OpenLevel, Q, R, reset, fit, due, L, P
<1>9. passed[c] \subseteq StepsOf(P) /\ StepsOf(P) \subseteq Steps
  BY <1>1, CopyFacts DEF P
<1>10. /\ passed' \in [Calls -> SUBSET Steps] /\ ready' \in [Calls -> SUBSET Steps]
       /\ stopped' \in [Calls -> BOOLEAN]
       /\ DOMAIN copy' = Calls /\ copy'[c] = Q
       /\ \A d \in Calls : d # c => copy'[d] = copy[d]
       /\ ready'[c] = fit /\ passed'[c] = passed[c] \cup L
       /\ \A d \in Calls : d # c => passed'[d] = passed[d] /\ ready'[d] = ready[d]
  BY <1>3, <1>8, <1>9 DEF IInv, Types
<1>11. /\ passed'[c] \subseteq StepsOf(Q) /\ ready'[c] \subseteq passed'[c]
       /\ \A s \in ready'[c] : s \notin Completed(Q) /\ Q.graph[s] \subseteq Completed(Q)
  BY <1>3, <1>4, <1>7, <1>9, <1>10
<1>12. QED
  BY <1>1, <1>7, <1>8, <1>10, <1>11, LevelsInv

\* StopAtBatch.
LEMMA StopAtBatchInv ==
  ASSUME IInv, NEW c \in Calls, StopAtBatch(c)
  PROVE  IInv'
<1>1. InProgress(c) /\ stage[c] = "levels"
  BY DEF InProgress, StopAtBatch, AtBatch
<1>2. /\ ready' = [ready EXCEPT ![c] = {}]
      /\ stopped' = [stopped EXCEPT ![c] = TRUE]
      /\ UNCHANGED <<store, copy, stage, attempt, passed, flying, replan, executed, flagVars,
                     crashes>>
  BY DEF StopAtBatch
<1>3. /\ passed' \in [Calls -> SUBSET Steps] /\ ready' \in [Calls -> SUBSET Steps]
      /\ stopped' \in [Calls -> BOOLEAN]
      /\ ready'[c] = {} /\ DOMAIN copy' = Calls
      /\ \A d \in Calls : d # c => passed'[d] = passed[d] /\ ready'[d] = ready[d]
  BY <1>2 DEF IInv, Types
<1>4. QED
  BY <1>1, <1>2, <1>3, CopyFacts, LevelsInv


\* The size of a batch is within what is left of the budget.
LEMMA BatchFits ==
  ASSUME NEW c \in Calls, executed[c] \in Nat, ~OutOfSteps(c), NEW k \in Nat, NEW n,
         n = MinOf(MinOf(Cap, k), BudgetLeft(c, MinOf(Cap, k)))
  PROVE  n \in Nat /\ (MaxSteps > 0 => executed[c] + n <= MaxSteps)
<1>1. MinOf(Cap, k) \in Nat
  BY Limits DEF MinOf
<1> DEFINE w == MinOf(Cap, k)
<1> HIDE DEF w
<1>2. w \in Nat /\ n = MinOf(w, BudgetLeft(c, w))
  BY <1>1 DEF w
<1>3. QED
  BY <1>2, Limits DEF MinOf, BudgetLeft, OutOfSteps

\* LaunchBatch.
LEMMA LaunchBatchInv ==
  ASSUME IInv, NEW c \in Calls, LaunchBatch(c)
  PROVE  IInv'
<1> DEFINE P == copy[c]
           wanted == MinOf(Cap, Cardinality(ready[c]))
           room == BudgetLeft(c, wanted)
           cut == room < wanted
<1>1. PICK B \in SUBSET ready[c] :
        LET rest == ready[c] \ B
        IN /\ Cardinality(B) = MinOf(wanted, room)
           /\ copy' = [copy EXCEPT ![c] =
                Marked(Marked(@, IF cut THEN rest \cap Unfinished(@) ELSE {}, "skipped"),
                       B, "running")]
           /\ ready' = [ready EXCEPT ![c] = IF cut THEN {} ELSE rest]
           /\ flying' = [flying EXCEPT ![c] = B]
  BY DEF LaunchBatch
<1> DEFINE rest == ready[c] \ B
           left == IF cut THEN rest \cap Unfinished(P) ELSE {}
           R == Marked(P, left, "skipped")
           Q == Marked(R, B, "running")
<1>2. /\ stage[c] = "levels" /\ ~OutOfSteps(c)
      /\ store' = copy'[c]
      /\ stage' = [stage EXCEPT ![c] = "batch"]
      /\ stopped' = [stopped EXCEPT ![c] = cut]
      /\ UNCHANGED <<attempt, passed, replan, executed, flagVars, crashes>>
  BY DEF LaunchBatch, AtBatch, GoesOn, Save
<1>3. /\ Types /\ (\A d \in Calls : CallInv(d))
      /\ InProgress(c)
  BY <1>2 DEF IInv, InProgress
<1>4. /\ IsPlan(P) /\ P.status = "running"
      /\ passed[c] \subseteq StepsOf(P)
      /\ ready[c] \subseteq passed[c]
      /\ \A s \in ready[c] : s \notin Completed(P) /\ P.graph[s] \subseteq Completed(P)
      /\ StepsOf(P) \subseteq Steps /\ IsFiniteSet(StepsOf(P))
  BY <1>3, CopyFacts
<1>5. left \subseteq ready[c]
  OBVIOUS
<1>6. /\ DOMAIN copy' = Calls /\ copy'[c] = Q
      /\ \A d \in Calls : d # c => copy'[d] = copy[d]
  BY <1>1, <1>3 DEF Types
<1>7. /\ ready'[c] \subseteq ready[c] /\ ready'[c] \cap B = {}
      /\ ready' \in [Calls -> SUBSET Steps]
      /\ \A d \in Calls : d # c => ready'[d] = ready[d]
  BY <1>1, <1>3 DEF Types
<1>8. /\ flying'[c] = B
      /\ flying' \in [Calls -> SUBSET Steps]
      /\ \A d \in Calls : d # c => flying'[d] = flying[d]
  BY <1>1, <1>3 DEF Types
<1>9. IsFiniteSet(ready[c]) /\ IsFiniteSet(B)
  BY <1>4, FS_Subset
<1>10. MaxSteps > 0 => executed[c] + Cardinality(B) <= MaxSteps
  BY <1>1, <1>2, <1>3, <1>9, FS_CardinalityType, BatchFits DEF Types
<1>11. cut \in BOOLEAN
  OBVIOUS
<1> HIDE DEF P, left, R, Q, cut
<1>12. /\ IsPlan(R) /\ R.status = "running" /\ R.graph = P.graph
       /\ StepsOf(R) = StepsOf(P) /\ Completed(R) = Completed(P)
  <2>1. "skipped" \in StepStatus /\ "skipped" # "completed"
    BY DEF StepStatus
  <2>2. IsPlan(R) /\ R.status = "running" /\ R.graph = P.graph
    BY <1>4, <2>1, MarkedLemma DEF R
  <2>3. StepsOf(R) = StepsOf(P) /\ Completed(R) = Completed(P) \ left
    BY <1>4, <2>1, CompletedLemma DEF R
  <2>4. QED
    BY <1>4, <1>5, <2>2, <2>3
<1>13. /\ IsPlan(Q) /\ Q.status = "running" /\ Q.graph = P.graph
       /\ StepsOf(Q) = StepsOf(P) /\ Completed(Q) = Completed(P)
  <2>1. "running" \in StepStatus /\ "running" # "completed"
    BY DEF StepStatus
  <2>2. IsPlan(Q) /\ Q.status = "running" /\ Q.graph = P.graph
    BY <1>12, <2>1, MarkedLemma DEF Q
  <2>3. StepsOf(Q) = StepsOf(P) /\ Completed(Q) = Completed(P) \ B
    BY <1>12, <2>1, CompletedLemma DEF Q
  <2>4. QED
    BY <1>4, <2>2, <2>3
<1>14. Types'
  BY <1>2, <1>3, <1>6, <1>7, <1>8, <1>11, <1>13 DEF Types, flagVars
<1>15. CallInv(c)'
  <2>1. stage'[c] = "batch" /\ executed'[c] = executed[c] /\ passed'[c] = passed[c]
    BY <1>2, <1>3 DEF Types
  <2>2. \A s \in ready'[c] \cup flying'[c] :
          s \notin Completed(Q) /\ Q.graph[s] \subseteq Completed(Q)
    BY <1>4, <1>7, <1>8, <1>13
  <2>3. ready'[c] \cup flying'[c] \subseteq passed'[c] /\ ready'[c] \cap flying'[c] = {}
    BY <1>4, <1>7, <1>8, <2>1
  <2>4. QED
    BY <1>4, <1>6, <1>8, <1>9, <1>10, <1>13, <2>1, <2>2, <2>3 DEF CallInv
<1>16. ASSUME NEW d \in Calls, d # c PROVE CallInv(d)'
  BY <1>2, <1>3, <1>6, <1>7, <1>8, <1>16, SameCall DEF Types
<1>17. StoreInv'
  BY <1>2, <1>3, <1>6, <1>13, SavesRunning DEF InProgress, Types
<1>18. QED
  BY <1>14, <1>15, <1>16, <1>17 DEF IInv


\* The end of a step in flight, whatever its status.
LEMMA StepEndsInv ==
  ASSUME IInv, NEW c \in Calls, NEW s \in flying[c], stage[c] = "batch",
         NEW st \in StepStatus, NEW again \in BOOLEAN, StepEnds(c, s, st, again),
         UNCHANGED <<store, stage, attempt, passed, ready, stopped, flagVars, crashes>>
  PROVE  IInv'
<1> DEFINE P == copy[c]
           Q == Marked(P, {s}, st)
<1>1. /\ Types /\ (\A d \in Calls : CallInv(d)) /\ StoreInv
      /\ InProgress(c)
  BY DEF IInv, InProgress
<1>2. /\ IsPlan(P) /\ P.status = "running"
      /\ passed[c] \subseteq StepsOf(P)
      /\ ready[c] \cup flying[c] \subseteq passed[c]
      /\ ready[c] \cap flying[c] = {}
      /\ \A t \in ready[c] \cup flying[c] :
           t \notin Completed(P) /\ P.graph[t] \subseteq Completed(P)
  BY <1>1, CopyFacts
<1>3. /\ DOMAIN copy' = Calls /\ copy'[c] = Q
      /\ \A d \in Calls : d # c => copy'[d] = copy[d]
  BY <1>1 DEF StepEnds, Types
<1>4. /\ flying'[c] = flying[c] \ {s}
      /\ flying' \in [Calls -> SUBSET Steps]
      /\ \A d \in Calls : d # c => flying'[d] = flying[d]
  BY <1>1 DEF StepEnds, Types
<1>5. /\ executed'[c] = executed[c] + 1 /\ executed[c] \in Nat
      /\ executed' \in [Calls -> Nat]
      /\ \A d \in Calls : d # c => executed'[d] = executed[d]
  BY <1>1 DEF StepEnds, Types
<1>6. replan' \in [Calls -> BOOLEAN]
  <2>1. /\ replan \in [Calls -> BOOLEAN]
        /\ replan' = [replan EXCEPT ![c] = @ \/ again]
    BY <1>1 DEF StepEnds, Types
  <2>2. QED
    BY <2>1, Zenon
<1> HIDE DEF P, Q
<1>7. IsPlan(Q) /\ Q.status = "running" /\ Q.graph = P.graph
  BY <1>2, MarkedLemma DEF Q
<1>8. /\ StepsOf(Q) = StepsOf(P)
      /\ Completed(Q) \subseteq Completed(P) \cup {s}
      /\ Completed(P) \subseteq Completed(Q)
  BY <1>2, CompletedLemma DEF Q
<1>9. Types'
  BY <1>1, <1>3, <1>4, <1>5, <1>6, <1>7 DEF Types, flagVars
<1>10. CallInv(c)'
  <2>1. IsFiniteSet(flying[c])
    BY <1>1 DEF CallInv
  <2>2. /\ Cardinality(flying[c]) \in Nat /\ IsFiniteSet(flying[c] \ {s})
        /\ Cardinality(flying[c] \ {s}) = Cardinality(flying[c]) - 1
    BY <2>1, FS_CardinalityType, FS_RemoveElement
  <2>3. MaxSteps > 0 => executed'[c] + Cardinality(flying'[c]) <= MaxSteps
    BY <1>1, <1>4, <1>5, <2>2, Limits DEF CallInv
  <2>4. \A t \in ready'[c] \cup flying'[c] :
          t \notin Completed(Q) /\ Q.graph[t] \subseteq Completed(Q)
    BY <1>2, <1>4, <1>7, <1>8
  <2>5. /\ stage'[c] = "batch" /\ passed'[c] \subseteq StepsOf(Q)
        /\ ready'[c] \cup flying'[c] \subseteq passed'[c]
        /\ ready'[c] \cap flying'[c] = {}
    BY <1>2, <1>4, <1>8
  <2>6. QED
    BY <1>3, <1>4, <1>7, <2>2, <2>3, <2>4, <2>5 DEF CallInv
<1>11. ASSUME NEW d \in Calls, d # c PROVE CallInv(d)'
  BY <1>1, <1>3, <1>4, <1>5, <1>11, SameCall
<1>12. StoreInv'
  BY <1>1, StoreKept DEF InProgress
<1>13. QED
  BY <1>9, <1>10, <1>11, <1>12 DEF IInv

\* StepSettles and StepGivesUp.
LEMMA StepSettlesInv ==
  ASSUME IInv, NEW c \in Calls, NEW s \in Steps, StepSettles(c, s) \/ StepGivesUp(c, s)
  PROVE  IInv'
<1>1. /\ s \in flying[c] /\ stage[c] = "batch"
      /\ UNCHANGED <<store, stage, attempt, passed, ready, stopped, flagVars, crashes>>
  BY DEF StepSettles, StepGivesUp
<1>2. \/ StepEnds(c, s, "completed", FALSE)
      \/ StepEnds(c, s, "failed", FALSE)
      \/ StepEnds(c, s, "failed", TRUE)
  BY DEF StepSettles, StepGivesUp
<1>3. "completed" \in StepStatus /\ "failed" \in StepStatus
  BY DEF StepStatus
<1>4. QED
  BY <1>1, <1>2, <1>3, StepEndsInv

\* StepRetries.
LEMMA StepRetriesInv ==
  ASSUME IInv, NEW c \in Calls, NEW s \in Steps, StepRetries(c, s)
  PROVE  IInv'
<1> DEFINE P == copy[c]
           Q == [P EXCEPT !.tries[s] = @ + 1]
<1>1. /\ Types /\ (\A d \in Calls : CallInv(d)) /\ StoreInv
      /\ stage[c] = "batch" /\ s \in flying[c]
      /\ InProgress(c)
  BY DEF IInv, InProgress, StepRetries
<1>2. /\ copy' = [copy EXCEPT ![c].tries[s] = @ + 1]
      /\ UNCHANGED <<store, stage, passVars, flagVars, crashes>>
  BY DEF StepRetries
<1>3. IsPlan(P) /\ s \in DOMAIN P.graph
  BY <1>1, CopyFacts DEF StepsOf
<1>4. /\ Q = [x \in Fields |-> Q[x]]
      /\ Q.status = P.status
      /\ Q.graph = P.graph
      /\ Q.step = P.step
      /\ Q.tries \in [DOMAIN P.graph -> Nat]
  BY <1>3 DEF IsPlan, Fields
<1>5. /\ DOMAIN copy' = Calls /\ copy'[c] = Q
      /\ \A d \in Calls : d # c => copy'[d] = copy[d]
  BY <1>1, <1>2 DEF Types
<1> HIDE DEF Q
<1>6. IsPlan(Q) /\ Completed(Q) = Completed(P) /\ StepsOf(Q) = StepsOf(P)
  BY <1>3, <1>4 DEF IsPlan, Completed, WithStatus, StepsOf
<1>7. Types'
  BY <1>1, <1>2, <1>5, <1>6 DEF Types, passVars, flagVars
<1>8. CallInv(c)'
  <2>1. /\ stage'[c] = "batch" /\ passed'[c] = passed[c] /\ ready'[c] = ready[c]
        /\ flying'[c] = flying[c] /\ executed'[c] = executed[c]
    BY <1>1, <1>2 DEF passVars
  <2>2. QED
    BY <1>1, <1>4, <1>5, <1>6, <2>1 DEF CallInv
<1>9. ASSUME NEW d \in Calls, d # c PROVE CallInv(d)'
  BY <1>1, <1>2, <1>5, <1>9, SameCall DEF passVars
<1>10. StoreInv'
  BY <1>1, <1>2, StoreKept DEF InProgress
<1>11. QED
  BY <1>7, <1>8, <1>9, <1>10 DEF IInv

\* JoinBatch.
LEMMA JoinBatchInv ==
  ASSUME IInv, NEW c \in Calls, JoinBatch(c)
  PROVE  IInv'
<1>1. /\ Types /\ (\A d \in Calls : CallInv(d)) /\ StoreInv
      /\ stage[c] = "batch" /\ flying[c] = {}
      /\ InProgress(c)
  BY DEF IInv, InProgress, JoinBatch, AllSettled
<1>2. /\ store' = copy[c]
      /\ stage' = [stage EXCEPT ![c] = "levels"]
      /\ ready' = [ready EXCEPT ![c] = IF replan[c] \/ stopped[c] THEN {} ELSE @]
      /\ UNCHANGED <<copy, attempt, passed, flying, replan, stopped, executed, flagVars,
                     crashes>>
  BY DEF JoinBatch, Save
<1>3. /\ ready'[c] \subseteq ready[c] /\ ready' \in [Calls -> SUBSET Steps]
      /\ \A d \in Calls : d # c => ready'[d] = ready[d]
  BY <1>1, <1>2 DEF Types
<1>4. /\ stage'[c] = "levels" /\ \A d \in Calls : d # c => stage'[d] = stage[d]
      /\ stage' \in [Calls -> {"new", "levels", "batch", "replanning", "done", "lost"}]
  BY <1>1, <1>2 DEF Types
<1>5. IsPlan(copy[c]) /\ copy[c].status = "running"
  BY <1>1, CopyFacts
<1>6. Types'
  BY <1>1, <1>2, <1>3, <1>4, <1>5 DEF Types, flagVars
<1>7. CallInv(c)'
  BY <1>1, <1>2, <1>3, <1>4 DEF CallInv
<1>8. ASSUME NEW d \in Calls, d # c PROVE CallInv(d)'
  BY <1>1, <1>2, <1>3, <1>4, <1>8, SameCall
<1>9. StoreInv'
  BY <1>2, <1>4, <1>5, SavesRunning DEF InProgress
<1>10. QED
  BY <1>6, <1>7, <1>8, <1>9 DEF IInv

\* AskPlanner.
LEMMA AskPlannerInv ==
  ASSUME IInv, NEW c \in Calls, AskPlanner(c)
  PROVE  IInv'
<1>1. /\ Types /\ (\A d \in Calls : CallInv(d)) /\ StoreInv
      /\ stage[c] = "levels" /\ ready[c] = {} /\ ReplansLeft(c)
  BY DEF IInv, AskPlanner, AtEnd
<1>2. /\ stage' = [stage EXCEPT ![c] = "replanning"]
      /\ UNCHANGED <<store, copy, passVars, flagVars, crashes>>
  BY DEF AskPlanner
<1>3. /\ stage'[c] = "replanning" /\ \A d \in Calls : d # c => stage'[d] = stage[d]
      /\ stage' \in [Calls -> {"new", "levels", "batch", "replanning", "done", "lost"}]
  BY <1>1, <1>2 DEF Types
<1>4. Types'
  BY <1>1, <1>2, <1>3 DEF Types, passVars, flagVars
<1>5. CallInv(c)'
  BY <1>1, <1>2, <1>3 DEF CallInv, InProgress, ReplansLeft, passVars
<1>6. ASSUME NEW d \in Calls, d # c PROVE CallInv(d)'
  BY <1>1, <1>2, <1>3, <1>6, SameCall DEF passVars
<1>7. StoreInv'
  BY <1>1, <1>2, <1>3, StoreKept DEF InProgress
<1>8. QED
  BY <1>4, <1>5, <1>6, <1>7 DEF IInv


\* The types, once the calls in C have gone.
LEMMA DroppedTypes ==
  ASSUME IInv, NEW C, Dropped(C), store' = NoPlan \/ IsPlan(store'),
         stage' \in [Calls -> {"new", "levels", "batch", "replanning", "done", "lost"}],
         running' \in BOOLEAN, abortRequested' \in BOOLEAN, crashes' \in Nat
  PROVE  Types'
<1>1. Types /\ 0 \in 0 .. MaxReplans
  BY Limits DEF IInv
<1>2. /\ DOMAIN copy' = Calls
      /\ \A c \in Calls : copy'[c] = NoPlan \/ IsPlan(copy'[c])
  BY <1>1 DEF Dropped, Types
<1>3. /\ attempt' \in [Calls -> 0 .. MaxReplans]
      /\ executed' \in [Calls -> Nat]
  BY <1>1 DEF Dropped, Types
<1>4. /\ passed' \in [Calls -> SUBSET Steps]
      /\ ready' \in [Calls -> SUBSET Steps]
      /\ flying' \in [Calls -> SUBSET Steps]
  BY <1>1 DEF Dropped, Types
<1>5. /\ replan' \in [Calls -> BOOLEAN]
      /\ stopped' \in [Calls -> BOOLEAN]
  BY <1>1, Zenon DEF Dropped, Types
<1>6. QED
  BY <1>1, <1>2, <1>3, <1>4, <1>5 DEF Types

\* A call that has gone.
LEMMA GoneCall ==
  ASSUME NEW C, NEW c \in Calls, c \in C, Dropped(C), ~InProgress(c)'
  PROVE  CallInv(c)'
<1>1. flying'[c] = {} /\ executed'[c] = 0
  BY DEF Dropped
<1>2. stage'[c] # "replanning"
  BY DEF InProgress
<1>3. QED
  BY <1>1, <1>2, FS_EmptySet, Limits DEF CallInv

\* A call that has not.
LEMMA KeptCall ==
  ASSUME NEW C, NEW c \in Calls, c \notin C, Dropped(C), stage'[c] = stage[c], CallInv(c)
  PROVE  CallInv(c)'
<1>1. /\ copy'[c] = copy[c] /\ attempt'[c] = attempt[c] /\ passed'[c] = passed[c]
      /\ ready'[c] = ready[c] /\ flying'[c] = flying[c] /\ executed'[c] = executed[c]
  BY DEF Dropped
<1>2. QED
  BY <1>1, SameCall

\* The return of a call.
LEMMA ReturnsInv ==
  ASSUME IInv, NEW c \in Calls, InProgress(c), NEW st \in {"paused", "completed", "failed"},
         st = "completed" => Completed(copy[c]) = StepsOf(copy[c]), Returns(c, st)
  PROVE  IInv'
<1> DEFINE Q == [copy[c] EXCEPT !.status = st]
<1>1. Types /\ (\A d \in Calls : CallInv(d))
  BY DEF IInv
<1>2. /\ store' = Q
      /\ stage' = [stage EXCEPT ![c] = "done"]
      /\ running' = FALSE
      /\ Dropped({c})
      /\ UNCHANGED <<abortRequested, crashes>>
  BY DEF Returns, Save
<1>3. /\ IsPlan(Q) /\ Q.status = st
      /\ Q.graph = copy[c].graph /\ Q.step = copy[c].step
  <2>1. IsPlan(copy[c]) /\ st \in PlanStatus
    BY CopyFacts DEF PlanStatus
  <2>2. QED
    BY <2>1, StatusLemma
<1> HIDE DEF Q
<1>4. /\ stage'[c] = "done" /\ \A d \in Calls : d # c => stage'[d] = stage[d]
      /\ stage' \in [Calls -> {"new", "levels", "batch", "replanning", "done", "lost"}]
  BY <1>1, <1>2 DEF Types
<1>5. Types'
  <2>1. running' \in BOOLEAN /\ abortRequested' \in BOOLEAN /\ crashes' \in Nat
    BY <1>1, <1>2 DEF Types
  <2>2. QED
    BY <1>2, <1>3, <1>4, <2>1, DroppedTypes
<1>6. CallInv(c)'
  BY <1>2, <1>4, GoneCall DEF InProgress
<1>7. ASSUME NEW d \in Calls, d # c PROVE CallInv(d)'
  BY <1>1, <1>2, <1>4, <1>7, KeptCall
<1>8. StoreInv'
  BY <1>2, <1>3 DEF StoreInv, CompletedMeansAll, RunningIsRun, Completed, WithStatus, StepsOf
<1>9. QED
  BY <1>5, <1>6, <1>7, <1>8 DEF IInv

\* Settle and PlannerFails.
LEMMA SettleInv ==
  ASSUME IInv, NEW c \in Calls, Settle(c) \/ PlannerFails(c)
  PROVE  IInv'
<1>1. CASE Settle(c)
  <2> DEFINE st == Outcome(copy[c], stopped[c] \/ replan[c])
  <2>1. InProgress(c) /\ Returns(c, st)
    BY <1>1 DEF Settle, AtEnd, InProgress
  <2>2. /\ st \in {"paused", "completed", "failed"}
        /\ st = "completed" => Completed(copy[c]) = StepsOf(copy[c])
    BY DEF Outcome
  <2> HIDE DEF st
  <2>3. QED
    BY <2>1, <2>2, ReturnsInv
<1>2. CASE PlannerFails(c)
  BY <1>2, ReturnsInv DEF PlannerFails, InProgress
<1>3. QED
  BY <1>1, <1>2

\* A change of the stored plan alone, that does not leave it running or completed.
LEMMA ControlInv ==
  ASSUME IInv, UNCHANGED <<copy, stage, passVars, running, crashes>>,
         abortRequested' \in BOOLEAN,
         \/ store' = store
         \/ IsPlan(store') /\ store'.status \notin {"running", "completed"}
  PROVE  IInv'
<1>1. Types /\ (\A d \in Calls : CallInv(d)) /\ StoreInv
  BY DEF IInv
<1>2. Types'
  BY <1>1 DEF Types, passVars
<1>3. ASSUME NEW d \in Calls PROVE CallInv(d)'
  BY <1>1, SameCall DEF passVars
<1>4. StoreInv'
  <2>1. CASE store' = store
    BY <1>1, <2>1, StoreKept DEF InProgress
  <2>2. CASE store'.status \notin {"running", "completed"}
    BY <2>2 DEF StoreInv, CompletedMeansAll, RunningIsRun
  <2>3. QED
    BY <2>1, <2>2
<1>5. QED
  BY <1>2, <1>3, <1>4 DEF IInv

\* What the pause of a row makes of it.
LEMMA PausedLemma ==
  ASSUME IInv
  PROVE  /\ \/ Paused(store) = store
            \/ IsPlan(Paused(store)) /\ Paused(store).status = "paused"
         /\ Paused(store) # NoPlan => Paused(store).status # "running"
<1>1. CASE store # NoPlan /\ store.status = "running"
  <2>1. IsPlan(store) /\ Paused(store) = [store EXCEPT !.status = "paused"]
    BY <1>1 DEF IInv, Types, Paused
  <2>2. QED
    BY <2>1, StatusLemma DEF PlanStatus
<1>2. CASE ~(store # NoPlan /\ store.status = "running")
  BY <1>2 DEF Paused
<1>3. QED
  BY <1>1, <1>2

\* Pause, Abort, Cancel and RetryStep.
LEMMA ControlsInv ==
  ASSUME IInv, Pause \/ Abort \/ Cancel \/ \E s \in Steps : RetryStep(s)
  PROVE  IInv'
<1> Types
  BY DEF IInv
<1>1. CASE Pause
  <2>1. /\ UNCHANGED <<copy, stage, passVars, running, crashes>>
        /\ abortRequested' \in BOOLEAN
        /\ store' = Paused(store)
    BY <1>1 DEF Pause, Save, Types, flagVars
  <2>2. QED
    BY <2>1, PausedLemma, ControlInv
<1>2. CASE Abort
  <2>1. /\ UNCHANGED <<copy, stage, passVars, running, crashes>>
       
        /\ store' = Paused(store)
    BY <1>2 DEF Abort, Save, Types
  <2>2. abortRequested' \in BOOLEAN
    BY <1>2, Zenon DEF Abort, Types
  <2>3. QED
    BY <2>1, <2>2, PausedLemma, ControlInv
<1>3. CASE Cancel
  <2> DEFINE R == Marked(store, Unfinished(store), "skipped")
             Q == [R EXCEPT !.status = "failed"]
  <2>1. /\ UNCHANGED <<copy, stage, passVars, running, crashes>>
        /\ abortRequested' \in BOOLEAN
        /\ IsPlan(store) /\ store' = Q
    BY <1>3 DEF Cancel, Cancelled, Save, Types, flagVars
  <2>2. IsPlan(R)
    BY <2>1, MarkedLemma DEF StepStatus
  <2>3. IsPlan(Q) /\ Q.status = "failed"
    <3> HIDE DEF R
    <3>1. QED
      BY <2>2, StatusLemma DEF PlanStatus
  <2> HIDE DEF Q
  <2>4. QED
    BY <2>1, <2>3, ControlInv
<1>4. CASE \E s \in Steps : RetryStep(s)
  <2>1. PICK s \in Steps : RetryStep(s)
    BY <1>4
  <2> DEFINE R == Marked(store, {s}, "pending")
             Q == [R EXCEPT !.status = "paused", !.tries[s] = @ + 1]
  <2>2. /\ UNCHANGED <<copy, stage, passVars, running, crashes>>
        /\ abortRequested' \in BOOLEAN
        /\ IsPlan(store) /\ store' = Q
    BY <2>1 DEF RetryStep, Save, Types, flagVars
  <2>3. IsPlan(R) /\ s \in DOMAIN R.graph
    <3>1. s \in DOMAIN store.graph
      BY <2>1 DEF RetryStep, WithStatus, StepsOf
    <3>2. "pending" \in StepStatus
      BY DEF StepStatus
    <3> HIDE DEF Q
    <3>3. IsPlan(R) /\ R.graph = store.graph
      BY <2>2, <3>2, MarkedLemma
    <3>4. QED
      BY <3>1, <3>3
  <2> HIDE DEF R
  <2>4. /\ Q = [x \in Fields |-> Q[x]]
        /\ Q.status = "paused"
        /\ Q.graph = R.graph
        /\ Q.step = R.step
        /\ Q.tries \in [DOMAIN R.graph -> Nat]
    <3>1. /\ R = [x \in Fields |-> R[x]]
          /\ R.tries \in [DOMAIN R.graph -> Nat]
      BY <2>3 DEF IsPlan
    <3>2. [R.tries EXCEPT ![s] = @ + 1] \in [DOMAIN R.graph -> Nat]
      <4>1. R.tries[s] + 1 \in Nat
        BY <2>3, <3>1
      <4>2. QED
        BY <3>1, <4>1
    <3>3. /\ Q = [x \in Fields |-> Q[x]]
          /\ Q.status = "paused"
          /\ Q.graph = R.graph
          /\ Q.step = R.step
          /\ Q.tries = [R.tries EXCEPT ![s] = @ + 1]
      BY <3>1 DEF Fields
    <3>4. QED
      BY <3>2, <3>3
  <2> HIDE DEF Q
  <2>5. IsPlan(Q) /\ Q.status = "paused"
    BY <2>3, <2>4 DEF IsPlan, PlanStatus
  <2>6. QED
    BY <2>2, <2>5, ControlInv
<1>5. QED
  BY <1>1, <1>2, <1>3, <1>4

\* Restart.
LEMMA RestartInv ==
  ASSUME IInv, Restart
  PROVE  IInv'
<1>1. Types /\ (\A d \in Calls : CallInv(d)) /\ StoreInv
  BY DEF IInv
<1>2. /\ crashes' = crashes + 1
      /\ stage' = [c \in Calls |-> IF InProgress(c) THEN "lost" ELSE stage[c]]
      /\ Dropped(Calls)
      /\ running' = FALSE
      /\ abortRequested' = FALSE
      /\ store' = Paused(store)
  BY DEF Restart, Save, Reconciled
<1>3. /\ stage' \in [Calls -> {"new", "levels", "batch", "replanning", "done", "lost"}]
      /\ \A c \in Calls : ~InProgress(c)'
  BY <1>1, <1>2 DEF Types, InProgress
<1>4. store' = NoPlan \/ IsPlan(store')
  BY <1>1, <1>2, PausedLemma DEF Types
<1>5. Types'
  <2>1. crashes \in Nat
    BY <1>1 DEF Types
  <2>2. crashes' = crashes + 1 /\ running' = FALSE /\ abortRequested' = FALSE
    BY <1>2
  <2>3. running' \in BOOLEAN /\ abortRequested' \in BOOLEAN /\ crashes' \in Nat
    <3>1. crashes' \in Nat
      BY <2>1, <2>2
    <3>2. QED
      BY <2>2, <3>1
  <2>4. QED
    BY <1>2, <1>3, <1>4, <2>3, DroppedTypes
<1>6. ASSUME NEW d \in Calls PROVE CallInv(d)'
  BY <1>2, <1>3, GoneCall
<1>7. StoreInv'
  <2>1. store' # NoPlan => store'.status # "running"
    BY <1>2, PausedLemma
  <2>2. store' = store \/ store'.status = "paused"
    BY <1>2, PausedLemma
  <2>3. CompletedMeansAll'
    BY <1>1, <2>2 DEF StoreInv, CompletedMeansAll, Completed, WithStatus, StepsOf
  <2>4. QED
    BY <2>1, <2>3 DEF StoreInv, RunningIsRun
<1>8. QED
  BY <1>5, <1>6, <1>7 DEF IInv

\* Every step of the system.
LEMMA NextInv ==
  ASSUME IInv, [Next]_vars
  PROVE  IInv'
<1>1. ASSUME NEW c \in Calls, CreateAndRun(c) \/ RunStored(c) PROVE IInv'
  BY <1>1, StartInv
<1>2. ASSUME NEW c \in Calls, Advance(c) PROVE IInv'
  <2>1. CASE StopAtLevel(c) \/ OverBudget(c)
    BY <2>1, StopsShortInv DEF StopAtLevel, OverBudget, AtLevel, AtBatch
  <2>2. CASE OpenLevel(c)
    BY <2>2, OpenLevelInv
  <2>3. CASE StopAtBatch(c)
    BY <2>3, StopAtBatchInv
  <2>4. CASE LaunchBatch(c)
    BY <2>4, LaunchBatchInv
  <2>5. ASSUME NEW s \in Steps, StepSettles(c, s) \/ StepGivesUp(c, s) PROVE IInv'
    BY <2>5, StepSettlesInv
  <2>6. ASSUME NEW s \in Steps, StepRetries(c, s) PROVE IInv'
    BY <2>6, StepRetriesInv
  <2>7. CASE JoinBatch(c)
    BY <2>7, JoinBatchInv
  <2>8. CASE Settle(c) \/ PlannerFails(c)
    BY <2>8, SettleInv
  <2>9. CASE AskPlanner(c)
    BY <2>9, AskPlannerInv
  <2>10. CASE Replanned(c)
    BY <2>10, ReplannedInv
  <2>11. QED
    BY <1>2, <2>1, <2>2, <2>3, <2>4, <2>5, <2>6, <2>7, <2>8, <2>9, <2>10 DEF Advance
<1>3. CASE Pause \/ Abort \/ Cancel \/ \E s \in Steps : RetryStep(s)
  BY <1>3, ControlsInv
<1>4. CASE Restart
  BY <1>4, RestartInv
<1>5. CASE UNCHANGED vars
  <2>1. UNCHANGED <<copy, stage, passVars, running, crashes>> /\ store' = store
    BY <1>5 DEF vars, flagVars
  <2>2. /\ abortRequested' \in BOOLEAN
    BY <1>5 DEF vars, flagVars, IInv, Types
  <2>3. QED
    BY <2>1, <2>2, ControlInv
<1>6. QED
  BY <1>1, <1>2, <1>3, <1>4, <1>5 DEF Next

\* The invariant the theorems rest on.
THEOREM Invariance == Spec => []IInv
<1>1. Init => IInv
  BY InitInv
<1>2. IInv /\ [Next]_vars => IInv'
  BY NextInv
<1>3. QED
  BY <1>1, <1>2, PTL DEF Spec

\* Every variable has its type, and a call keeps to the steps of its plan.
THEOREM TypeCorrect == Spec => []TypeOK
<1>1. IInv => TypeOK
  BY DEF IInv, TypeOK, CallInv
<1>2. QED
  BY <1>1, Invariance, PTL

\* A step in flight has all its dependencies completed (plan-runner.ts:
\* isStepRunnable), for any plans the planner may write, any number of overlapping
\* calls, any limits and any verdicts.
THEOREM DependenciesFirstHolds == Spec => []DependenciesFirst
<1>1. IInv => DependenciesFirst
  <2> SUFFICES ASSUME IInv, NEW c \in Calls, NEW s \in flying[c]
               PROVE  copy[c].graph[s] \subseteq Completed(copy[c])
    BY DEF DependenciesFirst
  <2>1. InProgress(c)
    BY DEF IInv, CallInv, InProgress
  <2>2. QED
    BY <2>1, CopyFacts
<1>2. QED
  BY <1>1, Invariance, PTL

\* A plan the store holds as completed has completed every step, whichever of the
\* overlapping calls and controls saved it last (plan-runner.ts, the end of runPlan).
THEOREM CompletedMeansAllHolds == Spec => []CompletedMeansAll
<1>1. IInv => CompletedMeansAll
  BY DEF IInv, StoreInv
<1>2. QED
  BY <1>1, Invariance, PTL

\* A plan the store holds as running has a call that runs it, also after a crash:
\* the restart reconciles it (plan-store.ts: reconcileInterruptedPlans).
THEOREM RunningIsRunHolds == Spec => []RunningIsRun
<1>1. IInv => RunningIsRun
  BY DEF IInv, StoreInv
<1>2. QED
  BY <1>1, Invariance, PTL

\* The steps a pass has executed and has in flight are never more than planMaxSteps
\* (plan-runner.ts: budgetRemaining).
THEOREM StepBudgetHolds == Spec => []StepBudget
<1>1. IInv => StepBudget
  BY DEF IInv, CallInv, StepBudget
<1>2. QED
  BY <1>1, Invariance, PTL
-----------------------------------------------------------------------------
\* Where a plan that is being run is not run again, one call is in progress at most, and the
\* store, which it has saved, holds no step as completed that its copy does not.
SoleInv ==
  \A c \in Calls : InProgress(c) =>
    /\ store # NoPlan
    /\ StoredAsCompleted \subseteq Completed(copy[c])
    /\ \A d \in Calls : InProgress(d) => d = c

\* What is stored is something.
LEMMA PlanIsThere == ASSUME NEW P, IsPlan(P) PROVE P # NoPlan
<1> DEFINE G == P.graph
<1>1. /\ G \in Graphs /\ P.status \in PlanStatus
      /\ P.step \in [DOMAIN G -> StepStatus] /\ P.tries \in [DOMAIN G -> Nat]
  BY DEF IsPlan
<1>2. P = [status |-> P.status, graph |-> G, step |-> P.step, tries |-> P.tries]
  BY DEF IsPlan, Fields
<1> HIDE DEF G
<1>3. P \in [status : PlanStatus, graph : {G},
             step : [DOMAIN G -> StepStatus], tries : [DOMAIN G -> Nat]]
  BY <1>1, <1>2
<1> QED
  BY <1>1, <1>3, NoPlanAssumption

\* No call begins, and the store keeps to what the copies have completed.
LEMMA SoleKept ==
  ASSUME SoleInv, \A d \in Calls : InProgress(d)' => InProgress(d),
         store # NoPlan => store' # NoPlan,
         \A d \in Calls : InProgress(d)' => StoredAsCompleted' \subseteq Completed(copy'[d])
  PROVE  SoleInv'
BY DEF SoleInv

\* The copy of the only call is saved.
LEMMA SoleSaves ==
  ASSUME NEW c \in Calls, IsPlan(copy'[c]), store' = copy'[c],
         \A d \in Calls : InProgress(d)' => d = c
  PROVE  SoleInv'
<1>1. store' # NoPlan /\ StoredAsCompleted' = Completed(copy'[c])
  BY PlanIsThere DEF StoredAsCompleted
<1> QED
  BY <1>1 DEF SoleInv

\* Q is there if P is, and has completed no step that P has not.
KeepsTo(Q, P) ==
  /\ P # NoPlan => Q # NoPlan
  /\ Q # NoPlan => P # NoPlan /\ Completed(Q) \subseteq Completed(P)

\* A control changes the row.
LEMMA SoleControlled ==
  ASSUME SoleInv, NEW Q, KeepsTo(Q, store), store' = Q, UNCHANGED <<copy, stage>>
  PROVE  SoleInv'
<1>1. StoredAsCompleted' \subseteq StoredAsCompleted /\ (store # NoPlan => store' # NoPlan)
  BY DEF StoredAsCompleted, KeepsTo
<1>2. \A d \in Calls : InProgress(d)' <=> InProgress(d)
  BY DEF InProgress
<1> QED
  BY <1>1, <1>2 DEF SoleInv

\* Pausing changes no step.
LEMMA PausingKeeps ==
  ASSUME NEW P, P = NoPlan \/ IsPlan(P)
  PROVE  KeepsTo(Paused(P), P)
<1> DEFINE Q == [P EXCEPT !.status = "paused"]
<1>1. Paused(P) = P \/ (IsPlan(P) /\ P # NoPlan /\ Paused(P) = Q)
  BY DEF Paused
<1>2. IsPlan(P) => IsPlan(Q) /\ Q.graph = P.graph /\ Q.step = P.step
  BY StatusLemma DEF PlanStatus
<1> HIDE DEF Q
<1>3. IsPlan(P) => Q # NoPlan /\ Completed(Q) = Completed(P)
  BY <1>2, PlanIsThere DEF Completed, WithStatus, StepsOf
<1> QED
  BY <1>1, <1>3 DEF KeepsTo

\* A call that begins where no other is in progress.
LEMMA SoleBegins ==
  ASSUME IInv, NEW c \in Calls, NEW P, IsPlan(P), NEW n, Begin(c, P, n),
         \A d \in Calls : InProgress(d) => d = c
  PROVE  SoleInv'
<1> DEFINE Q == [P EXCEPT !.status = "running"]
<1>1. IsPlan(Q)
  BY StatusLemma DEF PlanStatus
<1>2. /\ store' = Q /\ copy' = [copy EXCEPT ![c] = Q]
      /\ stage' = [stage EXCEPT ![c] = "levels"]
  BY DEF Begin, Save
<1> HIDE DEF Q
<1>3. DOMAIN copy = Calls /\ DOMAIN stage = Calls
  BY DEF IInv, Types
<1>4. copy'[c] = Q /\ \A d \in Calls : InProgress(d)' => d = c
  BY <1>2, <1>3 DEF InProgress
<1> QED
  BY <1>1, <1>2, <1>4, SoleSaves

\* A call that goes on, alone, saves its copy.
LEMMA SoleGoesOn ==
  ASSUME IInv, IInv', SoleInv, NEW c \in Calls, InProgress(c), InProgress(c)',
         store' = copy'[c], \A d \in Calls : d # c => stage'[d] = stage[d]
  PROVE  SoleInv'
<1>1. IsPlan(copy'[c])
  BY DEF IInv, CallInv
<1>2. \A d \in Calls : InProgress(d)' => d = c
  BY DEF SoleInv, InProgress
<1> QED
  BY <1>1, <1>2, SoleSaves

\* A call that goes on, alone, with at least as much completed.
LEMMA SoleWorks ==
  ASSUME IInv, SoleInv, NEW c \in Calls, InProgress(c), store' = store, stage' = stage,
         Completed(copy[c]) \subseteq Completed(copy'[c])
  PROVE  SoleInv'
<1>1. \A d \in Calls : InProgress(d)' <=> InProgress(d)
  BY DEF InProgress
<1>2. StoredAsCompleted' = StoredAsCompleted
  BY DEF StoredAsCompleted, Completed, WithStatus, StepsOf
<1> QED
  BY <1>1, <1>2 DEF SoleInv

\* A call that is over.
LEMMA SoleReturns ==
  ASSUME IInv, SoleInv, NEW c \in Calls, InProgress(c), NEW st, Returns(c, st)
  PROVE  SoleInv'
<1>1. stage' = [stage EXCEPT ![c] = "done"] /\ DOMAIN stage = Calls
  BY DEF Returns, IInv, Types
<1>2. \A d \in Calls : ~InProgress(d)'
  BY <1>1 DEF SoleInv, InProgress
<1> QED
  BY <1>2 DEF SoleInv

\* CreateAndRun, RunStored and Replanned.
LEMMA SoleStarts ==
  ASSUME ~Overlap, IInv, SoleInv, NEW c \in Calls, CreateAndRun(c) \/ RunStored(c) \/ Replanned(c)
  PROVE  SoleInv'
<1>1. CASE CreateAndRun(c)
  <2>1. PICK g \in Graphs : Begin(c, Fresh(g), 0)
    BY <1>1 DEF CreateAndRun
  <2>2. \A d \in Calls : ~InProgress(d)
    BY <1>1 DEF CreateAndRun, SoleInv
  <2> QED
    BY <2>1, <2>2, FreshLemma, SoleBegins
<1>2. CASE RunStored(c)
  <2>1. IsPlan(store) /\ Begin(c, store, 0) /\ \A d \in Calls : ~InProgress(d)
    BY <1>2 DEF RunStored, IInv, Types
  <2> QED
    BY <2>1, SoleBegins
<1>3. CASE Replanned(c)
  <2>1. PICK g \in Graphs : Begin(c, Fresh(g), attempt[c] + 1)
    BY <1>3 DEF Replanned
  <2>2. \A d \in Calls : InProgress(d) => d = c
    BY <1>3 DEF Replanned, SoleInv, InProgress
  <2> QED
    BY <2>1, <2>2, FreshLemma, SoleBegins
<1> QED
  BY <1>1, <1>2, <1>3

\* The levels and the batches of the call.
LEMMA SoleAdvances ==
  ASSUME IInv, IInv', SoleInv, NEW c \in Calls,
         \/ StopAtLevel(c) \/ OpenLevel(c) \/ StopAtBatch(c) \/ OverBudget(c) \/ LaunchBatch(c)
         \/ JoinBatch(c) \/ Settle(c) \/ AskPlanner(c) \/ PlannerFails(c)
  PROVE  SoleInv'
<1>1. DOMAIN stage = Calls /\ DOMAIN copy = Calls
  BY DEF IInv, Types
<1>2. ASSUME NEW S, StopsShort(c, S), stage[c] = "levels" PROVE SoleInv'
  <2>1. InProgress(c) /\ InProgress(c)' /\ store' = copy'[c] /\ stage' = stage
    BY <1>2 DEF StopsShort, Save, InProgress
  <2> QED
    BY <2>1, SoleGoesOn
<1>3. CASE StopAtLevel(c) \/ OverBudget(c)
  BY <1>2, <1>3 DEF StopAtLevel, OverBudget, AtLevel, AtBatch
<1>4. CASE OpenLevel(c)
  <2> DEFINE P == copy[c]
             due == Pending(P, NextLevel(P, passed[c]))
             fit == {s \in due : Runnable(P, s)}
             R == Marked(P, fit \cap WithStatus(P, "running"), "pending")
             Q == Marked(R, due \ fit, "skipped")
  <2>1. /\ stage[c] = "levels" /\ copy' = [copy EXCEPT ![c] = Q]
        /\ store' = store /\ stage' = stage
    BY <1>4 DEF OpenLevel, AtLevel
  <2>2. InProgress(c) /\ copy'[c] = Q
    BY <2>1, <1>1 DEF InProgress
  <2>3. IsPlan(P)
    BY <2>2, CopyFacts
  <2>4. due \cap Completed(P) = {}
    BY DEF Pending
  <2> HIDE DEF due, P
  <2>5. IsPlan(R) /\ Completed(R) = Completed(P) \ (fit \cap WithStatus(P, "running"))
    BY <2>3, MarkedLemma, CompletedLemma DEF StepStatus
  <2> HIDE DEF R
  <2>6. Completed(Q) = Completed(R) \ (due \ fit)
    BY <2>5, CompletedLemma DEF StepStatus
  <2>7. Completed(P) \subseteq Completed(Q)
    BY <2>4, <2>5, <2>6
  <2> HIDE DEF Q
  <2> QED
    BY <2>1, <2>2, <2>7, SoleWorks DEF P
<1>5. CASE StopAtBatch(c)
  <2>1. InProgress(c) /\ UNCHANGED <<store, stage, copy>>
    BY <1>5 DEF StopAtBatch, AtBatch, InProgress
  <2> QED
    BY <2>1, SoleWorks
<1>6. CASE LaunchBatch(c)
  <2>1. /\ stage[c] = "levels" /\ store' = copy'[c] /\ stage' = [stage EXCEPT ![c] = "batch"]
    BY <1>6 DEF LaunchBatch, AtBatch, Save
  <2>2. InProgress(c) /\ InProgress(c)' /\ \A d \in Calls : d # c => stage'[d] = stage[d]
    BY <2>1, <1>1 DEF InProgress
  <2> QED
    BY <2>1, <2>2, SoleGoesOn
<1>7. CASE JoinBatch(c)
  <2>1. /\ stage[c] = "batch" /\ store' = copy'[c] /\ stage' = [stage EXCEPT ![c] = "levels"]
    BY <1>7 DEF JoinBatch, Save
  <2>2. InProgress(c) /\ InProgress(c)' /\ \A d \in Calls : d # c => stage'[d] = stage[d]
    BY <2>1, <1>1 DEF InProgress
  <2> QED
    BY <2>1, <2>2, SoleGoesOn
<1>8. CASE Settle(c) \/ PlannerFails(c)
  <2>1. InProgress(c) /\ \E st : Returns(c, st)
    BY <1>8 DEF Settle, PlannerFails, AtEnd, InProgress
  <2> QED
    BY <2>1, SoleReturns
<1>9. CASE AskPlanner(c)
  <2>1. /\ stage[c] = "levels" /\ UNCHANGED <<store, copy>>
        /\ stage' = [stage EXCEPT ![c] = "replanning"]
    BY <1>9 DEF AskPlanner, AtEnd
  <2>2. \A d \in Calls : InProgress(d)' <=> InProgress(d)
    BY <2>1, <1>1 DEF InProgress
  <2>3. StoredAsCompleted' = StoredAsCompleted
    BY <2>1 DEF StoredAsCompleted
  <2> QED
    BY <2>1, <2>2, <2>3 DEF SoleInv
<1> QED
  BY <1>3, <1>4, <1>5, <1>6, <1>7, <1>8, <1>9

\* A step of the call ends or is tried again.
LEMMA SoleSteps ==
  ASSUME IInv, SoleInv, NEW c \in Calls, NEW s,
         StepSettles(c, s) \/ StepRetries(c, s) \/ StepGivesUp(c, s)
  PROVE  SoleInv'
<1>1. DOMAIN copy = Calls /\ stage[c] = "batch" /\ s \in flying[c] /\ UNCHANGED <<store, stage>>
  BY DEF StepSettles, StepRetries, StepGivesUp, IInv, Types
<1>2. InProgress(c)
  BY <1>1 DEF InProgress
<1>3. IsPlan(copy[c]) /\ s \notin Completed(copy[c])
  BY <1>1, <1>2, CopyFacts
<1>4. ASSUME NEW st \in StepStatus, NEW again, StepEnds(c, s, st, again)
      PROVE  Completed(copy[c]) \subseteq Completed(copy'[c])
  <2>1. copy'[c] = Marked(copy[c], {s}, st)
    BY <1>1, <1>4 DEF StepEnds
  <2> QED
    BY <2>1, <1>3, CompletedLemma
<1>5. CASE StepSettles(c, s) \/ StepGivesUp(c, s)
  <2>1. \E st \in StepStatus, again \in BOOLEAN : StepEnds(c, s, st, again)
    BY <1>5 DEF StepSettles, StepGivesUp, StepStatus
  <2> QED
    BY <2>1, <1>1, <1>2, <1>4, SoleWorks
<1>6. CASE StepRetries(c, s)
  <2> DEFINE Q == [copy[c] EXCEPT !.tries[s] = @ + 1]
  <2>1. copy'[c] = Q
    BY <1>1, <1>6 DEF StepRetries
  <2>2. Q.graph = copy[c].graph /\ Q.step = copy[c].step
    BY <1>3 DEF IsPlan, Fields
  <2> HIDE DEF Q
  <2>3. Completed(copy'[c]) = Completed(copy[c])
    BY <2>1, <2>2 DEF Completed, WithStatus, StepsOf
  <2> QED
    BY <2>3, <1>1, <1>2, SoleWorks
<1> QED
  BY <1>5, <1>6

\* The controls and a crash.
LEMMA SoleControls ==
  ASSUME IInv, SoleInv, Pause \/ Abort \/ Cancel \/ (\E s \in Steps : RetryStep(s)) \/ Restart
  PROVE  SoleInv'
<1>1. store = NoPlan \/ IsPlan(store)
  BY DEF IInv, Types
<1>2. CASE Pause \/ Abort
  <2>1. store' = Paused(store) /\ UNCHANGED <<copy, stage>>
    BY <1>2 DEF Pause, Abort, Save
  <2> QED
    BY <2>1, <1>1, PausingKeeps, SoleControlled
<1>3. CASE Cancel
  <2> DEFINE R == Marked(store, Unfinished(store), "skipped")
             Q == [R EXCEPT !.status = "failed"]
  <2>1. store # NoPlan /\ store' = Q /\ UNCHANGED <<copy, stage>>
    BY <1>3 DEF Cancel, Save, Cancelled
  <2>2. IsPlan(R) /\ Completed(R) \subseteq Completed(store)
    BY <1>1, <2>1, MarkedLemma, CompletedLemma DEF StepStatus
  <2> HIDE DEF R
  <2>3. IsPlan(Q) /\ Q.graph = R.graph /\ Q.step = R.step
    BY <2>2, StatusLemma DEF PlanStatus
  <2> HIDE DEF Q
  <2>4. Q # NoPlan /\ Completed(Q) = Completed(R)
    BY <2>3, PlanIsThere DEF Completed, WithStatus, StepsOf
  <2>5. KeepsTo(Q, store)
    BY <2>1, <2>2, <2>4 DEF KeepsTo
  <2> QED
    BY <2>1, <2>5, SoleControlled
<1>4. ASSUME NEW s \in Steps, RetryStep(s) PROVE SoleInv'
  <2> DEFINE R == Marked(store, {s}, "pending")
             Q == [R EXCEPT !.status = "paused", !.tries[s] = @ + 1]
  <2>1. store # NoPlan /\ s \in StepsOf(store) /\ store' = Q /\ UNCHANGED <<copy, stage>>
    BY <1>4 DEF RetryStep, Save, WithStatus
  <2>2. IsPlan(R) /\ Completed(R) \subseteq Completed(store)
    BY <1>1, <2>1, MarkedLemma, CompletedLemma DEF StepStatus
  <2>3. R.graph = store.graph
    BY <1>1, <2>1, MarkedLemma DEF StepStatus
  <2> HIDE DEF R
  <2>4. /\ Q = [x \in Fields |-> Q[x]] /\ Q.graph = R.graph /\ Q.step = R.step
        /\ Q.status = "paused" /\ Q.tries = [R.tries EXCEPT ![s] = @ + 1]
    BY <2>2 DEF IsPlan, Fields
  <2> HIDE DEF Q
  <2>5. R.tries \in [DOMAIN R.graph -> Nat] /\ s \in DOMAIN R.graph
    BY <2>1, <2>2, <2>3 DEF IsPlan, StepsOf
  <2>6. Q.tries \in [DOMAIN R.graph -> Nat]
    <3> DEFINE T == R.tries
    <3>1. [T EXCEPT ![s] = @ + 1] \in [DOMAIN R.graph -> Nat]
      BY <2>5
    <3> QED
      BY <3>1, <2>4
  <2>7. IsPlan(Q)
    BY <2>2, <2>4, <2>6 DEF IsPlan, PlanStatus
  <2>8. Q # NoPlan /\ Completed(Q) = Completed(R)
    BY <2>4, <2>7, PlanIsThere DEF Completed, WithStatus, StepsOf
  <2>9. KeepsTo(Q, store)
    BY <2>1, <2>2, <2>8 DEF KeepsTo
  <2> QED
    BY <2>1, <2>9, SoleControlled
<1>5. CASE Restart
  <2>1. stage' = [c \in Calls |-> IF InProgress(c) THEN "lost" ELSE stage[c]]
    BY <1>5 DEF Restart
  <2>2. \A c \in Calls : ~InProgress(c)'
    BY <2>1 DEF InProgress
  <2> QED
    BY <2>2 DEF SoleInv
<1> QED
  BY <1>2, <1>3, <1>4, <1>5

\* Nothing happens.
LEMMA SoleStutters == ASSUME SoleInv, UNCHANGED vars PROVE SoleInv'
<1>1. UNCHANGED <<store, copy, stage>>
  BY DEF vars
<1>2. StoredAsCompleted' = StoredAsCompleted
  BY <1>1 DEF StoredAsCompleted
<1> QED
  BY <1>1, <1>2 DEF SoleInv, InProgress

LEMMA SoleStep ==
  ASSUME ~Overlap, IInv, IInv', SoleInv, [Next]_vars PROVE SoleInv'
<1>1. ASSUME NEW c \in Calls, CreateAndRun(c) \/ RunStored(c) \/ Advance(c) PROVE SoleInv'
  <2>1. CASE CreateAndRun(c) \/ RunStored(c) \/ Replanned(c)
    BY <2>1, SoleStarts
  <2>2. CASE \/ StopAtLevel(c) \/ OpenLevel(c) \/ StopAtBatch(c) \/ OverBudget(c)
             \/ LaunchBatch(c) \/ JoinBatch(c) \/ Settle(c) \/ AskPlanner(c) \/ PlannerFails(c)
    BY <2>2, SoleAdvances
  <2>3. ASSUME NEW s \in Steps, StepSettles(c, s) \/ StepRetries(c, s) \/ StepGivesUp(c, s)
        PROVE  SoleInv'
    BY <2>3, SoleSteps
  <2> QED
    BY <1>1, <2>1, <2>2, <2>3 DEF Advance
<1>2. CASE Pause \/ Abort \/ Cancel \/ (\E s \in Steps : RetryStep(s)) \/ Restart
  BY <1>2, SoleControls
<1>3. CASE UNCHANGED vars
  BY <1>3, SoleStutters
<1> QED
  BY <1>1, <1>2, <1>3 DEF Next

\* Steps are put in flight by a batch, and by nothing else.
LEMMA OnlyBatchesLaunch ==
  ASSUME IInv, [Next]_vars, NEW c \in Calls
  PROVE  Launched(c) = {} \/ (LaunchBatch(c) /\ Launched(c) \subseteq ready[c])
<1>1. flying \in [Calls -> SUBSET Steps]
  BY DEF IInv, Types
<1>2. ASSUME NEW d \in Calls, LaunchBatch(d)
      PROVE  Launched(c) = {} \/ (LaunchBatch(c) /\ Launched(c) \subseteq ready[c])
  <2>1. PICK B \in SUBSET ready[d] : flying' = [flying EXCEPT ![d] = B]
    BY <1>2 DEF LaunchBatch
  <2> QED
    BY <2>1, <1>1, <1>2 DEF Launched
<1>3. ASSUME NEW d \in Calls, CreateAndRun(d) \/ RunStored(d) \/ Replanned(d)
      PROVE  flying' = flying
  BY <1>3 DEF CreateAndRun, RunStored, Replanned, Begin
<1>4. ASSUME NEW d \in Calls,
             \/ StopAtLevel(d) \/ OpenLevel(d) \/ StopAtBatch(d) \/ OverBudget(d)
             \/ JoinBatch(d) \/ AskPlanner(d)
      PROVE  flying' = flying
  BY <1>4 DEF StopAtLevel, OpenLevel, StopAtBatch, OverBudget, JoinBatch, AskPlanner, StopsShort,
              passVars
<1>5. ASSUME NEW d \in Calls, Settle(d) \/ PlannerFails(d) PROVE Launched(c) = {}
  <2>1. flying' = [e \in Calls |-> IF e \in {d} THEN {} ELSE flying[e]]
    BY <1>5 DEF Settle, PlannerFails, Returns, Dropped
  <2> QED
    BY <2>1, <1>1 DEF Launched
<1>6. ASSUME NEW d \in Calls, NEW s, StepSettles(d, s) \/ StepRetries(d, s) \/ StepGivesUp(d, s)
      PROVE  Launched(c) = {}
  <2>1. flying' = flying \/ flying' = [flying EXCEPT ![d] = @ \ {s}]
    BY <1>6 DEF StepSettles, StepRetries, StepGivesUp, StepEnds, passVars
  <2> QED
    BY <2>1, <1>1 DEF Launched
<1>7. CASE Pause \/ Abort \/ Cancel \/ (\E s \in Steps : RetryStep(s)) \/ UNCHANGED vars
  <2>1. flying' = flying
    BY <1>7 DEF Pause, Abort, Cancel, RetryStep, passVars, vars
  <2> QED
    BY <2>1 DEF Launched
<1>8. CASE Restart
  <2>1. flying' = [e \in Calls |-> IF e \in Calls THEN {} ELSE flying[e]]
    BY <1>8 DEF Restart, Dropped
  <2> QED
    BY <2>1 DEF Launched
<1>9. flying' = flying => Launched(c) = {}
  BY DEF Launched
<1> QED
  BY <1>2, <1>3, <1>4, <1>5, <1>6, <1>7, <1>8, <1>9 DEF Next, Advance

\* If nobody runs a plan that is being run, a step that is stored as completed is not run
\* again, whatever resumes, retries of other steps, replans, pauses and crashes there are
\* (readyInLevel of runPlan, and reconcileInterruptedPlans).
THEOREM NoReworkHolds == ASSUME ~Overlap PROVE Spec => NoRework
<1>1. Init => IInv /\ SoleInv
  <2>1. Init => SoleInv
    BY DEF Init, SoleInv, InProgress
  <2> QED
    BY <2>1, InitInv
<1>2. IInv /\ SoleInv /\ [Next]_vars => (IInv /\ SoleInv)'
  BY NextInv, SoleStep
<1>3. IInv /\ SoleInv /\ [Next]_vars => [\A c \in Calls : Launched(c) \cap StoredAsCompleted = {}]_vars
  <2> SUFFICES ASSUME IInv, SoleInv, [Next]_vars, NEW c \in Calls
               PROVE  Launched(c) \cap StoredAsCompleted = {}
    OBVIOUS
  <2>1. CASE Launched(c) = {}
    BY <2>1
  <2>2. CASE LaunchBatch(c) /\ Launched(c) \subseteq ready[c]
    <3>1. InProgress(c)
      BY <2>2 DEF LaunchBatch, AtBatch, InProgress
    <3>2. ready[c] \cap Completed(copy[c]) = {}
      BY <3>1, CopyFacts
    <3>3. StoredAsCompleted \subseteq Completed(copy[c])
      BY <3>1 DEF SoleInv
    <3> QED
      BY <2>2, <3>2, <3>3
  <2> QED
    BY <2>1, <2>2, OnlyBatchesLaunch
<1>4. QED
  BY <1>1, <1>2, <1>3, PTL DEF Spec, NoRework
=============================================================================
