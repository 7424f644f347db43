---------------------------- MODULE LlmFuseProofs ----------------------------
(***************************************************************************)
(* Theorems about LlmFuse: its budgets bind for any number of Sessions,    *)
(* any budgets and any length of the hour.                                 *)
(***************************************************************************)
EXTENDS LlmFuse, FiniteSetTheorems, TLAPS

\* A stream of the last hour still has its time stamp in the window.
WindowInv == \A r \in streamed : r \in hourWindow /\ age[r] <= Hour

\* The turn that started last has made its check and its streams since the reset.
LatestInv ==
  PerTurn > 0 => \A s \in {latest} \cap Sessions :
    s \in Running => used[s] < PerTurn /\ used[s] < callsThisTurn

IInv == TypeOK /\ WindowInv /\ HourBudget /\ LatestInv

LEMMA Numbers ==
  /\ PerTurn \in Nat /\ PerHour \in Nat /\ Hour \in Nat
  /\ BillingMs \in Nat /\ BillingMs > 0
BY NumberAssumption

\* The counter stays in its range.
LEMMA RaisedLemma ==
  ASSUME NEW n \in Counter
  PROVE  /\ Raised(n) \in Counter
         /\ Raised(n) <= PerTurn => Raised(n) = n + 1
         /\ Raised(n) <= n + 1
         /\ n <= Raised(n)
BY Numbers DEF Counter, Raised, MinOf

\* A budget that a set keeps to, its subsets keep to.
LEMMA SmallerSet ==
  ASSUME NEW T \in SUBSET Requests, NEW S \in SUBSET T, WithinHour(T)
  PROVE  WithinHour(S)
<1>1. IsFiniteSet(T)
  BY RequestsAssumption, FS_Subset
<1>2. IsFiniteSet(S) /\ Cardinality(S) <= Cardinality(T)
  BY <1>1, FS_Subset
<1>3. Cardinality(S) \in Nat /\ Cardinality(T) \in Nat
  BY <1>1, <1>2, FS_CardinalityType
<1>4. QED
  BY <1>2, <1>3, Numbers DEF WithinHour

\* Initially.
LEMMA InitInv == ASSUME Init PROVE IInv
<1>1. 0 \in Counter /\ Hour + 1 \in 0 .. Hour + 1 /\ 0 \in 0 .. BillingMs
  BY Numbers DEF Counter
<1>2. TypeOK
  BY <1>1 DEF Init, TypeOK
<1>3. WindowInv
  BY DEF Init, WindowInv
<1>4. HourBudget
  BY FS_EmptySet, Numbers DEF Init, HourBudget
<1>5. LatestInv
  BY NobodyAssumption DEF Init, LatestInv
<1>6. QED
  BY <1>2, <1>3, <1>4, <1>5 DEF IInv

\* What report leaves.
LEMMA ReportLemma ==
  ASSUME openFor \in 0 .. BillingMs, Report
  PROVE  openFor' \in 0 .. BillingMs
BY Numbers DEF Report, Open

\* A call that is made now was no stream of the last hour.
LEMMA NowLemma ==
  ASSUME IInv, NEW r \in Requests, Spare(r), Now(r)
  PROVE  /\ age' \in [Requests -> 0 .. Hour + 1]
         /\ age'[r] = 0
         /\ \A q \in streamed : q # r /\ age'[q] = age[q] /\ q \in Kept
<1>1. age \in [Requests -> 0 .. Hour + 1] /\ 0 \in 0 .. Hour + 1
  BY Numbers DEF IInv, TypeOK
<1>2. age' \in [Requests -> 0 .. Hour + 1] /\ age'[r] = 0
  BY <1>1 DEF Now
<1>3. ASSUME NEW q \in streamed PROVE q # r /\ age'[q] = age[q] /\ q \in Kept
  <2>1. q \in hourWindow /\ age[q] <= Hour /\ q \in Requests
    BY DEF IInv, WindowInv, TypeOK
  <2>2. q # r
    BY <1>1, <2>1, Numbers DEF Spare
  <2>3. QED
    BY <1>1, <2>1, <2>2 DEF Now, Kept
<1>4. QED
  BY <1>2, <1>3

\* A turn starts, or is refused at its start.
LEMMA StartTurnInv ==
  ASSUME IInv, NEW s \in Sessions, StartTurn(s)
  PROVE  IInv'
<1>1. /\ latest' = s
      /\ used' = [used EXCEPT ![s] = 0]
      /\ UNCHANGED <<openFor, sender, streamed>>
      /\ turn[s] = "idle"
  BY DEF StartTurn
<1>2. used' \in [Sessions -> Counter] /\ used'[s] = 0
  BY <1>1, Numbers DEF IInv, TypeOK, Counter
<1>3. CASE Open /\ callsThisTurn' = 0 /\ UNCHANGED <<hourWindow, age, turn>>
  <2>1. TypeOK'
    BY <1>1, <1>2, <1>3, Numbers DEF IInv, TypeOK, Counter
  <2>2. WindowInv' /\ HourBudget'
    BY <1>1, <1>3 DEF IInv, WindowInv, HourBudget
  <2>3. LatestInv'
    BY <1>1, <1>3 DEF LatestInv, Running
  <2>4. QED
    BY <2>1, <2>2, <2>3 DEF IInv
<1>4. CASE /\ callsThisTurn' = 1
           /\ \E r \in Requests : Spare(r) /\ Now(r) /\ hourWindow' = Kept \cup {r}
           /\ turn' = [turn EXCEPT ![s] = IF WithinTurn(1) /\ WithinHour(hourWindow')
                                          THEN "running" ELSE "idle"]
  <2>1. PICK r \in Requests : Spare(r) /\ Now(r) /\ hourWindow' = Kept \cup {r}
    BY <1>4
  <2>2. turn' \in [Sessions -> {"idle", "running", "failing"}]
    BY <1>4 DEF IInv, TypeOK
  <2>3. TypeOK'
    BY <1>1, <1>2, <1>4, <2>1, <2>2, NowLemma, Numbers DEF IInv, TypeOK, Counter, Kept
  <2>4. WindowInv'
    BY <1>1, <2>1, NowLemma DEF IInv, WindowInv
  <2>5. HourBudget'
    BY <1>1 DEF IInv, HourBudget
  <2>6. LatestInv'
    BY <1>1, <1>2, <1>4, Numbers DEF LatestInv
  <2>7. QED
    BY <2>3, <2>4, <2>5, <2>6 DEF IInv
<1>5. QED
  BY <1>3, <1>4 DEF StartTurn

\* A stream is counted, and sent if that keeps to the budgets.
LEMMA StreamInv ==
  ASSUME IInv, NEW s \in Sessions, Stream(s)
  PROVE  IInv'
<1>1. PICK r \in Requests :
       /\ Spare(r)
       /\ callsThisTurn' = Raised(callsThisTurn)
       /\ hourWindow' = Kept \cup {r}
       /\ Now(r)
       /\ IF WithinTurn(callsThisTurn') /\ WithinHour(hourWindow')
          THEN /\ sender' = [sender EXCEPT ![r] = s]
               /\ streamed' = streamed \cup {r}
               /\ used' = [used EXCEPT ![s] = Raised(@)]
          ELSE UNCHANGED <<sender, streamed, used>>
  BY DEF Stream
<1>2. UNCHANGED <<openFor, turn, latest>> /\ TypeOK
  BY DEF Stream, IInv
<1>3. /\ age' \in [Requests -> 0 .. Hour + 1]
      /\ age'[r] = 0
      /\ \A q \in streamed : q # r /\ age'[q] = age[q] /\ q \in Kept
  BY <1>1, NowLemma
<1>4. /\ callsThisTurn' \in Counter /\ callsThisTurn <= callsThisTurn'
      /\ callsThisTurn' <= PerTurn => callsThisTurn' = callsThisTurn + 1
      /\ callsThisTurn \in Nat /\ callsThisTurn' \in Nat
  BY <1>1, <1>2, RaisedLemma, Numbers DEF TypeOK, Counter
<1>5. hourWindow' \subseteq Requests
  BY <1>1, <1>2 DEF Kept, TypeOK
<1>6. CASE WithinTurn(callsThisTurn') /\ WithinHour(hourWindow')
  <2>1. /\ sender' = [sender EXCEPT ![r] = s]
        /\ streamed' = streamed \cup {r}
        /\ used' = [used EXCEPT ![s] = Raised(@)]
    BY <1>1, <1>6
  <2>2. used[s] \in Counter /\ used'[s] = Raised(used[s]) /\ used' \in [Sessions -> Counter]
    BY <1>2, <2>1, RaisedLemma DEF TypeOK
  <2>3. TypeOK'
    BY <1>2, <1>3, <1>4, <1>5, <2>1, <2>2 DEF TypeOK
  <2>4. WindowInv'
    BY <1>1, <1>3, <2>1, Numbers DEF IInv, WindowInv
  <2>5. HourBudget'
    <3>1. streamed' \subseteq hourWindow'
      BY <1>1, <1>3, <2>1
    <3>2. WithinHour(streamed')
      BY <1>5, <1>6, <3>1, SmallerSet
    <3>3. QED
      BY <3>2 DEF WithinHour, HourBudget
  <2>6. LatestInv'
    <3> SUFFICES ASSUME PerTurn > 0, latest \in Sessions, latest \in Running
                 PROVE  used'[latest] < PerTurn /\ used'[latest] < callsThisTurn'
      BY <1>2 DEF LatestInv, Running
    <3>1. used[latest] < callsThisTurn /\ used[latest] \in Nat /\ used'[latest] \in Nat
      BY <1>2, <2>2, Numbers DEF IInv, LatestInv, TypeOK, Counter
    <3>2. callsThisTurn' <= PerTurn /\ callsThisTurn' = callsThisTurn + 1
      BY <1>4, <1>6 DEF WithinTurn
    <3>3. used'[latest] <= used[latest] + 1
      <4>1. CASE latest = s
        BY <2>2, <4>1, RaisedLemma
      <4>2. CASE latest # s
        BY <1>2, <2>1, <3>1, <4>2 DEF TypeOK
      <4>3. QED
        BY <4>1, <4>2
    <3>4. QED
      BY <1>4, <3>1, <3>2, <3>3, Numbers
  <2>7. QED
    BY <2>3, <2>4, <2>5, <2>6 DEF IInv
<1>7. CASE ~(WithinTurn(callsThisTurn') /\ WithinHour(hourWindow'))
  <2>1. UNCHANGED <<sender, streamed, used>>
    BY <1>1, <1>7
  <2>2. TypeOK'
    BY <1>2, <1>3, <1>4, <1>5, <2>1 DEF TypeOK
  <2>3. WindowInv'
    BY <1>1, <1>3, <2>1 DEF IInv, WindowInv
  <2>4. HourBudget'
    BY <2>1 DEF IInv, HourBudget
  <2>5. LatestInv'
    <3> SUFFICES ASSUME PerTurn > 0, latest \in Sessions, latest \in Running
                 PROVE  used[latest] < PerTurn /\ used[latest] < callsThisTurn'
      BY <1>2, <2>1 DEF LatestInv, Running
    <3>1. used[latest] < PerTurn /\ used[latest] < callsThisTurn /\ used[latest] \in Nat
      BY <1>2, Numbers DEF IInv, LatestInv, TypeOK, Counter
    <3>2. QED
      BY <1>4, <3>1
  <2>6. QED
    BY <2>2, <2>3, <2>4, <2>5 DEF IInv
<1>8. QED
  BY <1>6, <1>7

\* A completion is sent.
LEMMA CompleteInv ==
  ASSUME IInv, NEW s \in Sessions, Complete(s)
  PROVE  IInv'
<1>1. PICK r \in Requests \ hourWindow :
        Spare(r) /\ Now(r) /\ sender' = [sender EXCEPT ![r] = s]
  BY DEF Complete
<1>2. UNCHANGED <<openFor, callsThisTurn, hourWindow, turn, streamed, latest, used>> /\ TypeOK
  BY DEF Complete, budgetVars, historyVars, IInv
<1>3. TypeOK'
  BY <1>1, <1>2, NowLemma DEF TypeOK
<1>4. WindowInv'
  BY <1>1, <1>2, NowLemma DEF IInv, WindowInv
<1>5. HourBudget' /\ LatestInv'
  BY <1>2 DEF IInv, HourBudget, LatestInv, Running
<1>6. QED
  BY <1>3, <1>4, <1>5 DEF IInv

\* What neither makes a call nor lets time pass: a turn may leave off running.
LEMMA TurnsOnly ==
  ASSUME IInv, UNCHANGED <<budgetVars, age, historyVars>>, openFor' \in 0 .. BillingMs,
         sender' \in [Requests -> Sessions \cup {Nobody}],
         turn' \in [Sessions -> {"idle", "running", "failing"}], Running' \subseteq Running
  PROVE  IInv'
<1>1. TypeOK'
  BY DEF IInv, TypeOK, budgetVars, historyVars
<1>2. WindowInv' /\ HourBudget' /\ LatestInv'
  BY DEF IInv, WindowInv, HourBudget, LatestInv, budgetVars, historyVars
<1>3. QED
  BY <1>1, <1>2 DEF IInv

\* Time passes.
LEMMA TickInv ==
  ASSUME IInv, Tick
  PROVE  IInv'
<1>1. /\ openFor' = IF Open THEN openFor - 1 ELSE 0
      /\ age' = [r \in Requests |-> MinOf(age[r] + 1, Hour + 1)]
      /\ streamed' = {r \in streamed : age[r] < Hour}
      /\ UNCHANGED <<callsThisTurn, hourWindow, sender, turn, latest, used>>
      /\ TypeOK
  BY DEF Tick, budgetVars, IInv
<1>2. openFor' \in 0 .. BillingMs
  BY <1>1, Numbers DEF TypeOK, Open
<1>3. \A r \in Requests : MinOf(age[r] + 1, Hour + 1) \in 0 .. Hour + 1
  BY <1>1, Numbers DEF TypeOK, MinOf
<1>4. age' \in [Requests -> 0 .. Hour + 1]
  BY <1>1, <1>3
<1>5. TypeOK'
  BY <1>1, <1>2, <1>4 DEF TypeOK
<1>6. WindowInv'
  <2> SUFFICES ASSUME NEW r \in streamed' PROVE r \in hourWindow' /\ age'[r] <= Hour
    BY DEF WindowInv
  <2>1. r \in streamed /\ age[r] < Hour /\ r \in hourWindow /\ r \in Requests
    BY <1>1 DEF IInv, WindowInv, TypeOK
  <2>2. age'[r] = MinOf(age[r] + 1, Hour + 1) /\ age[r] \in Nat
    BY <1>1, <2>1, Numbers DEF TypeOK
  <2>3. QED
    BY <1>1, <2>1, <2>2, Numbers DEF MinOf
<1>7. HourBudget'
  <2>1. WithinHour(streamed) /\ streamed \in SUBSET Requests /\ streamed' \in SUBSET streamed
    BY <1>1 DEF IInv, HourBudget, WithinHour, TypeOK
  <2>2. WithinHour(streamed')
    BY <2>1, SmallerSet
  <2>3. QED
    BY <2>2 DEF WithinHour, HourBudget
<1>8. LatestInv'
  BY <1>1 DEF IInv, LatestInv, Running
<1>9. QED
  BY <1>5, <1>6, <1>7, <1>8 DEF IInv

\* Every step of the system.
LEMMA NextInv ==
  ASSUME IInv, [Next]_vars
  PROVE  IInv'
<1> TypeOK
  BY DEF IInv
<1>1. ASSUME NEW s \in Sessions, StartTurn(s) PROVE IInv'
  BY <1>1, StartTurnInv
<1>2. ASSUME NEW s \in Sessions, Stream(s) PROVE IInv'
  BY <1>2, StreamInv
<1>3. ASSUME NEW s \in Sessions, Complete(s) PROVE IInv'
  BY <1>3, CompleteInv
<1>4. ASSUME NEW s \in Sessions, StreamRefused(s) \/ EndTurn(s) PROVE IInv'
  <2>1. UNCHANGED <<openFor, budgetVars, age, sender, historyVars>>
    BY <1>4 DEF StreamRefused, EndTurn
  <2>2. /\ turn' \in [Sessions -> {"idle", "running", "failing"}]
        /\ Running' \subseteq Running
    BY <1>4 DEF StreamRefused, EndTurn, TypeOK, Running
  <2>3. openFor' \in 0 .. BillingMs /\ sender' \in [Requests -> Sessions \cup {Nobody}]
    BY <2>1 DEF TypeOK
  <2>4. QED
    BY <2>1, <2>2, <2>3, TurnsOnly
<1>5. ASSUME NEW s \in Sessions, FailTurn(s) PROVE IInv'
  <2>1. UNCHANGED <<budgetVars, age, sender, historyVars>> /\ Report
    BY <1>5 DEF FailTurn
  <2>2. /\ turn' \in [Sessions -> {"idle", "running", "failing"}]
        /\ Running' \subseteq Running
    BY <1>5 DEF FailTurn, TypeOK, Running
  <2>3. openFor' \in 0 .. BillingMs /\ sender' \in [Requests -> Sessions \cup {Nobody}]
    BY <2>1, ReportLemma DEF TypeOK
  <2>4. QED
    BY <2>1, <2>2, <2>3, TurnsOnly
<1>6. ASSUME NEW r \in Requests, Answer(r) \/ Charge(r) PROVE IInv'
  <2>1. UNCHANGED <<budgetVars, age, historyVars>>
    BY <1>6 DEF Answer, Charge, Answered
  <2>2. sender' \in [Requests -> Sessions \cup {Nobody}]
    BY <1>6 DEF Answer, Charge, Answered, TypeOK
  <2>3. openFor' \in 0 .. BillingMs
    BY <1>6, ReportLemma DEF Answer, Charge, TypeOK
  <2>4. /\ turn' \in [Sessions -> {"idle", "running", "failing"}]
        /\ Running' \subseteq Running
    BY <1>6 DEF Answer, Charge, TypeOK, Running
  <2>5. QED
    BY <2>1, <2>2, <2>3, <2>4, TurnsOnly
<1>7. CASE Tick
  BY <1>7, TickInv
<1>8. CASE UNCHANGED vars
  <2>1. UNCHANGED <<budgetVars, age, historyVars, openFor, sender, turn>>
    BY <1>8 DEF vars
  <2>2. QED
    BY <2>1, TurnsOnly DEF TypeOK, Running
<1>9. QED
  BY <1>1, <1>2, <1>3, <1>4, <1>5, <1>6, <1>7, <1>8 DEF Next

\* The invariant the theorems rest on.
THEOREM Invariance == Spec => []IInv
<1>1. Init => IInv
  BY InitInv
<1>2. IInv /\ [Next]_vars => IInv'
  BY NextInv
<1>3. QED
  BY <1>1, <1>2, PTL DEF Spec

\* Every variable has its type.
THEOREM TypeCorrect == Spec => []TypeOK
<1>1. IInv => TypeOK
  BY DEF IInv
<1>2. QED
  BY <1>1, Invariance, PTL

\* llm-fuse.ts, check: no hour sees more than llmCallsPerHour streams, whichever turns
\* overlap and however late time stamps are dropped.
THEOREM HourBudgetHolds == Spec => []HourBudget
<1>1. IInv => HourBudget
  BY DEF IInv
<1>2. QED
  BY <1>1, Invariance, PTL

\* llm-fuse.ts, resetTurn and check: the turn that started last keeps to its budget.
THEOREM LatestTurnBudgetHolds == Spec => []LatestTurnBudget
<1>1. IInv => LatestTurnBudget
  BY DEF IInv, LatestInv, LatestTurnBudget, Running
<1>2. QED
  BY <1>1, Invariance, PTL

\* llm-fuse.ts, check: both budgets hold, for any Sessions, requests and limits.
THEOREM BudgetsHold == Spec => []Budgets
<1>1. HourBudget /\ LatestTurnBudget => Budgets
  BY DEF Budgets
<1>2. QED
  BY <1>1, HourBudgetHolds, LatestTurnBudgetHolds, PTL
=============================================================================
