--------------------------------- MODULE TurnProofs ---------------------------------
(***************************************************************************)
(* Theorems about what happens inside turns, for any number of them: the   *)
(* timers and the steering of a turn (Turn), the transcript its requests   *)
(* are made of (Transcript), the hooks it executes (Hooks), the files it   *)
(* reads and the commands it runs (Tools), the check of a plan's step      *)
(* (StepCheck), and the files and the memory it is given (Recall).  The    *)
(* components share no variable.                                           *)
(***************************************************************************)
EXTENDS Turn, Transcript, Hooks, Tools, StepCheck, Recall, TLAPS, SequenceTheorems,
        FiniteSetTheorems

\* A watchdog is that of the turn under way; so is the time-out of a sub-agent, whose plan
\* waits for it, unless it belongs to no turn.
TimerInv ==
  /\ \A t \in armed : t = turn /\ stage # "idle"
  /\ \A s \in Subs :
       /\ sub[s].timer => sub[s].waited
       /\ sub[s].timer /\ sub[s].of # 0 => sub[s].of = turn /\ plan = "stepping"

\* The loop runs inside of prompt, a plan inside of a turn of its own or of a tool, and
\* the loop waits at the gate while the user is asked.
StageInv ==
  /\ loop # "off" => stage = "prompting"
  /\ plan # "off" => stage = "planning" \/ (stage = "prompting" /\ loop = "tool")
  /\ Parent \in asked => loop = "gate"

TurnIInv == TurnInv /\ Posted <= MaxPosts /\ TimerInv /\ StageInv
-----------------------------------------------------------------------------
\* Initially.
LEMMA TurnInitInv == ASSUME TurnInit PROVE TurnIInv
<1>1. TurnTypeOK
  <2>1. [s \in Subs |-> NoSub] \in
          [Subs -> [st : {"none", "asking", "gate", "tool", "done"}, of : 0 .. MaxTurns,
                    timer : BOOLEAN, waited : BOOLEAN]]
    BY TurnAssumption DEF NoSub
  <2>2. 0 \in 0 .. MaxTurns /\ <<>> \in Seq(1 .. MaxPosts)
    BY TurnAssumption
  <2>3. QED
    BY <2>1, <2>2 DEF TurnInit, TurnTypeOK
<1>2. TimersHitOwnTurn /\ SteeredInOrder /\ Posted <= MaxPosts
  BY TurnAssumption DEF TurnInit, TimersHitOwnTurn, SteeredInOrder, Posted
<1>3. TimerInv /\ StageInv
  BY DEF TurnInit, TimerInv, StageInv, NoSub
<1>4. QED
  BY <1>1, <1>2, <1>3 DEF TurnIInv, TurnInv

\* Steps that leave the steering messages alone keep their order.
LEMMA SameMessages ==
  ASSUME TurnIInv, UNCHANGED steerVars
  PROVE  SteeredInOrder' /\ (Posted <= MaxPosts)' /\ ({inbox, queue, said} \subseteq Seq(1 .. MaxPosts))'
BY DEF TurnIInv, TurnInv, TurnTypeOK, SteeredInOrder, Posted, steerVars

\* Steps of the turn and of its loop that set no timer, end no turn and abort nothing.
LEMMA QuietStep ==
  ASSUME TurnIInv, UNCHANGED <<turn, sub, steerVars, hits>>,
         armed' \subseteq armed, armed' # {} => stage' # "idle",
         plan = "stepping" => plan' = "stepping",
         TurnTypeOK'
  PROVE  TurnInv' /\ (Posted <= MaxPosts)' /\ TimerInv'
<1>1. SteeredInOrder' /\ (Posted <= MaxPosts)'
  BY SameMessages
<1>2. TimersHitOwnTurn'
  BY DEF TurnIInv, TurnInv, TimersHitOwnTurn
<1>3. TimerInv'
  BY DEF TurnIInv, TimerInv
<1>4. QED
  BY <1>1, <1>2, <1>3 DEF TurnInv

\* The steps of the turn that touch neither timers nor messages.
LEMMA StagesInv ==
  ASSUME TurnIInv, AdmitToLoop \/ AdmitToPlan \/ Fail \/ PromptReturns \/ Send
  PROVE  TurnIInv'
<1>1. TurnTypeOK'
  BY DEF TurnIInv, TurnInv, TurnTypeOK, AdmitToLoop, AdmitToPlan, Fail, PromptReturns, Send,
    loopVars, planVars, steerVars
<1>2. /\ UNCHANGED <<turn, sub, armed, steerVars, hits>> /\ stage' # "idle"
      /\ plan = "stepping" => plan' = "stepping"
  BY DEF TurnIInv, StageInv, AdmitToLoop, AdmitToPlan, Fail, PromptReturns, Send, loopVars, planVars
<1>3. StageInv'
  BY DEF TurnIInv, StageInv, AdmitToLoop, AdmitToPlan, Fail, PromptReturns, Send, loopVars, planVars
<1>4. QED
  BY <1>1, <1>2, <1>3, QuietStep DEF TurnIInv

\* A turn ends and takes its watchdog with it.
LEMMA EndTurnInv == ASSUME TurnIInv, EndTurn PROVE TurnIInv'
<1>1. armed' = {} /\ plan = "off"
  BY DEF TurnIInv, TimerInv, StageInv, EndTurn, Cleared
<1>2. TurnTypeOK' /\ StageInv'
  BY <1>1 DEF TurnIInv, TurnInv, TurnTypeOK, StageInv, EndTurn, loopVars, planVars, steerVars
<1>3. QED
  BY <1>1, <1>2, QuietStep DEF TurnIInv, EndTurn, planVars

\* A turn that is refused changes nothing but the number.
LEMMA RefuseTurnInv == ASSUME TurnIInv, RefuseTurn PROVE TurnIInv'
<1>1. armed = {} /\ plan = "off" /\ \A s \in Subs : sub[s].timer => sub[s].of = 0
  BY DEF TurnIInv, TimerInv, StageInv, RefuseTurn
<1>2. turn' \in 0 .. MaxTurns
  BY TurnAssumption DEF TurnIInv, TurnInv, TurnTypeOK, RefuseTurn
<1>3. TurnTypeOK' /\ StageInv' /\ TimersHitOwnTurn' /\ TimerInv'
  BY <1>1, <1>2 DEF TurnIInv, TurnInv, TurnTypeOK, StageInv, TimersHitOwnTurn, TimerInv, RefuseTurn,
    loopVars, planVars, steerVars
<1>4. SteeredInOrder' /\ (Posted <= MaxPosts)'
  BY SameMessages DEF RefuseTurn
<1>5. QED
  BY <1>3, <1>4 DEF TurnIInv, TurnInv

\* A turn starts: the inbox goes to the end of the queue.
LEMMA BeginTurnInv == ASSUME TurnIInv, BeginTurn PROVE TurnIInv'
<1>1. armed = {} /\ plan = "off" /\ \A s \in Subs : sub[s].timer => sub[s].of = 0
  BY DEF TurnIInv, TimerInv, StageInv, BeginTurn
<1>2. turn' \in 0 .. MaxTurns /\ turn' \in TurnIds
  BY TurnAssumption DEF TurnIInv, TurnInv, TurnTypeOK, BeginTurn, TurnIds
<1>3. /\ {inbox, queue, said} \subseteq Seq(1 .. MaxPosts)
      /\ queue' = queue \o inbox /\ inbox' = <<>> /\ said' = said
  BY DEF TurnIInv, TurnInv, TurnTypeOK, BeginTurn, Drained
<1>4. {inbox, queue, said}' \subseteq Seq(1 .. MaxPosts)
  BY <1>3
<1>5. TurnTypeOK'
  BY <1>2, <1>4 DEF TurnIInv, TurnInv, TurnTypeOK, BeginTurn, loopVars, planVars
<1>6. Posted' = Posted
  BY <1>3 DEF Posted
<1>7. said' \o queue' \o inbox' = said \o queue \o inbox
  BY <1>3
<1>8. SteeredInOrder' /\ (Posted <= MaxPosts)'
  BY <1>6, <1>7 DEF TurnIInv, TurnInv, SteeredInOrder
<1>9. TimersHitOwnTurn' /\ TimerInv' /\ StageInv'
  BY <1>1 DEF TurnIInv, TurnInv, TimersHitOwnTurn, TimerInv, StageInv, BeginTurn, loopVars, planVars
<1>10. QED
  BY <1>5, <1>8, <1>9 DEF TurnIInv, TurnInv
-----------------------------------------------------------------------------
\* What is taken from the head of one sequence and put at the end of the one before it
\* leaves the two together as they were.
LEMMA MovesOver ==
  ASSUME NEW S, NEW s \in Seq(S), NEW q \in Seq(S), q # <<>>
  PROVE  Append(s, Head(q)) \o Tail(q) = s \o q
<1> DEFINE front == Append(s, Head(q))
           a == front \o Tail(q)
           b == s \o q
<1>1. /\ Head(q) \in S /\ Tail(q) \in Seq(S) /\ Len(Tail(q)) = Len(q) - 1
      /\ \A i \in 1 .. Len(Tail(q)) : Tail(q)[i] = q[i + 1]
      /\ Len(q) \in Nat \ {0} /\ Len(s) \in Nat /\ Head(q) = q[1]
  BY HeadTailProperties
<1>2. /\ front \in Seq(S) /\ Len(front) = Len(s) + 1
      /\ \A i \in 1 .. Len(s) : front[i] = s[i]
      /\ front[Len(s) + 1] = Head(q)
  BY <1>1, AppendProperties
<1> HIDE DEF front
<1>3. /\ a \in Seq(S) /\ Len(a) = Len(front) + Len(Tail(q))
      /\ \A i \in 1 .. Len(front) + Len(Tail(q)) :
           a[i] = IF i <= Len(front) THEN front[i] ELSE Tail(q)[i - Len(front)]
  BY <1>1, <1>2, ConcatProperties
<1>4. /\ b \in Seq(S) /\ Len(b) = Len(s) + Len(q)
      /\ \A i \in 1 .. Len(s) + Len(q) :
           b[i] = IF i <= Len(s) THEN s[i] ELSE q[i - Len(s)]
  BY ConcatProperties
<1> HIDE DEF a, b
<1>5. Len(a) = Len(b)
  BY <1>1, <1>2, <1>3, <1>4
<1>6. ASSUME NEW i \in 1 .. Len(a) PROVE a[i] = b[i]
  <2>1. CASE i <= Len(s)
    BY <1>1, <1>2, <1>3, <1>4, <1>5, <2>1
  <2>2. CASE i = Len(s) + 1
    BY <1>1, <1>2, <1>3, <1>4, <1>5, <2>2
  <2>3. CASE i > Len(s) + 1
    <3>1. i - Len(front) \in 1 .. Len(Tail(q)) /\ i - Len(front) + 1 = i - Len(s)
      BY <1>1, <1>2, <1>3, <2>3
    <3>2. QED
      BY <1>1, <1>2, <1>3, <1>4, <1>5, <2>3, <3>1
  <2>4. QED
    BY <1>1, <2>1, <2>2, <2>3
<1>7. a = b
  BY <1>3, <1>4, <1>5, <1>6, SeqEqual
<1>8. QED
  BY <1>7 DEF a, b, front

\* The loop takes the head of its queue.
LEMMA PollInv == ASSUME TurnIInv, Poll PROVE TurnIInv'
<1>1. CASE queue = <<>>
  <2>1. UNCHANGED <<turn, sub, armed, plan, stage, steerVars, hits>> /\ stage # "idle"
    BY <1>1 DEF TurnIInv, StageInv, Poll, planVars, steerVars
  <2>2. TurnTypeOK' /\ StageInv'
    BY <2>1 DEF TurnIInv, TurnInv, TurnTypeOK, StageInv, Poll, planVars, steerVars
  <2>3. QED
    BY <2>1, <2>2, QuietStep DEF TurnIInv
<1>2. CASE queue # <<>>
  <2>1. /\ {inbox, queue, said} \subseteq Seq(1 .. MaxPosts)
        /\ queue' = Tail(queue) /\ said' = Append(said, Head(queue)) /\ inbox' = inbox
    BY <1>2 DEF TurnIInv, TurnInv, TurnTypeOK, Poll
  <2>2. {inbox, queue, said}' \subseteq Seq(1 .. MaxPosts)
    <3>1. Head(queue) \in 1 .. MaxPosts /\ Tail(queue) \in Seq(1 .. MaxPosts)
      BY <1>2, <2>1, HeadTailProperties
    <3>2. Append(said, Head(queue)) \in Seq(1 .. MaxPosts)
      BY <2>1, <3>1
    <3>3. QED
      BY <2>1, <3>1, <3>2
  <2>3. Posted' = Posted
    BY <1>2, <2>1 DEF Posted
  <2>4. said' \o queue' \o inbox' = said \o queue \o inbox
    <3>1. Append(said, Head(queue)) \o Tail(queue) = said \o queue
      BY <1>2, <2>1, MovesOver
    <3>2. QED
      BY <2>1, <3>1
  <2>5. SteeredInOrder' /\ (Posted <= MaxPosts)'
    BY <2>3, <2>4 DEF TurnIInv, TurnInv, SteeredInOrder
  <2>6. TurnTypeOK'
    BY <2>2 DEF TurnIInv, TurnInv, TurnTypeOK, Poll, planVars
  <2>7. TimersHitOwnTurn' /\ TimerInv' /\ StageInv'
    BY DEF TurnIInv, TurnInv, TimersHitOwnTurn, TimerInv, StageInv, Poll, planVars
  <2>8. QED
    BY <2>5, <2>6, <2>7 DEF TurnIInv, TurnInv
<1>3. QED
  BY <1>1, <1>2

\* The other steps of the loop.
LEMMA LoopInv ==
  ASSUME TurnIInv, ModelAnswers \/ LoopEnds \/ ModelCallsTool \/ ToolEnds
  PROVE  TurnIInv'
<1>1. UNCHANGED <<turn, stage, armed, stopped, planVars, handler, steerVars, hits>>
  BY DEF ModelAnswers, LoopEnds, ModelCallsTool, ToolEnds
<1>2. /\ asked' \subseteq {Parent} \cup Subs
      /\ loop' \in {"off", "polling", "asking", "gate", "tool"}
  BY DEF TurnIInv, TurnInv, TurnTypeOK, ModelAnswers, LoopEnds, ModelCallsTool, ToolEnds
<1>3. TurnTypeOK'
  BY <1>1, <1>2 DEF TurnIInv, TurnInv, TurnTypeOK, planVars, steerVars
<1>4. loop # "off" /\ (plan # "off" => stage # "prompting")
  BY DEF TurnIInv, StageInv, ModelAnswers, LoopEnds, ModelCallsTool, ToolEnds
<1>5. StageInv'
  BY <1>1, <1>4 DEF TurnIInv, StageInv, ModelAnswers, LoopEnds, ModelCallsTool, ToolEnds, planVars
<1>6. QED
  BY <1>1, <1>3, <1>4, <1>5, QuietStep DEF TurnIInv, StageInv, TimerInv, planVars
-----------------------------------------------------------------------------
\* The plan, up to its end.
LEMMA PlannerInv ==
  ASSUME TurnIInv, ToolStartsPlan \/ PlannerFails \/ PlannerAnswers
  PROVE  TurnIInv'
<1>1. UNCHANGED <<turn, armed, sub, asked, handler, steerVars, hits>> /\ plan # "stepping"
  BY DEF ToolStartsPlan, PlannerFails, PlannerAnswers, planVars
<1>2. TurnTypeOK'
  BY DEF TurnIInv, TurnInv, TurnTypeOK, ToolStartsPlan, PlannerFails, PlannerAnswers, loopVars,
    steerVars
<1>3. StageInv'
  BY DEF TurnIInv, StageInv, ToolStartsPlan, PlannerFails, PlannerAnswers, loopVars
<1>4. armed' # {} => stage' # "idle"
  BY DEF TurnIInv, TimerInv, ToolStartsPlan, PlannerFails, PlannerAnswers
<1>5. QED
  BY <1>1, <1>2, <1>3, <1>4, QuietStep DEF TurnIInv

\* It ends when no sub-agent of the turn is waited for, and so none has a time-out.
LEMMA PlanEndsInv == ASSUME TurnIInv, PlanEnds PROVE TurnIInv'
<1>1. \A s \in Subs : sub[s].timer => sub[s].of = 0
  BY DEF TurnIInv, TimerInv, PlanEnds, Waited
<1>2. TurnTypeOK' /\ StageInv' /\ TimersHitOwnTurn' /\ TimerInv'
  BY <1>1 DEF TurnIInv, TurnInv, TurnTypeOK, StageInv, TimersHitOwnTurn, TimerInv, PlanEnds, steerVars
<1>3. SteeredInOrder' /\ (Posted <= MaxPosts)'
  BY SameMessages DEF PlanEnds
<1>4. QED
  BY <1>2, <1>3 DEF TurnIInv, TurnInv

SubType ==
  [st : {"none", "asking", "gate", "tool", "done"}, of : 0 .. MaxTurns,
   timer : BOOLEAN, waited : BOOLEAN]

\* A sub-agent changes, and keeps what is known of its time-out.
LEMMA SubChanges ==
  ASSUME TurnIInv, NEW s \in Subs, NEW new \in SubType, sub' = [sub EXCEPT ![s] = new],
         new.timer => new.waited,
         new.timer /\ new.of # 0 => new.of = turn /\ plan = "stepping",
         asked' \subseteq {Parent} \cup Subs, Parent \in asked' => Parent \in asked,
         UNCHANGED <<turn, stage, armed, loopVars, plan, planStop, handler, steerVars, hits>>
  PROVE  TurnIInv'
<1>1. sub \in [Subs -> SubType] /\ sub' \in [Subs -> SubType]
  BY DEF TurnIInv, TurnInv, TurnTypeOK, SubType
<1>2. sub'[s] = new /\ \A r \in Subs \ {s} : sub'[r] = sub[r]
  BY <1>1
<1>3. TurnTypeOK'
  BY <1>1 DEF TurnIInv, TurnInv, TurnTypeOK, SubType, loopVars, steerVars
<1>4. TimerInv'
  BY <1>2 DEF TurnIInv, TimerInv
<1>5. StageInv' /\ TimersHitOwnTurn'
  BY DEF TurnIInv, StageInv, TurnInv, TimersHitOwnTurn, loopVars
<1>6. SteeredInOrder' /\ (Posted <= MaxPosts)'
  BY SameMessages
<1>7. QED
  BY <1>3, <1>4, <1>5, <1>6 DEF TurnIInv, TurnInv

LEMMA SubStepInv ==
  ASSUME TurnIInv, NEW s \in Subs,
         (\E t \in {0, turn} : Spawn(s, t)) \/ SubCallsTool(s) \/ SubToolEnds(s) \/ SubEnds(s)
  PROVE  TurnIInv'
<1>1. sub \in [Subs -> SubType] /\ sub[s] \in SubType /\ turn \in 0 .. MaxTurns
      /\ asked \subseteq {Parent} \cup Subs
  BY DEF TurnIInv, TurnInv, TurnTypeOK, SubType
<1>2. /\ sub[s].timer => sub[s].waited
      /\ sub[s].timer /\ sub[s].of # 0 => sub[s].of = turn /\ plan = "stepping"
  BY DEF TurnIInv, TimerInv
<1>3. ASSUME NEW t \in {0, turn}, Spawn(s, t) PROVE TurnIInv'
  <2> DEFINE new == [st |-> "asking", of |-> t, timer |-> TRUE, waited |-> TRUE]
  <2>1. new \in SubType /\ (t # 0 => t = turn /\ plan = "stepping")
    BY <1>1, <1>3, TurnAssumption DEF SubType, Spawn
  <2>2. QED
    BY <1>1, <1>3, <2>1, SubChanges DEF Spawn
<1>4. CASE SubCallsTool(s)
  <2>1. PICK st \in {"tool", "gate"} : sub' = [sub EXCEPT ![s].st = st]
    BY <1>4 DEF SubCallsTool
  <2>2. [sub[s] EXCEPT !.st = st] \in SubType
    BY <1>1 DEF SubType
  <2>3. sub' = [sub EXCEPT ![s] = [sub[s] EXCEPT !.st = st]]
    BY <2>1
  <2>4. asked' \subseteq {Parent} \cup Subs /\ (Parent \in asked' => Parent \in asked)
    BY <1>1, <1>4, TurnAssumption DEF SubCallsTool
  <2>5. QED
    BY <1>1, <1>2, <1>4, <2>2, <2>3, <2>4, SubChanges DEF SubCallsTool, SubType
<1>5. CASE SubToolEnds(s)
  <2>1. [sub[s] EXCEPT !.st = "asking"] \in SubType
    BY <1>1 DEF SubType
  <2>2. sub' = [sub EXCEPT ![s] = [sub[s] EXCEPT !.st = "asking"]]
    BY <1>5 DEF SubToolEnds
  <2>3. QED
    BY <1>1, <1>2, <1>5, <2>1, <2>2, SubChanges DEF SubToolEnds, SubType
<1>6. CASE SubEnds(s)
  <2>1. Settled(s) \in SubType /\ ~Settled(s).timer
    BY <1>1 DEF SubType, Settled
  <2>2. sub' = [sub EXCEPT ![s] = Settled(s)]
    BY <1>6 DEF SubEnds
  <2>3. QED
    BY <1>1, <1>6, <2>1, <2>2, SubChanges DEF SubEnds
<1>7. QED
  BY <1>3, <1>4, <1>5, <1>6
-----------------------------------------------------------------------------
\* The timers: each hits the turn that set it.
LEMMA SubTimesOutInv == ASSUME TurnIInv, NEW s \in Subs, SubTimesOut(s) PROVE TurnIInv'
<1>1. sub \in [Subs -> SubType] /\ sub[s] \in SubType /\ turn \in 0 .. MaxTurns
  BY DEF TurnIInv, TurnInv, TurnTypeOK, SubType
<1>2. sub[s].of # 0 => sub[s].of = turn /\ plan = "stepping"
  BY DEF TurnIInv, TimerInv, SubTimesOut
<1>3. sub[s].of # 0 => Now = sub[s].of
  BY <1>2 DEF TurnIInv, StageInv, Now
<1>4. Now \in 0 .. MaxTurns
  BY <1>1, TurnAssumption DEF Now
<1>5. sub' \in [Subs -> SubType] /\ ~sub'[s].timer
      /\ \A r \in Subs \ {s} : sub'[r] = sub[r]
  <2>1. [sub[s] EXCEPT !.timer = FALSE, !.waited = FALSE] \in SubType
    BY <1>1 DEF SubType
  <2>2. sub' = [sub EXCEPT ![s] = [sub[s] EXCEPT !.timer = FALSE, !.waited = FALSE]]
    BY DEF SubTimesOut
  <2>3. [sub[s] EXCEPT !.timer = FALSE, !.waited = FALSE].timer = FALSE
    BY <1>1 DEF SubType
  <2>4. QED
    BY <1>1, <2>1, <2>2, <2>3
<1>6. {stopped, planStop}' \subseteq BOOLEAN
  BY DEF TurnIInv, TurnInv, TurnTypeOK, SubTimesOut, AbortAll
<1>7. <<sub[s].of, Now>> \in (0 .. MaxTurns) \X (0 .. MaxTurns)
  BY <1>1, <1>4 DEF SubType
<1>8. TurnTypeOK'
  BY <1>5, <1>6, <1>7 DEF TurnIInv, TurnInv, TurnTypeOK, SubType, SubTimesOut, steerVars
<1>9. TimersHitOwnTurn'
  BY <1>3 DEF TurnIInv, TurnInv, TimersHitOwnTurn, SubTimesOut
<1>10. TimerInv'
  BY <1>5 DEF TurnIInv, TimerInv, SubTimesOut
<1>11. StageInv'
  BY DEF TurnIInv, StageInv, SubTimesOut
<1>12. SteeredInOrder' /\ (Posted <= MaxPosts)'
  BY SameMessages DEF SubTimesOut
<1>13. QED
  BY <1>8, <1>9, <1>10, <1>11, <1>12 DEF TurnIInv, TurnInv

LEMMA WatchdogFiresInv == ASSUME TurnIInv, NEW t \in TurnIds, WatchdogFires(t) PROVE TurnIInv'
<1>1. t = turn /\ Now = t /\ t \in 0 .. MaxTurns
  BY DEF TurnIInv, TimerInv, WatchdogFires, Now, TurnInv, TurnTypeOK
<1>2. {stopped, planStop}' \subseteq BOOLEAN
  BY DEF TurnIInv, TurnInv, TurnTypeOK, WatchdogFires, AbortAll
<1>3. TurnTypeOK'
  BY <1>1, <1>2 DEF TurnIInv, TurnInv, TurnTypeOK, WatchdogFires, steerVars
<1>4. TimersHitOwnTurn' /\ TimerInv' /\ StageInv'
  BY <1>1 DEF TurnIInv, TurnInv, TimersHitOwnTurn, TimerInv, StageInv, WatchdogFires
<1>5. SteeredInOrder' /\ (Posted <= MaxPosts)'
  BY SameMessages DEF WatchdogFires
<1>6. QED
  BY <1>3, <1>4, <1>5 DEF TurnIInv, TurnInv
-----------------------------------------------------------------------------
\* The user, and whoever steers.
LEMMA UserAbortsInv == ASSUME TurnIInv, UserAborts PROVE TurnIInv'
<1>1. {stopped, planStop}' \subseteq BOOLEAN
  BY DEF TurnIInv, TurnInv, TurnTypeOK, UserAborts, AbortAll
<1>2. TurnTypeOK' /\ StageInv'
  BY <1>1 DEF TurnIInv, TurnInv, TurnTypeOK, StageInv, UserAborts, steerVars
<1>3. armed' # {} => stage' # "idle"
  BY DEF TurnIInv, TimerInv, UserAborts
<1>4. QED
  BY <1>2, <1>3, QuietStep DEF TurnIInv, UserAborts

LEMMA DecideInv == ASSUME TurnIInv, NEW a \in {Parent} \cup Subs, Decide(a) PROVE TurnIInv'
<1>1. CASE a = Parent
  <2>1. loop = "gate" /\ loop' \in {"tool", "polling"} /\ Parent \notin asked'
        /\ asked' \subseteq asked
        /\ UNCHANGED <<turn, stage, armed, stopped, planVars, handler, steerVars, hits>>
    BY <1>1 DEF TurnIInv, StageInv, Decide, planVars
  <2>2. TurnTypeOK' /\ StageInv'
    BY <2>1 DEF TurnIInv, TurnInv, TurnTypeOK, StageInv, planVars, steerVars
  <2>3. armed' # {} => stage' # "idle"
    BY <2>1 DEF TurnIInv, TimerInv
  <2>4. QED
    BY <2>1, <2>2, <2>3, QuietStep DEF TurnIInv, planVars
<1>2. CASE a # Parent
  <2>1. PICK st \in {"tool", "asking"} : sub' = [sub EXCEPT ![a].st = st]
    BY <1>2 DEF Decide
  <2>2. a \in Subs /\ sub[a] \in SubType /\ sub' = [sub EXCEPT ![a] = [sub[a] EXCEPT !.st = st]]
    BY <1>2, <2>1 DEF TurnIInv, TurnInv, TurnTypeOK, SubType
  <2>3. /\ [sub[a] EXCEPT !.st = st] \in SubType
        /\ [sub[a] EXCEPT !.st = st].timer = sub[a].timer
        /\ [sub[a] EXCEPT !.st = st].waited = sub[a].waited
        /\ [sub[a] EXCEPT !.st = st].of = sub[a].of
    BY <2>2 DEF SubType
  <2>4. /\ asked' \subseteq {Parent} \cup Subs /\ (Parent \in asked' => Parent \in asked)
        /\ UNCHANGED <<turn, stage, armed, loopVars, plan, planStop, handler, steerVars, hits>>
    BY <1>2 DEF TurnIInv, TurnInv, TurnTypeOK, Decide, loopVars
  <2>5. /\ sub[a].timer => sub[a].waited
        /\ sub[a].timer /\ sub[a].of # 0 => sub[a].of = turn /\ plan = "stepping"
    BY <2>2 DEF TurnIInv, TimerInv
  <2>6. QED
    BY <2>2, <2>3, <2>4, <2>5, SubChanges
<1>3. QED
  BY <1>1, <1>2

\* A message goes to the end of the inbox.
LEMMA EnqueueInv == ASSUME TurnIInv, Enqueue PROVE TurnIInv'
<1>1. /\ inbox \in Seq(1 .. MaxPosts) /\ queue \in Seq(1 .. MaxPosts)
      /\ said \in Seq(1 .. MaxPosts) /\ MaxPosts \in Nat
      /\ inbox' = Append(inbox, Posted + 1) /\ queue' = queue /\ said' = said
  BY TurnAssumption DEF TurnIInv, TurnInv, TurnTypeOK, Enqueue
<1>2. Posted \in Nat /\ Posted + 1 \in 1 .. MaxPosts
  BY <1>1 DEF Posted, Enqueue
<1>3. inbox' \in Seq(1 .. MaxPosts)
  BY <1>1, <1>2
<1>4. Posted' = Posted + 1
  BY <1>1, <1>2 DEF Posted
<1>5. SteeredInOrder'
  <2> DEFINE all == said \o queue \o inbox
  <2>1. all \in Seq(1 .. MaxPosts) /\ Len(all) = Posted
    BY <1>1 DEF Posted
  <2>2. said' \o queue' \o inbox' = Append(all, Posted + 1)
    BY <1>1, <1>2
  <2>3. \A i \in 1 .. Posted : all[i] = i
    BY DEF TurnIInv, TurnInv, SteeredInOrder
  <2> HIDE DEF all
  <2>4. \A i \in 1 .. Posted + 1 : Append(all, Posted + 1)[i] = i
    BY <1>2, <2>1, <2>3
  <2>5. QED
    BY <1>4, <2>2, <2>4 DEF SteeredInOrder
<1>6. TurnTypeOK'
  BY <1>1, <1>3 DEF TurnIInv, TurnInv, TurnTypeOK, Enqueue, loopVars, planVars
<1>7. TimersHitOwnTurn' /\ TimerInv' /\ StageInv' /\ (Posted <= MaxPosts)'
  BY <1>2, <1>4 DEF TurnIInv, TurnInv, TimersHitOwnTurn, TimerInv, StageInv, Enqueue, loopVars,
    planVars
<1>8. QED
  BY <1>5, <1>6, <1>7 DEF TurnIInv, TurnInv
-----------------------------------------------------------------------------
\* Every action of the turn preserves the invariant.
LEMMA TurnStep == ASSUME TurnIInv, [TurnNext]_turnVars PROVE TurnIInv'
<1>1. CASE BeginTurn \/ RefuseTurn \/ EndTurn
  BY <1>1, BeginTurnInv, RefuseTurnInv, EndTurnInv
<1>2. CASE AdmitToLoop \/ AdmitToPlan \/ Fail \/ PromptReturns \/ Send
  BY <1>2, StagesInv
<1>3. CASE Poll
  BY <1>3, PollInv
<1>4. CASE ModelAnswers \/ LoopEnds \/ ModelCallsTool \/ ToolEnds
  BY <1>4, LoopInv
<1>5. CASE ToolStartsPlan \/ PlannerFails \/ PlannerAnswers
  BY <1>5, PlannerInv
<1>6. CASE PlanEnds
  BY <1>6, PlanEndsInv
<1>7. ASSUME NEW s \in Subs,
             (\E t \in {0, turn} : Spawn(s, t)) \/ SubCallsTool(s) \/ SubToolEnds(s) \/ SubEnds(s)
      PROVE  TurnIInv'
  BY <1>7, SubStepInv
<1>8. ASSUME NEW s \in Subs, SubTimesOut(s) PROVE TurnIInv'
  BY <1>8, SubTimesOutInv
<1>9. ASSUME NEW t \in TurnIds, WatchdogFires(t) PROVE TurnIInv'
  BY <1>9, WatchdogFiresInv
<1>10. CASE UserAborts
  BY <1>10, UserAbortsInv
<1>11. ASSUME NEW a \in {Parent} \cup Subs, Decide(a) PROVE TurnIInv'
  BY <1>11, DecideInv
<1>12. CASE Enqueue
  BY <1>12, EnqueueInv
<1>13. CASE UNCHANGED turnVars
  <2>1. TurnTypeOK' /\ StageInv'
    BY <1>13 DEF TurnIInv, TurnInv, TurnTypeOK, StageInv, turnVars
  <2>2. armed' # {} => stage' # "idle"
    BY <1>13 DEF TurnIInv, TimerInv, turnVars
  <2>3. QED
    BY <1>13, <2>1, <2>2, QuietStep DEF TurnIInv, turnVars, steerVars
<1>14. QED
  BY <1>1, <1>2, <1>3, <1>4, <1>5, <1>6, <1>7, <1>8, <1>9, <1>10, <1>11, <1>12, <1>13
  DEF TurnNext

\* The timers a turn sets hit no later turn, and steering messages reach the agent in the
\* order of the inbox, whatever the model, the plan, the user and the timers do (the finally
\* blocks of turn and of SubAgent.run, PiSteeringInbox).
THEOREM TurnIsSound == TurnSpec => []TurnInv
<1>1. TurnIInv => TurnInv
  BY DEF TurnIInv
<1>2. QED
  BY <1>1, TurnInitInv, TurnStep, PTL DEF TurnSpec
-----------------------------------------------------------------------------
(***************************************************************************)
(* The transcript: the checkpoint restored is a recent one, requests leave *)
(* it bounded, and a compaction forgets no old turn.                       *)
(***************************************************************************)
\* The checkpoints of a process have one that is the latest, of the millisecond of the
\* latest save.
RowsInv ==
  /\ lastSave <= now
  /\ \A r \in rows : r.ts < lastSave * Wrap + Wrap
  /\ lastSave > 0 => \E r \in rows : \A q \in rows : q.ts <= r.ts /\ lastSave * Wrap <= r.ts
  /\ lastSave = 0 => rows = {}

TranscriptIInv == TypeOK /\ RowsInv /\ OldTurnsSummarized

LEMMA Limits ==
  /\ KeepRecent \in Nat /\ KeepRecent > 0 /\ Keep \in Nat /\ Keep > 0
  /\ Wrap \in Nat /\ Wrap > 0 /\ Overhead \in Nat /\ MaxTime \in Nat /\ MaxTime > 0
  /\ MaxMessages \in Nat /\ MaxLength \in Nat
BY NumberAssumption

\* What slice(-n) keeps.
LEMMA LastOfLemma ==
  ASSUME NEW S, NEW s \in Seq(S), NEW n \in Nat, n > 0
  PROVE  LastOf(s, n) \in Seq(S) /\ Len(LastOf(s, n)) \in 0 .. n
<1> DEFINE m == Larger(1, Len(s) - n + 1)
<1>1. Len(s) \in Nat /\ m \in Int /\ m >= 1 /\ Len(s) - n + 1 <= m
  BY LenProperties DEF Larger
<1>2. \A i \in m .. Len(s) : s[i] \in S
  BY <1>1, ElementOfSeq
<1> HIDE DEF m
<1>3. /\ SubSeq(s, m, Len(s)) \in Seq(S)
      /\ Len(SubSeq(s, m, Len(s))) = IF m <= Len(s) THEN Len(s) - m + 1 ELSE 0
  BY <1>1, <1>2, SubSeqProperties
<1>4. LastOf(s, n) = SubSeq(s, m, Len(s))
  BY DEF LastOf, m
<1>5. QED
  BY <1>1, <1>3, <1>4

LEMMA MessageLemma ==
  ASSUME NEW b \in BOOLEAN, NEW S \in SUBSET Turns
  PROVE  Message(b, S) \in Messages
BY DEF Message, Messages

LEMMA SummarizedLemma ==
  ASSUME tape \in Seq(Turns)
  PROVE  Summarized \in SUBSET Turns
<1>1. Len(tape) \in Nat /\ \A i \in 1 .. Len(tape) : tape[i] \in Turns
  BY LenProperties, ElementOfSeq
<1>2. QED
  BY <1>1, Limits DEF Summarized, AllBut

\* A sequence with one more element in front.
LEMMA PrependLemma ==
  ASSUME NEW S, NEW m \in S, NEW s \in Seq(S)
  PROVE  /\ <<m>> \o s \in Seq(S)
         /\ Len(<<m>> \o s) = 1 + Len(s)
         /\ (<<m>> \o s)[1] = m
<1>1. <<m>> \in Seq(S) /\ Len(<<m>>) = 1 /\ <<m>>[1] = m /\ Len(s) \in Nat
  BY LenProperties
<1>2. 1 \in 1 .. Len(<<m>>) + Len(s)
  BY <1>1
<1>3. QED
  BY <1>1, <1>2, ConcatProperties

\* What a compaction makes of the transcript.
LEMMA CompactedLemma ==
  ASSUME TypeOK
  PROVE  LET c == <<Message(TRUE, Summarized)>> \o Trimmed
         IN  /\ c \in Seq(Messages)
             /\ Len(c) <= KeepRecent + 1
             /\ c[1] = Message(TRUE, Summarized)
<1>1. Trimmed \in Seq(Messages) /\ Len(Trimmed) \in 0 .. KeepRecent
  BY LastOfLemma, Limits DEF Trimmed, TypeOK
<1>2. Message(TRUE, Summarized) \in Messages
  BY SummarizedLemma, MessageLemma DEF TypeOK
<1>3. /\ <<Message(TRUE, Summarized)>> \o Trimmed \in Seq(Messages)
      /\ Len(<<Message(TRUE, Summarized)>> \o Trimmed) = 1 + Len(Trimmed)
      /\ (<<Message(TRUE, Summarized)>> \o Trimmed)[1] = Message(TRUE, Summarized)
  BY <1>1, <1>2, PrependLemma
<1>4. \A m \in 0 .. KeepRecent : 1 + m <= KeepRecent + 1
  BY Limits
<1>5. 1 + Len(Trimmed) <= KeepRecent + 1
  BY <1>1, <1>4
<1> DEFINE d == <<Message(TRUE, Summarized)>> \o Trimmed
<1>6. d \in Seq(Messages) /\ Len(d) <= KeepRecent + 1 /\ d[1] = Message(TRUE, Summarized)
  BY <1>3, <1>5
<1>7. QED
  BY <1>6

\* The transcript after a request is a transcript, and a bounded one.
LEMMA InjectLemma ==
  ASSUME TypeOK, Inject
  PROVE  /\ live' \in Seq(Messages)
         /\ outcome' \in {"fits", "trimmed", "failed"}
         /\ outcome' # "failed" => Len(live') <= Larger(MaxMessages, KeepRecent + 1)
         /\ outcome' = "trimmed" => live'[1] = Message(TRUE, Summarized)
<1>1. CASE outcome' = "trimmed" /\ live' = <<Message(TRUE, Summarized)>> \o Trimmed
  <2>1. Len(live') <= KeepRecent + 1 /\ live' \in Seq(Messages)
    BY <1>1, CompactedLemma
  <2>2. Len(live') \in Nat
    BY <2>1, LenProperties
  <2>3. Len(live') <= Larger(MaxMessages, KeepRecent + 1)
    BY <2>1, <2>2, Limits DEF Larger
  <2>4. QED
    BY <1>1, <2>1, <2>3, CompactedLemma
<1>2. CASE outcome' = "failed" /\ live' = live
  BY <1>2 DEF TypeOK
<1>3. CASE outcome' = "fits" /\ live' = live /\ ~TooMany
  <2>1. Len(live) \in Nat /\ live \in Seq(Messages)
    BY LenProperties DEF TypeOK
  <2>2. Len(live) <= Larger(MaxMessages, KeepRecent + 1)
    BY <1>3, <2>1, Limits DEF TooMany, Larger
  <2>3. QED
    BY <1>3, <2>1, <2>2
<1>4. QED
  BY <1>1, <1>2, <1>3 DEF Inject, Compacts

\* A non-empty tape has a latest checkpoint.
LEMMA NewestLemma ==
  ASSUME TypeOK, RowsInv, rows # {}
  PROVE  /\ NewestOf(rows) \in rows
         /\ \A q \in rows : q.ts <= NewestOf(rows).ts
         /\ NewestOf(rows).messages \in Seq(Messages)
         /\ lastSave > 0
<1>1. lastSave > 0
  BY Limits DEF RowsInv, TypeOK
<1>2. \E r \in rows : \A q \in rows : q.ts <= r.ts
  BY <1>1 DEF RowsInv
<1>3. QED
  BY <1>1, <1>2 DEF NewestOf, TypeOK

LEMMA Multiples ==
  ASSUME NEW a \in Nat, NEW b \in Nat, a <= b
  PROVE  a * Wrap <= b * Wrap /\ a * Wrap \in Nat /\ b * Wrap \in Nat
<1>1. \A w \in Nat, i \in Nat, j \in Nat : i <= j => i * w <= j * w /\ i * w \in Nat
  OBVIOUS
<1>2. QED
  BY <1>1, Limits

LEMMA CounterLemma ==
  ASSUME NEW n \in 0 .. Wrap - 1
  PROVE  Following(n) \in 0 .. Wrap - 1
<1>1. \A m \in Nat, w \in Nat \ {0} : m % w \in 0 .. w - 1
  OBVIOUS
<1>2. n + 1 \in Nat /\ Wrap \in Nat \ {0}
  BY Limits
<1>3. QED
  BY <1>1, <1>2 DEF Following

\* A checkpoint is the latest, or ties with its millisecond's latest.
LEMMA SavesLemma ==
  ASSUME TypeOK, RowsInv, CanSave, Saves, now' = now, now > 0
  PROVE  /\ rows' \subseteq [ts : Nat, messages : Seq(Messages)]
         /\ counter' \in 0 .. Wrap - 1 /\ burst' \in 0 .. Wrap
         /\ lastSave' \in 0 .. MaxTime
         /\ RowsInv'
         /\ \E r \in rows' : \A q \in rows' : q.ts <= r.ts
         /\ rows' # {}
<1> DEFINE new == Checkpoint(now, counter)
<1>1. /\ now \in Nat /\ now <= MaxTime /\ counter \in Nat /\ counter < Wrap
      /\ lastSave \in Nat /\ lastSave <= now /\ burst \in Nat /\ burst < Wrap
  BY Limits DEF TypeOK, RowsInv, CanSave
<1>2. lastSave * Wrap <= now * Wrap /\ now * Wrap \in Nat /\ lastSave * Wrap \in Nat
  BY <1>1, Multiples
<1>3. /\ new.ts = now * Wrap + counter /\ new.messages \in Seq(Messages)
      /\ new \in [ts : Nat, messages : Seq(Messages)]
  BY <1>1, <1>2 DEF Checkpoint, Stamp, TypeOK
<1>4. rows' = rows \cup {new} /\ lastSave' = now /\ burst' = burst + 1
  BY DEF Saves
<1>5. counter' \in 0 .. Wrap - 1
  BY <1>1, CounterLemma DEF Saves, TypeOK
<1>6. \A q \in rows : q.ts \in Nat /\ q.ts < lastSave * Wrap + Wrap
  BY DEF TypeOK, RowsInv
<1>7. new.ts \in Nat /\ new.ts < now * Wrap + Wrap /\ now * Wrap <= new.ts
  BY <1>1, <1>3, <1>2, Limits
<1> HIDE DEF new
<1>8. \A q \in rows' : q.ts < lastSave' * Wrap + Wrap
  BY <1>2, <1>4, <1>6, <1>7, Limits
<1>9. \E r \in rows' : \A q \in rows' : q.ts <= r.ts /\ lastSave' * Wrap <= r.ts
  <2>1. CASE \A q \in rows : q.ts <= new.ts
    BY <2>1, <1>2, <1>4, <1>7
  <2>2. CASE \E q \in rows : ~(q.ts <= new.ts)
    <3>1. lastSave > 0
      BY <2>2, <1>1 DEF RowsInv
    <3>2. PICK r \in rows : \A q \in rows : q.ts <= r.ts
      BY <3>1 DEF RowsInv
    <3>3. new.ts <= r.ts
      BY <2>2, <3>2, <1>6, <1>7
    <3>4. lastSave' * Wrap <= r.ts
      BY <3>3, <1>2, <1>4, <1>6, <1>7
    <3>5. QED
      BY <3>2, <3>3, <3>4, <1>4
  <2>3. QED
    BY <2>1, <2>2
<1>10. RowsInv'
  BY <1>1, <1>4, <1>8, <1>9 DEF RowsInv
<1>11. QED
  BY <1>1, <1>3, <1>4, <1>5, <1>9, <1>10, Limits DEF TypeOK

\* Pruning keeps the latest.
LEMMA PruneLemma ==
  ASSUME TypeOK, RowsInv, Prune
  PROVE  RowsInv' /\ rows' \subseteq rows
<1>1. rows' \subseteq rows /\ lastSave' = lastSave /\ now' = now
  BY DEF Prune, Kept
<1>2. ASSUME NEW r \in rows, \A q \in rows : q.ts <= r.ts
      PROVE  r \in rows'
  <2>1. {q \in rows : r.ts < q.ts} = {}
    BY <1>2 DEF TypeOK
  <2>2. Cardinality({q \in rows : r.ts < q.ts}) = 0
    BY <2>1, FS_EmptySet
  <2>3. QED
    BY <2>2, Limits DEF Prune, Kept
<1>3. QED
  BY <1>1, <1>2 DEF RowsInv

\* What a restore brings back is a transcript.
LEMMA RestoredLemma ==
  ASSUME NEW R, NEW r \in R, \A q \in R : q.ts <= r.ts,
         R \subseteq [ts : Nat, messages : Seq(Messages)]
  PROVE  NewestOf(R).messages \in Seq(Messages)
BY DEF NewestOf

\* The steps of the agent loop keep the types.
LEMMA LoopLemma ==
  ASSUME TranscriptIInv,
         \/ \E t \in Turns : StartTurn(t)
         \/ Ask \/ Reply \/ SubAgentAsks \/ ToolResult \/ TurnFails \/ Clear \/ Restore
  PROVE  TypeOK' /\ RowsInv' /\ OldTurnsSummarized'
<1> USE DEF TranscriptIInv
<1>1. UNCHANGED <<tape, checkpointVars, now>>
  BY DEF StartTurn, Ask, Reply, SubAgentAsks, ToolResult, TurnFails, Clear, Restore
<1>2. RowsInv'
  BY <1>1 DEF RowsInv, checkpointVars
<1> DEFINE T == /\ {live, sent} \subseteq Seq(Messages)
                /\ phase \in {"idle", "asking", "asked", "working", "answered"}
                /\ cur \in Turns \cup {NoTurn}
                /\ (cur = NoTurn) <=> (phase = "idle")
                /\ begun \in SUBSET Turns
                /\ reported \in Int
                /\ outcome \in {"fits", "trimmed", "failed"}
<1>3. T' => TypeOK'
  BY <1>1 DEF TypeOK, checkpointVars
<1>4. T /\ <<>> \in Seq(Messages)
  BY DEF TypeOK
<1>5. \A S \in SUBSET Turns, b \in BOOLEAN : Append(live, Message(b, S)) \in Seq(Messages)
  BY MessageLemma, AppendProperties DEF TypeOK
<1>6. \A t \in Turns : t # NoTurn /\ {t} \in SUBSET Turns
  BY NoTurnAssumption
<1>7. ASSUME NEW t \in Turns, StartTurn(t) PROVE T' /\ OldTurnsSummarized'
  <2>1. T'
    <3>1. live' \in Seq(Messages)
      BY <1>5, <1>6, <1>7 DEF StartTurn
    <3>2. begun' \in SUBSET Turns /\ cur' \in Turns /\ cur' # NoTurn
      BY <1>4, <1>6, <1>7 DEF StartTurn
    <3>3. phase' = "asking" /\ reported' = -1 /\ sent' = sent /\ outcome' = outcome
      BY <1>7 DEF StartTurn, requestVars
    <3>4. QED
      BY <1>4, <3>1, <3>2, <3>3
  <2>2. OldTurnsSummarized'
    BY <1>7 DEF StartTurn, OldTurnsSummarized
  <2>3. QED
    BY <1>2, <1>3, <2>1, <2>2
<1>8. CASE Ask
  <2>1. /\ live' \in Seq(Messages) /\ outcome' \in {"fits", "trimmed", "failed"}
        /\ outcome' = "trimmed" => live'[1] = Message(TRUE, Summarized)
    BY <1>8, InjectLemma DEF Ask
  <2>2. T'
    BY <1>4, <1>8, <2>1 DEF Ask
  <2>3. OldTurnsSummarized'
    <3> SUFFICES ASSUME outcome' = "trimmed"
                 PROVE  /\ sent'[1].summary
                        /\ \A i \in 1 .. Len(tape) :
                             i + KeepRecent <= Len(tape) => tape[i] \in sent'[1].of
      BY <1>1 DEF OldTurnsSummarized
    <3>1. sent'[1] = Message(TRUE, Summarized)
      BY <1>8, <2>1 DEF Ask
    <3>2. Len(tape) \in Nat
      BY LenProperties DEF TypeOK
    <3>3. \A i \in 1 .. Len(tape) : i + KeepRecent <= Len(tape) => tape[i] \in Summarized
      BY <3>2, Limits DEF Summarized, AllBut
    <3>4. QED
      BY <3>1, <3>3 DEF Message
  <2>4. QED
    BY <1>2, <1>3, <2>2, <2>3
<1>9. CASE Reply
  <2>1. Message(FALSE, {cur}) \in Messages
    BY <1>4, <1>9, MessageLemma DEF Reply
  <2>2. live' \in Seq(Messages)
    BY <1>4, <1>9, <2>1, AppendProperties DEF Reply
  <2>3. \A n \in 1 .. MaxLength : Overhead + n \in Int
    BY Limits
  <2>4. Overhead + Len(sent) \in Int
    BY <1>4, Limits, LenProperties
  <2>5. reported' \in Int
    BY <1>4, <1>9, <2>3, <2>4 DEF Reply, Reports
  <2>6. T'
    BY <1>4, <1>9, <2>2, <2>5 DEF Reply, Closed
  <2>7. OldTurnsSummarized'
    BY <1>9 DEF Reply, OldTurnsSummarized
  <2>8. QED
    BY <1>2, <1>3, <2>6, <2>7
<1>10. CASE SubAgentAsks
  <2>1. live' \in Seq(Messages) /\ outcome' \in {"fits", "trimmed", "failed"}
    BY <1>10, InjectLemma DEF SubAgentAsks
  <2>2. T'
    BY <1>4, <1>10, <2>1 DEF SubAgentAsks, phaseVars
  <2>3. OldTurnsSummarized'
    BY <1>10 DEF SubAgentAsks, phaseVars, OldTurnsSummarized
  <2>4. QED
    BY <1>2, <1>3, <2>2, <2>3
<1>11. CASE ToolResult
  <2>1. Message(FALSE, {cur}) \in Messages
    BY <1>4, <1>11, MessageLemma DEF ToolResult
  <2>2. live' \in Seq(Messages)
    BY <1>4, <1>11, <2>1, AppendProperties DEF ToolResult
  <2>3. T'
    BY <1>4, <1>11, <2>2 DEF ToolResult
  <2>4. OldTurnsSummarized'
    BY <1>11 DEF ToolResult, OldTurnsSummarized
  <2>5. QED
    BY <1>2, <1>3, <2>3, <2>4
<1>12. CASE TurnFails
  <2>1. T'
    BY <1>4, <1>12 DEF TurnFails, Closed
  <2>2. OldTurnsSummarized'
    BY <1>12 DEF TurnFails, OldTurnsSummarized
  <2>3. QED
    BY <1>2, <1>3, <2>1, <2>2
<1>13. CASE Clear
  <2>1. T'
    BY <1>4, <1>13 DEF Clear, phaseVars, requestVars
  <2>2. OldTurnsSummarized'
    BY <1>13, <1>1 DEF Clear, phaseVars, requestVars, OldTurnsSummarized
  <2>3. QED
    BY <1>2, <1>3, <2>1, <2>2
<1>14. CASE Restore
  <2>1. live' \in Seq(Messages)
    BY <1>14, NewestLemma DEF Restore
  <2>2. T'
    BY <1>4, <1>14, <2>1 DEF Restore, phaseVars, requestVars
  <2>3. OldTurnsSummarized'
    BY <1>14, <1>1 DEF Restore, phaseVars, requestVars, OldTurnsSummarized
  <2>4. QED
    BY <1>2, <1>3, <2>2, <2>3
<1>15. QED
  BY <1>2, <1>3, <1>7, <1>8, <1>9, <1>10, <1>11, <1>12, <1>13, <1>14

\* So do the steps that save checkpoints, prune them, or let time pass.
LEMMA TapeLemma ==
  ASSUME TranscriptIInv, now > 0, Record \/ Save \/ Prune \/ Rebuild \/ Crash \/ Tick
  PROVE  TypeOK' /\ RowsInv' /\ OldTurnsSummarized'
<1> USE DEF TranscriptIInv
<1>1. CASE Record
  <2>1. /\ RowsInv' /\ rows' \subseteq [ts : Nat, messages : Seq(Messages)]
        /\ counter' \in 0 .. Wrap - 1 /\ burst' \in 0 .. Wrap /\ lastSave' \in 0 .. MaxTime
    <3>1. CASE CanSave /\ Saves
      BY <3>1, <1>1, SavesLemma DEF Record
    <3>2. CASE UNCHANGED checkpointVars
      BY <3>2, <1>1, Limits DEF Record, checkpointVars, RowsInv, TypeOK
    <3>3. QED
      BY <1>1, <3>1, <3>2 DEF Record
  <2>2. tape' \in Seq(Turns)
    BY <1>1, AppendProperties DEF Record, TypeOK
  <2>3. TypeOK'
    BY <1>1, <2>1, <2>2 DEF Record, TypeOK, requestVars
  <2>4. OldTurnsSummarized'
    BY <1>1 DEF Record, OldTurnsSummarized
  <2>5. QED
    BY <2>1, <2>3, <2>4
<1>2. CASE Save
  <2>1. /\ RowsInv' /\ rows' \subseteq [ts : Nat, messages : Seq(Messages)]
        /\ counter' \in 0 .. Wrap - 1 /\ burst' \in 0 .. Wrap /\ lastSave' \in 0 .. MaxTime
    BY <1>2, SavesLemma DEF Save
  <2>2. TypeOK'
    BY <1>2, <2>1 DEF Save, TypeOK, requestVars, phaseVars
  <2>3. OldTurnsSummarized'
    BY <1>2 DEF Save, OldTurnsSummarized, requestVars, phaseVars
  <2>4. QED
    BY <2>1, <2>2, <2>3
<1>3. CASE Prune
  <2>1. RowsInv' /\ rows' \subseteq rows
    BY <1>3, PruneLemma
  <2>2. TypeOK'
    BY <1>3, <2>1 DEF Prune, TypeOK, requestVars, phaseVars
  <2>3. OldTurnsSummarized'
    BY <1>3 DEF Prune, OldTurnsSummarized, requestVars, phaseVars
  <2>4. QED
    BY <2>1, <2>2, <2>3
<1>4. CASE Rebuild
  <2>1. /\ RowsInv' /\ rows' \subseteq [ts : Nat, messages : Seq(Messages)]
        /\ counter' \in 0 .. Wrap - 1 /\ burst' \in 0 .. Wrap /\ lastSave' \in 0 .. MaxTime
        /\ \E r \in rows' : \A q \in rows' : q.ts <= r.ts
    BY <1>4, SavesLemma DEF Rebuild
  <2>2. live' \in Seq(Messages)
    BY <1>4, <2>1, RestoredLemma DEF Rebuild
  <2>3. TypeOK'
    BY <1>4, <2>1, <2>2 DEF Rebuild, TypeOK
  <2>4. OldTurnsSummarized'
    BY <1>4 DEF Rebuild, OldTurnsSummarized
  <2>5. QED
    BY <2>1, <2>3, <2>4
<1>5. CASE Crash
  <2>1. /\ now \in Nat /\ now' = now + 1 /\ now' \in 0 .. MaxTime
        /\ 0 \in 0 .. Wrap - 1 /\ 0 \in 0 .. Wrap /\ lastSave \in Nat
    BY <1>5, Limits DEF Crash, TypeOK
  <2>2. RowsInv'
    BY <1>5, <2>1 DEF Crash, RowsInv
  <2>3. live' \in Seq(Messages)
    BY <1>5, NewestLemma DEF Crash
  <2>4. TypeOK'
    BY <1>5, <2>1, <2>3 DEF Crash, TypeOK, Closed
  <2>5. OldTurnsSummarized'
    BY <1>5 DEF Crash, OldTurnsSummarized
  <2>6. QED
    BY <2>2, <2>4, <2>5
<1>6. CASE Tick
  <2>1. /\ now \in Nat /\ now' = now + 1 /\ now' \in 0 .. MaxTime /\ 0 \in 0 .. Wrap
        /\ lastSave \in Nat
    BY <1>6, Limits DEF Tick, TypeOK
  <2>2. RowsInv'
    BY <1>6, <2>1 DEF Tick, RowsInv
  <2>3. TypeOK'
    BY <1>6, <2>1 DEF Tick, TypeOK, requestVars, phaseVars
  <2>4. OldTurnsSummarized'
    BY <1>6 DEF Tick, OldTurnsSummarized, requestVars, phaseVars
  <2>5. QED
    BY <2>2, <2>3, <2>4
<1>7. QED
  BY <1>1, <1>2, <1>3, <1>4, <1>5, <1>6

\* The clock starts at 1.
LEMMA ClockInv ==
  ASSUME TranscriptIInv, now > 0, [Next]_vars
  PROVE  now' > 0
<1>1. now \in Nat
  BY Limits DEF TranscriptIInv, TypeOK
<1>2. now' = now \/ now' = now + 1
  BY DEF Next, vars, StartTurn, Ask, Reply, SubAgentAsks, ToolResult, Record, TurnFails,
         Clear, Restore, Save, Prune, Rebuild, Crash, Tick
<1>3. QED
  BY <1>1, <1>2

LEMMA TranscriptInitInv ==
  ASSUME Init PROVE TranscriptIInv /\ now > 0
<1>1. TypeOK
  BY Limits DEF Init, TypeOK
<1>2. RowsInv
  BY DEF Init, RowsInv
<1>3. OldTurnsSummarized
  BY DEF Init, OldTurnsSummarized
<1>4. QED
  BY <1>1, <1>2, <1>3 DEF Init, TranscriptIInv

LEMMA TranscriptStepInv ==
  ASSUME TranscriptIInv, now > 0, [Next]_vars
  PROVE  TranscriptIInv' /\ now' > 0
<1>1. CASE UNCHANGED vars
  BY <1>1 DEF vars, phaseVars, requestVars, checkpointVars, TranscriptIInv, TypeOK, RowsInv,
              OldTurnsSummarized
<1>2. CASE \/ \E t \in Turns : StartTurn(t)
           \/ Ask \/ Reply \/ SubAgentAsks \/ ToolResult \/ TurnFails \/ Clear \/ Restore
  BY <1>2, LoopLemma, ClockInv DEF TranscriptIInv
<1>3. CASE Record \/ Save \/ Prune \/ Rebuild \/ Crash \/ Tick
  BY <1>3, TapeLemma, ClockInv DEF TranscriptIInv
<1>4. QED
  BY <1>1, <1>2, <1>3 DEF Next

THEOREM TranscriptInvariance == Spec => [](TranscriptIInv /\ now > 0)
<1>1. Init => TranscriptIInv /\ now > 0
  BY TranscriptInitInv
<1>2. TranscriptIInv /\ now > 0 /\ [Next]_vars => (TranscriptIInv /\ now > 0)'
  BY TranscriptStepInv
<1>3. QED
  BY <1>1, <1>2, PTL DEF Spec

\* Every variable keeps its type.
THEOREM TranscriptTypeCorrect == Spec => []TypeOK
<1>1. TranscriptIInv => TypeOK
  BY DEF TranscriptIInv
<1>2. QED
  BY <1>1, TranscriptInvariance, PTL

\* The checkpoint restored is of the millisecond of the latest one, for any counter,
\* any pruning and any crashes.
THEOREM CheckpointIsRecent == Spec => []RestoresRecent
<1>1. ASSUME TranscriptIInv PROVE RestoresRecent
  <2> SUFFICES ASSUME lastSave > 0
               PROVE  /\ rows # {}
                      /\ NewestOf(rows).ts \in lastSave * Wrap .. lastSave * Wrap + Wrap - 1
    BY DEF RestoresRecent
  <2>1. PICK r \in rows : \A q \in rows : q.ts <= r.ts /\ lastSave * Wrap <= r.ts
    BY <1>1 DEF TranscriptIInv, RowsInv
  <2>2. /\ NewestOf(rows) \in rows
        /\ \A q \in rows : q.ts <= NewestOf(rows).ts
    BY <1>1, <2>1, NewestLemma DEF TranscriptIInv
  <2>3. lastSave \in Nat /\ \A q \in rows : q.ts \in Nat
    BY <1>1, Limits DEF TranscriptIInv, TypeOK
  <2>4. lastSave * Wrap \in Nat
    BY <2>3, Multiples
  <2>5. NewestOf(rows).ts < lastSave * Wrap + Wrap
    BY <1>1, <2>2 DEF TranscriptIInv, RowsInv
  <2>6. lastSave * Wrap <= NewestOf(rows).ts
    BY <2>1, <2>2, <2>3, <2>4
  <2>7. QED
    BY <2>1, <2>2, <2>3, <2>4, <2>5, <2>6, Limits
<1>2. QED
  BY <1>1, TranscriptInvariance, PTL

\* A compaction forgets no turn but some of the last few.
THEOREM Summaries == Spec => []OldTurnsSummarized
<1>1. TranscriptIInv => OldTurnsSummarized
  BY DEF TranscriptIInv
<1>2. QED
  BY <1>1, TranscriptInvariance, PTL

\* Neither a checkpoint nor a turn is forgotten, for any window and any number of turns.
THEOREM RemembersAll == Spec => []Remembers
<1>1. RestoresRecent /\ OldTurnsSummarized => Remembers
  BY DEF Remembers
<1>2. QED
  BY <1>1, CheckpointIsRecent, Summaries, PTL

\* A request leaves the transcript bounded, whatever has gone before.
THEOREM Bounded == Spec => TranscriptBounded
<1>1. ASSUME TranscriptIInv, [Next]_vars
      PROVE  [(Ask \/ SubAgentAsks) /\ outcome' # "failed"
                => Len(live') <= Larger(MaxMessages, KeepRecent + 1)]_vars
  BY <1>1, InjectLemma DEF TranscriptIInv, Ask, SubAgentAsks
<1>2. QED
  BY <1>1, TranscriptInvariance, PTL DEF Spec, TranscriptBounded
-----------------------------------------------------------------------------
\* Counting what comes before each numbers a finite set from zero, in its order.
LEMMA Ranking ==
  ASSUME NEW S, IsFiniteSet(S), NEW R \in SUBSET (S \X S),
         \A x \in S : <<x, x>> \notin R,
         \A x, y, z \in S : <<x, y>> \in R /\ <<y, z>> \in R => <<x, z>> \in R,
         \A x, y \in S : x # y => <<x, y>> \in R \/ <<y, x>> \in R,
         NEW rank \in [S -> Int],
         \A x \in S : rank[x] = Cardinality({y \in S : <<y, x>> \in R})
  PROVE  /\ rank \in Bijection(S, 0 .. Cardinality(S) - 1)
         /\ \A x, y \in S : <<x, y>> \in R <=> rank[x] < rank[y]
<1> DEFINE Ahead(x) == {y \in S : <<y, x>> \in R}
           N == Cardinality(S)
<1>1. N \in Nat
  BY FS_CardinalityType
<1>2. ASSUME NEW x \in S
      PROVE  IsFiniteSet(Ahead(x)) /\ rank[x] = Cardinality(Ahead(x)) /\ rank[x] \in 0 .. N - 1
  <2>1. Ahead(x) \in SUBSET (S \ {x})
    OBVIOUS
  <2>2. IsFiniteSet(S \ {x}) /\ Cardinality(S \ {x}) = N - 1
    BY FS_RemoveElement
  <2>3. IsFiniteSet(Ahead(x)) /\ Cardinality(Ahead(x)) <= Cardinality(S \ {x})
    <3> HIDE DEF Ahead, N
    <3> QED
      BY <2>1, <2>2, FS_Subset
  <2>4. Cardinality(Ahead(x)) \in Nat
    BY <2>3, FS_CardinalityType
  <2>5. rank[x] = Cardinality(Ahead(x))
    OBVIOUS
  <2> QED
    BY <1>1, <2>2, <2>3, <2>4, <2>5
<1>3. ASSUME NEW x \in S, NEW y \in S, <<x, y>> \in R PROVE rank[x] < rank[y]
  <2>1. Ahead(x) \in SUBSET Ahead(y) /\ x \in Ahead(y) /\ x \notin Ahead(x)
    BY <1>3
  <2>2. Cardinality(Ahead(x)) <= Cardinality(Ahead(y))
        /\ Cardinality(Ahead(x)) # Cardinality(Ahead(y))
    BY <2>1, <1>2, FS_Subset
  <2> QED
    <3>1. rank[x] \in Int /\ rank[y] \in Int
      OBVIOUS
    <3>2. rank[x] = Cardinality(Ahead(x)) /\ rank[y] = Cardinality(Ahead(y))
      BY <1>2
    <3> HIDE DEF Ahead, N
    <3> QED
      BY <2>2, <3>1, <3>2
<1>4. \A x, y \in S : <<x, y>> \in R <=> rank[x] < rank[y]
  <2>1. \A x \in S : rank[x] \in Int
    OBVIOUS
  <2>2. \A x, y \in S : <<x, y>> \in R => rank[x] < rank[y]
    BY <1>3
  <2>3. ASSUME NEW x \in S, NEW y \in S, rank[x] < rank[y] PROVE <<x, y>> \in R
    <3>1. x # y /\ ~(rank[y] < rank[x])
      BY <2>1, <2>3
    <3> QED
      BY <3>1, <2>2
  <2> QED
    BY <2>2, <2>3
<1>5. rank \in Injection(S, 0 .. N - 1)
  <2>1. rank \in [S -> 0 .. N - 1]
    BY <1>2
  <2>2. \A x, y \in S : rank[x] = rank[y] => x = y
    BY <1>2, <1>4
  <2> HIDE DEF N
  <2> QED
    BY <2>1, <2>2 DEF Injection, IsInjective
<1>6. IsFiniteSet(0 .. N - 1) /\ Cardinality(0 .. N - 1) = N
  <2> HIDE DEF N
  <2>1. 0 \in Int /\ N - 1 \in Int /\ (0 > N - 1 <=> N = 0)
    BY <1>1
  <2> QED
    BY <2>1, <1>1, FS_Interval
<1>7. rank \in Surjection(S, 0 .. N - 1)
  BY <1>5, <1>6, FS_Injection
<1> QED
  BY <1>4, <1>5, <1>7 DEF Bijection

\* Registered hooks have an order, and register keeps it.
LEMMA OrderOfHooks ==
  /\ IsFiniteSet(Found) /\ Found \subseteq Nat
  /\ \A a \in Found \X Nat : Priority[Named[a[1]]] \in Int
<1>1. InConfig \in Seq(DOMAIN Priority) /\ InFolder \in Seq(DOMAIN Priority)
  BY HooksAssumption
<1>2. Named \in Seq(DOMAIN Priority)
  BY <1>1, ConcatProperties DEF Named
<1>3. Len(Named) \in Nat /\ DOMAIN Named = 1 .. Len(Named)
      /\ \A i \in 1 .. Len(Named) : Named[i] \in DOMAIN Priority
  BY <1>2, LenProperties, ElementOfSeq
<1>4. IsFiniteSet(1 .. Len(Named))
  BY <1>3, FS_Interval
<1>5. Found \in SUBSET (1 .. Len(Named))
  BY <1>3 DEF Found
<1>6. IsFiniteSet(Found) /\ Found \subseteq Nat
  <2>1. IsFiniteSet(Found)
    BY <1>4, <1>5, FS_Subset
  <2>2. 1 .. Len(Named) \subseteq Nat
    BY <1>3
  <2> QED
    BY <2>1, <2>2, <1>5
<1>7. \A k \in Found : Priority[Named[k]] \in Int
  BY <1>3, <1>5, HooksAssumption
<1> QED
  BY <1>6, <1>7

\* The order of the implementations is strict and total.
LEMMA EarlierOrder ==
  ASSUME NEW a \in Found \X Nat, NEW b \in Found \X Nat
  PROVE  /\ ~Earlier(a, a)
         /\ a # b => Earlier(a, b) \/ Earlier(b, a)
         /\ \A c \in Found \X Nat : Earlier(a, b) /\ Earlier(b, c) => Earlier(a, c)
<1>1. \A c \in Found \X Nat :
        Priority[Named[c[1]]] \in Int /\ c[1] \in Int /\ c[2] \in Int /\ c = <<c[1], c[2]>>
  <2> TAKE c \in Found \X Nat
  <2>1. Found \subseteq Nat /\ Priority[Named[c[1]]] \in Int
    BY OrderOfHooks
  <2>2. c[1] \in Found /\ c[2] \in Nat /\ c = <<c[1], c[2]>>
    OBVIOUS
  <2>3. \A m \in Nat : m \in Int
    OBVIOUS
  <2>4. c[1] \in Nat /\ c[2] \in Nat
    BY Zenon, <2>1, <2>2
  <2>5. c[1] \in Int /\ c[2] \in Int
    BY Zenon, <2>3, <2>4
  <2> QED
    BY Zenon, <2>1, <2>2, <2>5
<1>2. a # b => a[1] # b[1] \/ a[2] # b[2]
  BY <1>1
<1>3. ~Earlier(a, a)
  BY <1>1 DEF Earlier
<1>4. a # b => Earlier(a, b) \/ Earlier(b, a)
  BY <1>1, <1>2 DEF Earlier
<1>5. ASSUME NEW c \in Found \X Nat, Earlier(a, b), Earlier(b, c) PROVE Earlier(a, c)
  BY <1>1, <1>5 DEF Earlier
<1> QED
  BY <1>3, <1>4, <1>5

\* Sorted lists each implementation of a set once, in the order.
LEMMA SortedLemma ==
  ASSUME NEW S, IsFiniteSet(S), S \subseteq Found \X Nat
  PROVE  /\ Sorted(S) \in Seq(S) /\ Len(Sorted(S)) = Cardinality(S)
         /\ Cardinality(S) \in Nat
         /\ \A i \in 1 .. Len(Sorted(S)) :
              /\ Sorted(S)[i] \in S
              /\ Cardinality({b \in S : Earlier(b, Sorted(S)[i])}) = i - 1
         /\ \A a \in S : \E i \in 1 .. Len(Sorted(S)) : Sorted(S)[i] = a
         /\ \A i, j \in 1 .. Len(Sorted(S)) :
              i < j <=> Earlier(Sorted(S)[i], Sorted(S)[j])
<1> DEFINE R == {p \in S \X S : Earlier(p[1], p[2])}
           rank == [x \in S |-> Cardinality({y \in S : <<y, x>> \in R})]
           s == Sorted(S)
<1>1. Cardinality(S) \in Nat
  BY FS_CardinalityType
<1>2. /\ R \in SUBSET (S \X S)
      /\ \A x, y \in S : <<x, y>> \in R <=> Earlier(x, y)
  OBVIOUS
<1>3. \A x \in S : {y \in S : <<y, x>> \in R} = {y \in S : Earlier(y, x)}
  BY <1>2
<1>4. /\ \A x \in S : <<x, x>> \notin R
      /\ \A x, y \in S : x # y => <<x, y>> \in R \/ <<y, x>> \in R
  BY <1>2, EarlierOrder
<1>5. \A x, y, z \in S : <<x, y>> \in R /\ <<y, z>> \in R => <<x, z>> \in R
  BY <1>2, EarlierOrder
<1>6. ASSUME NEW x \in S PROVE Cardinality({y \in S : <<y, x>> \in R}) \in Int
  <2>1. {y \in S : <<y, x>> \in R} \in SUBSET S
    OBVIOUS
  <2> HIDE DEF R
  <2>2. IsFiniteSet({y \in S : <<y, x>> \in R})
    BY <2>1, FS_Subset
  <2> QED
    BY <2>2, FS_CardinalityType
<1>7. /\ rank \in [S -> Int]
      /\ \A x \in S : rank[x] = Cardinality({y \in S : <<y, x>> \in R})
  BY <1>6
<1>8. \A x \in S : rank[x] = Cardinality({y \in S : Earlier(y, x)})
  BY <1>3, <1>7
<1>9. /\ rank \in Bijection(S, 0 .. Cardinality(S) - 1)
      /\ \A x, y \in S : <<x, y>> \in R <=> rank[x] < rank[y]
  <2> HIDE DEF R, rank
  <2> QED
    BY <1>2, <1>4, <1>5, <1>7, Ranking
<1>10. \A x, y \in S : Earlier(x, y) <=> rank[x] < rank[y]
  BY <1>2, <1>9
<1> HIDE DEF R, rank
<1>11. /\ \A x \in S : rank[x] \in 0 .. Cardinality(S) - 1
       /\ \A n \in 0 .. Cardinality(S) - 1 : \E x \in S : rank[x] = n
       /\ \A x, y \in S : rank[x] = rank[y] => x = y
  BY <1>9 DEF Bijection, Injection, IsInjective, Surjection
<1>12. /\ s = [n \in 1 .. Cardinality(S) |->
                CHOOSE a \in S : Cardinality({b \in S : Earlier(b, a)}) = n - 1]
       /\ s = [n \in 1 .. Cardinality(S) |-> s[n]]
  <2>1. s = [n \in 1 .. Cardinality(S) |->
               CHOOSE a \in S : Cardinality({b \in S : Earlier(b, a)}) = n - 1]
    BY Zenon DEF Sorted
  <2> DEFINE F(n) == CHOOSE a \in S : Cardinality({b \in S : Earlier(b, a)}) = n - 1
  <2>2. s = [n \in 1 .. Cardinality(S) |-> F(n)]
    BY <2>1
  <2> HIDE DEF F, s
  <2>3. s = [n \in 1 .. Cardinality(S) |-> s[n]]
    BY <2>2
  <2> QED
    BY <2>1, <2>3
<1>13. ASSUME NEW n \in 1 .. Cardinality(S)
       PROVE  s[n] \in S /\ rank[s[n]] = n - 1
              /\ Cardinality({b \in S : Earlier(b, s[n])}) = n - 1
  <2>1. s[n] = CHOOSE a \in S : Cardinality({b \in S : Earlier(b, a)}) = n - 1
    BY <1>12
  <2>2. n - 1 \in 0 .. Cardinality(S) - 1
    BY <1>1
  <2>3. \E a \in S : Cardinality({b \in S : Earlier(b, a)}) = n - 1
    BY <2>2, <1>8, <1>11
  <2>4. s[n] \in S /\ Cardinality({b \in S : Earlier(b, s[n])}) = n - 1
    <3> HIDE DEF s
    <3> QED
      BY <2>1, <2>3
  <2> QED
    BY <2>4, <1>8
<1> HIDE DEF s
<1>14. s \in Seq(S) /\ Len(s) = Cardinality(S)
  <2>1. \A n \in 1 .. Cardinality(S) : s[n] \in S
    BY <1>13
  <2>2. s \in [1 .. Cardinality(S) -> S]
    BY <1>12, <2>1
  <2>3. s \in Seq(S)
    BY <1>1, <2>2, SeqDef
  <2>4. Len(s) \in Nat /\ DOMAIN s = 1 .. Len(s)
    BY <2>3, LenProperties
  <2>5. 1 .. Len(s) = 1 .. Cardinality(S)
    BY <2>2, <2>4
  <2>6. Len(s) = Cardinality(S)
    BY <2>5, <2>4, <1>1
  <2> QED
    BY <2>3, <2>6
<1>15. \A a \in S : \E i \in 1 .. Len(s) : s[i] = a
  <2> TAKE a \in S
  <2>1. rank[a] + 1 \in 1 .. Cardinality(S) /\ (rank[a] + 1) - 1 = rank[a]
    BY <1>1, <1>11
  <2>2. rank[s[rank[a] + 1]] = rank[a] /\ s[rank[a] + 1] \in S
    BY <2>1, <1>13
  <2> QED
    BY <2>1, <2>2, <1>11, <1>14
<1>16. \A i, j \in 1 .. Len(s) : i < j <=> Earlier(s[i], s[j])
  <2> TAKE i, j \in 1 .. Len(s)
  <2>1. s[i] \in S /\ s[j] \in S /\ rank[s[i]] = i - 1 /\ rank[s[j]] = j - 1
    BY <1>13, <1>14
  <2>2. i \in Int /\ j \in Int
    BY <1>1, <1>14
  <2> QED
    BY <2>1, <2>2, <1>10
<1> QED
  BY <1>1, <1>13, <1>14, <1>15, <1>16 DEF s

\* With more implementations none comes earlier than before.
LEMMA MovesBack ==
  ASSUME NEW T, IsFiniteSet(T), T \subseteq Found \X Nat, NEW S \in SUBSET T,
         NEW i \in 1 .. Len(Sorted(S)), NEW j \in 1 .. Len(Sorted(T)),
         Sorted(S)[i] = Sorted(T)[j]
  PROVE  i <= j
<1> DEFINE a == Sorted(T)[j]
           inS == {b \in S : Earlier(b, a)}
           inT == {b \in T : Earlier(b, a)}
<1>1. IsFiniteSet(S) /\ S \subseteq Found \X Nat
  BY FS_Subset
<1>2. Cardinality(inS) = i - 1 /\ i \in Int
  <2>1. Len(Sorted(S)) \in Nat /\ Cardinality({b \in S : Earlier(b, Sorted(S)[i])}) = i - 1
    BY <1>1, SortedLemma
  <2> QED
    BY <2>1
<1>3. Cardinality(inT) = j - 1 /\ j \in Int
  <2>1. Len(Sorted(T)) \in Nat /\ Cardinality({b \in T : Earlier(b, Sorted(T)[j])}) = j - 1
    BY SortedLemma
  <2> QED
    BY <2>1
<1>4. inS \in SUBSET inT /\ inT \in SUBSET T
  OBVIOUS
<1> HIDE DEF inS, inT, a
<1>5. IsFiniteSet(inT)
  BY <1>4, FS_Subset
<1>6. Cardinality(inS) <= Cardinality(inT)
  BY <1>4, <1>5, FS_Subset
<1> QED
  BY <1>2, <1>3, <1>6

\* The implementations are those of the loads so far, in the order of register.
ArrayInv ==
  /\ loads \in 0 .. MaxLoads
  /\ Range(impls) \subseteq Found \X (1 .. loads)
  /\ impls = Sorted(Range(impls))

\* What was there at the start is still there, in its order.  A walk has called what it has
\* passed, and never one of those before an earlier one.
WalkInv ==
  LET there == Range(exec.before)
      called == exec.ran
  IN  /\ there \subseteq Range(impls)
      /\ exec.before = Sorted(there)
      /\ exec.pos <= Len(impls)
      /\ exec.before = <<>> => exec.pos = 0
      /\ exec.mode \in {"first_result", "chain"} =>
           \A i \in 1 .. exec.pos : impls[i] \in there => impls[i] \in Range(called)
      /\ \A j \in DOMAIN called : \A b \in there :
           Earlier(b, called[j]) => \E i \in 1 .. j - 1 : called[i] = b

\* How an execution ends.
EndInv ==
  /\ exec.mode = "none" => exec.end = "none"
  /\ exec.end = "threw" => ~isolate
  /\ exec.end # "none" /\ isolate =>
       (exec.mode = "first_result" /\ exec.end = "value")
         \/ Range(exec.before) \subseteq Range(exec.ran)

HooksIInv == HooksTypeOK /\ ArrayInv /\ WalkInv /\ EndInv
-----------------------------------------------------------------------------

\* What ArrayInv says of the implementations.
LEMMA ArrayLemma ==
  ASSUME HooksIInv
  PROVE  /\ MaxLoads \in Nat /\ loads \in Nat /\ Len(impls) \in Nat /\ impls \in Seq(Range(impls))
         /\ DOMAIN impls = 1 .. Len(impls)
         /\ IsFiniteSet(Range(impls)) /\ Range(impls) \subseteq Found \X Nat
         /\ Range(exec.before) \in SUBSET Range(impls)
         /\ IsFiniteSet(Range(exec.before))
<1>1. MaxLoads \in Nat /\ loads \in Nat
  BY HooksAssumption DEF HooksIInv, ArrayInv
<1>2. impls \in Seq(Implementations)
  BY DEF HooksIInv, HooksTypeOK
<1>3. Len(impls) \in Nat /\ DOMAIN impls = 1 .. Len(impls)
  BY <1>2, LenProperties
<1>4. impls \in Seq(Range(impls))
  <2>1. impls \in [1 .. Len(impls) -> Range(impls)]
    BY <1>2, <1>3, LenProperties DEF Range
  <2> QED
    BY <1>3, <2>1, SeqDef
<1>5. IsFiniteSet(1 .. loads)
  BY <1>1, FS_Interval
<1>6. IsFiniteSet(Found \X (1 .. loads))
  BY <1>5, OrderOfHooks, FS_Product
<1>7. Range(impls) \in SUBSET (Found \X (1 .. loads))
  BY DEF HooksIInv, ArrayInv
<1>8. IsFiniteSet(Range(impls))
  BY <1>6, <1>7, FS_Subset
<1>9. Range(impls) \subseteq Found \X Nat
  BY <1>1, <1>7
<1>10. Range(exec.before) \in SUBSET Range(impls)
  BY DEF HooksIInv, WalkInv
<1>11. IsFiniteSet(Range(exec.before))
  BY <1>8, <1>10, FS_Subset
<1> QED
  BY <1>1, <1>3, <1>4, <1>8, <1>9, <1>10, <1>11

\* Initially.
LEMMA HooksInitInv == ASSUME HooksInit PROVE HooksIInv
<1>1. /\ impls = <<>> /\ loads = 0 /\ runs = 0 /\ isolate \in BOOLEAN
      /\ exec.mode = "none" /\ exec.pos = 0 /\ exec.before = <<>> /\ exec.ran = <<>>
      /\ exec.end = "none"
  BY DEF HooksInit, NoExec
<1>2. <<>> \in Seq(Implementations) /\ DOMAIN <<>> = {} /\ Len(<<>>) = 0
  BY EmptySeq
<1>3. Range(<<>>) = {}
  BY <1>2 DEF Range
<1>4. Sorted({}) = <<>>
  <2>1. Sorted({}) \in Seq({}) /\ Len(Sorted({})) = 0
    BY FS_EmptySet, SortedLemma
  <2> QED
    BY <2>1, EmptySeq
<1>5. HooksTypeOK
  <2>1. impls \in Seq(Implementations) /\ 0 \in 0 .. MaxLoads /\ 0 \in 0 .. MaxRuns
    BY <1>1, <1>2, HooksAssumption
  <2>2. exec = [mode |-> "none", pos |-> 0, before |-> <<>>, ran |-> <<>>, end |-> "none"]
    BY DEF HooksInit, NoExec
  <2> QED
    BY <2>1, <2>2, <1>1, <1>2 DEF HooksTypeOK
<1>6. ArrayInv
  <2>1. Range(impls) = {}
    BY <1>1, <1>3
  <2>2. 0 \in 0 .. MaxLoads
    BY HooksAssumption
  <2> QED
    BY <1>1, <1>4, <2>1, <2>2 DEF ArrayInv
<1>7. WalkInv
  BY <1>1, <1>2, <1>3, <1>4 DEF WalkInv
<1>8. EndInv
  BY <1>1 DEF EndInv
<1> QED
  BY <1>5, <1>6, <1>7, <1>8 DEF HooksIInv

\* Plugins that load while an execution waits move the implementations back, and what the
\* walk has passed it has called.
LEMMA LoadPluginsInv ==
  ASSUME HooksIInv, NEW good \in SUBSET Found, LoadPlugins(good)
  PROVE  HooksIInv'
<1> DEFINE T == Range(impls) \cup (good \X {loads + 1})
<1>0. /\ loads < MaxLoads /\ loads' = loads + 1 /\ impls' = Sorted(T)
      /\ isolate' = isolate /\ exec' = exec /\ runs' = runs
  BY DEF LoadPlugins
<1>1. loads + 1 \in 1 .. MaxLoads /\ loads + 1 \in Nat
  BY <1>0, ArrayLemma
<1>2. T \subseteq Found \X (1 .. loads')
  <2>1. \A p \in Found \X (1 .. loads) : p \in Found \X (1 .. loads + 1)
    BY ArrayLemma
  <2>2. \A p \in good \X {loads + 1} : p \in Found \X (1 .. loads + 1)
    BY <1>1
  <2> QED
    BY <2>1, <2>2, <1>0 DEF HooksIInv, ArrayInv
<1>3. T \subseteq Found \X Nat
  BY <1>0, <1>1, <1>2
<1>4. IsFiniteSet(T)
  <2>1. IsFiniteSet(good)
    BY OrderOfHooks, FS_Subset
  <2>2. IsFiniteSet(good \X {loads + 1})
    BY <2>1, FS_Singleton, FS_Product
  <2> QED
    BY <2>2, ArrayLemma, FS_Union
<1> HIDE DEF T
<1>5. /\ impls' \in Seq(T) /\ Len(impls') = Cardinality(T) /\ Len(impls') \in Nat
      /\ \A i \in 1 .. Len(impls') : impls'[i] \in T
      /\ \A a \in T : \E i \in 1 .. Len(impls') : impls'[i] = a
      /\ DOMAIN impls' = 1 .. Len(impls')
  <2>1. /\ impls' \in Seq(T) /\ Len(impls') = Cardinality(T) /\ Len(impls') \in Nat
        /\ \A i \in 1 .. Len(impls') : impls'[i] \in T
        /\ \A a \in T : \E i \in 1 .. Len(impls') : impls'[i] = a
    BY <1>0, <1>3, <1>4, SortedLemma
  <2> QED
    BY <2>1, LenProperties
<1>6. Range(impls') = T
  BY <1>5 DEF Range
<1>7. HooksTypeOK'
  <2>1. T \subseteq Implementations
    BY <1>0, <1>1, <1>2, ArrayLemma DEF Implementations
  <2>2. Implementations' = Implementations
    OBVIOUS
  <2>3. impls' \in Seq(Implementations)
    BY <2>1, <1>5
  <2> QED
    BY <2>2, <2>3, <1>0, <1>1, ArrayLemma DEF HooksIInv, HooksTypeOK
<1>8. ArrayInv'
  BY <1>0, <1>1, <1>2, <1>6, ArrayLemma DEF ArrayInv
<1>9. Range(impls) \subseteq T
  BY DEF T
<1>10. Cardinality(Range(impls)) <= Cardinality(T) /\ Len(impls) = Cardinality(Range(impls))
  <2>1. Cardinality(Range(impls)) <= Cardinality(T)
    BY <1>4, <1>9, FS_Subset
  <2>2. Len(Sorted(Range(impls))) = Cardinality(Range(impls))
    BY ArrayLemma, SortedLemma
  <2> QED
    BY <2>1, <2>2 DEF HooksIInv, ArrayInv
<1>11. ASSUME NEW i \in 1 .. exec.pos, impls'[i] \in Range(exec.before),
              exec.mode \in {"first_result", "chain"}
       PROVE  impls'[i] \in Range(exec.ran)
  <2>1. exec.pos \in Nat /\ exec.pos <= Len(impls)
    BY DEF HooksIInv, HooksTypeOK, WalkInv
  <2>2. i \in 1 .. Len(impls')
    BY <2>1, <1>5, <1>10, ArrayLemma
  <2>3. impls'[i] \in Range(impls)
    BY <1>11, ArrayLemma
  <2>4. PICK m \in 1 .. Len(impls) : impls[m] = impls'[i]
    BY <2>3, ArrayLemma DEF Range
  <2>5. m <= i
    <3>1. impls = Sorted(Range(impls)) /\ Range(impls) \in SUBSET T
      BY <1>9 DEF HooksIInv, ArrayInv
    <3>2. m \in 1 .. Len(Sorted(Range(impls))) /\ i \in 1 .. Len(Sorted(T))
          /\ Sorted(Range(impls))[m] = Sorted(T)[i]
      BY <3>1, <2>2, <2>4, <1>0
    <3> QED
      BY <3>1, <3>2, <1>3, <1>4, MovesBack
  <2>6. m \in 1 .. exec.pos
    BY <2>1, <2>5, ArrayLemma
  <2> QED
    BY <2>4, <2>6, <1>11 DEF HooksIInv, WalkInv
<1>12. WalkInv'
  <2>1. exec.pos <= Len(impls')
    <3>1. exec.pos \in Nat /\ exec.pos <= Len(impls)
      BY DEF HooksIInv, HooksTypeOK, WalkInv
    <3> QED
      BY <3>1, <1>5, <1>10, ArrayLemma
  <2>2. Range(exec.before) \subseteq Range(impls')
    BY <1>6, <1>9, ArrayLemma
  <2> QED
    BY <2>1, <2>2, <1>0, <1>11 DEF HooksIInv, WalkInv
<1>13. EndInv'
  BY <1>0 DEF HooksIInv, EndInv
<1> QED
  BY <1>7, <1>8, <1>12, <1>13 DEF HooksIInv

\* An execution begins with the implementations there are.
LEMMA ExecuteInv ==
  ASSUME HooksIInv, NEW mode \in Modes, Execute(mode)
  PROVE  HooksIInv'
<1>1. /\ exec' = [NoExec EXCEPT !.mode = mode, !.before = impls]
      /\ runs < MaxRuns /\ runs' = runs + 1
      /\ impls' = impls /\ loads' = loads /\ isolate' = isolate
  BY DEF Execute
<1>2. /\ exec'.mode = mode /\ exec'.pos = 0 /\ exec'.before = impls /\ exec'.ran = <<>>
      /\ exec'.end = "none"
  BY <1>1 DEF NoExec
<1>3. <<>> \in Seq(Implementations) /\ DOMAIN <<>> = {}
  BY EmptySeq
<1>4. Implementations' = Implementations
  OBVIOUS
<1>5. HooksTypeOK'
  <2>1. runs + 1 \in 0 .. MaxRuns
    BY <1>1, HooksAssumption DEF HooksIInv, HooksTypeOK
  <2>2. exec' = [mode |-> mode, pos |-> 0, before |-> impls, ran |-> <<>>, end |-> "none"]
    BY <1>1 DEF NoExec
  <2>3. <<>> \in Seq(Implementations) /\ impls \in Seq(Implementations)
    BY <1>3 DEF HooksIInv, HooksTypeOK
  <2> QED
    BY <2>1, <2>2, <2>3, <1>1, <1>4 DEF HooksIInv, HooksTypeOK
<1>6. ArrayInv'
  BY <1>1 DEF HooksIInv, ArrayInv
<1>7. WalkInv'
  BY <1>1, <1>2, <1>3, ArrayLemma DEF HooksIInv, ArrayInv, WalkInv
<1>8. EndInv'
  BY <1>2 DEF Modes, EndInv
<1> QED
  BY <1>5, <1>6, <1>7, <1>8 DEF HooksIInv

\* The step of a walk calls the implementation at its position.
LEMMA CallNextInv ==
  ASSUME HooksIInv, NEW how \in {"value", "null", "throws"}, CallNext(how)
  PROVE  HooksIInv'
<1> DEFINE n == exec.pos + 1
           a == impls[n]
           called == exec.ran
<1>1. /\ exec.mode \in {"first_result", "chain"} /\ exec.end = "none"
      /\ exec.pos < Len(Walked)
      /\ exec' = [exec EXCEPT
           !.pos = n, !.ran = Append(called, a),
           !.end = IF Propagates(how) THEN "threw"
                   ELSE IF how = "value" /\ exec.mode = "first_result" THEN "value"
                   ELSE "none"]
      /\ impls' = impls /\ loads' = loads /\ isolate' = isolate /\ runs' = runs
  BY DEF CallNext
<1>2. exec.pos \in Nat /\ called \in Seq(Implementations)
  BY DEF HooksIInv, HooksTypeOK
<1>3. exec.before # <<>> /\ exec.pos < Len(impls)
  BY <1>1, <1>2, EmptySeq DEF Walked
<1>4. n \in 1 .. Len(impls) /\ n \in Nat /\ a \in Range(impls) /\ a \in Implementations
  <2>1. n \in 1 .. Len(impls)
    BY <1>2, <1>3, ArrayLemma
  <2>2. a \in Range(impls)
    BY <2>1, ArrayLemma DEF Range
  <2>3. impls \in Seq(Implementations)
    BY DEF HooksIInv, HooksTypeOK
  <2>4. a \in Implementations
    BY <2>1, <2>3, ElementOfSeq
  <2> QED
    BY <2>1, <2>2, <2>4, <1>2
<1>5. /\ exec'.mode = exec.mode /\ exec'.pos = n /\ exec'.before = exec.before
      /\ exec'.ran = Append(called, a)
      /\ exec'.end = IF Propagates(how) THEN "threw"
                     ELSE IF how = "value" /\ exec.mode = "first_result" THEN "value"
                     ELSE "none"
  <2>1. {"mode", "pos", "before", "ran", "end"} \subseteq DOMAIN exec
    BY DEF HooksIInv, HooksTypeOK
  <2> QED
    BY <2>1, <1>1
<1> HIDE DEF a, n
<1>6. /\ Append(called, a) \in Seq(Implementations)
      /\ Len(called) \in Nat /\ DOMAIN called = 1 .. Len(called)
      /\ DOMAIN Append(called, a) = 1 .. Len(called) + 1
      /\ \A j \in 1 .. Len(called) : Append(called, a)[j] = called[j]
      /\ Append(called, a)[Len(called) + 1] = a
  BY <1>2, <1>4, AppendProperties, LenProperties
<1>7. Implementations' = Implementations
  OBVIOUS
<1>8. HooksTypeOK'
  BY <1>1, <1>4, <1>5, <1>6, <1>7 DEF HooksIInv, HooksTypeOK
<1>9. ArrayInv'
  BY <1>1 DEF HooksIInv, ArrayInv
<1>10. Range(called) \subseteq Range(Append(called, a)) /\ a \in Range(Append(called, a))
  BY <1>6 DEF Range
<1>11. \A i \in 1 .. n : impls[i] \in Range(exec.before) =>
         impls[i] \in Range(Append(called, a))
  <2> TAKE i \in 1 .. n
  <2>1. i \in 1 .. exec.pos \/ i = n
    BY <1>2 DEF n
  <2>2. CASE i = n
    BY <2>2, <1>10 DEF a
  <2>3. CASE i \in 1 .. exec.pos
    BY <2>3, <1>1, <1>10 DEF HooksIInv, WalkInv
  <2> QED
    BY <2>1, <2>2, <2>3
<1>12. ASSUME NEW b \in Range(exec.before), Earlier(b, a)
       PROVE  \E i \in 1 .. Len(called) : called[i] = b
  <2>1. impls = Sorted(Range(impls))
    BY DEF HooksIInv, ArrayInv
  <2>2. b \in Range(impls)
    BY ArrayLemma
  <2>3. PICK m \in 1 .. Len(impls) : impls[m] = b
    BY <2>2, ArrayLemma DEF Range
  <2>4. m < n
    <3>1. \A i, j \in 1 .. Len(impls) : i < j <=> Earlier(impls[i], impls[j])
      BY <2>1, ArrayLemma, SortedLemma
    <3> QED
      BY <3>1, <2>3, <1>4, <1>12 DEF a
  <2>5. m \in 1 .. exec.pos
    BY <2>4, <1>2, ArrayLemma DEF n
  <2>6. b \in Range(called)
    BY <2>3, <2>5, <1>1 DEF HooksIInv, WalkInv
  <2> QED
    BY <2>6, <1>6 DEF Range
<1>13. \A j \in DOMAIN Append(called, a) : \A b \in Range(exec.before) :
         Earlier(b, Append(called, a)[j]) => \E i \in 1 .. j - 1 : Append(called, a)[i] = b
  <2> TAKE j \in DOMAIN Append(called, a)
  <2> TAKE b \in Range(exec.before)
  <2> HAVE Earlier(b, Append(called, a)[j])
  <2>1. j \in 1 .. Len(called) \/ j = Len(called) + 1
    BY <1>6
  <2>2. CASE j = Len(called) + 1
    <3>1. PICK i \in 1 .. Len(called) : called[i] = b
      BY <2>2, <1>6, <1>12
    <3>2. i \in 1 .. j - 1 /\ Append(called, a)[i] = b
      BY <3>1, <2>2, <1>6
    <3> QED
      BY <3>2
  <2>3. CASE j \in 1 .. Len(called)
    <3>1. Earlier(b, called[j]) /\ j \in DOMAIN called
      BY <2>3, <1>6
    <3>2. PICK i \in 1 .. j - 1 : called[i] = b
      BY <3>1 DEF HooksIInv, WalkInv
    <3>3. i \in 1 .. Len(called)
      BY <2>3, <1>6
    <3> QED
      BY <3>2, <3>3, <1>6
  <2> QED
    BY <2>1, <2>2, <2>3
<1>14. WalkInv'
  <2>1. n <= Len(impls)
    BY <1>4, ArrayLemma
  <2> QED
    BY <2>1, <1>1, <1>3, <1>5, <1>11, <1>13 DEF HooksIInv, WalkInv
<1>15. EndInv'
  <2>1. exec'.end \in {"threw", "value", "none"} /\ exec'.mode # "none"
    BY <1>1, <1>5
  <2>2. exec'.end = "threw" => ~isolate'
    BY <1>1, <1>5 DEF Propagates
  <2>3. exec'.end = "value" => exec'.mode = "first_result"
    BY <1>5
  <2> QED
    BY <2>1, <2>2, <2>3 DEF EndInv
<1> QED
  BY <1>8, <1>9, <1>14, <1>15 DEF HooksIInv

\* A walk that is over has called all there were.
LEMMA WalkEndsInv == ASSUME HooksIInv, WalkEnds PROVE HooksIInv'
<1>1. /\ exec.mode \in {"first_result", "chain"} /\ exec.end = "none"
      /\ exec.pos >= Len(Walked)
      /\ exec' = [exec EXCEPT !.end = IF exec.mode = "chain" THEN "value" ELSE "nothing"]
      /\ impls' = impls /\ loads' = loads /\ isolate' = isolate /\ runs' = runs
  BY DEF WalkEnds
<1>2. /\ exec'.mode = exec.mode /\ exec'.pos = exec.pos /\ exec'.before = exec.before
      /\ exec'.ran = exec.ran
      /\ exec'.end = IF exec.mode = "chain" THEN "value" ELSE "nothing"
  <2>1. {"mode", "pos", "before", "ran", "end"} \subseteq DOMAIN exec
    BY DEF HooksIInv, HooksTypeOK
  <2> QED
    BY <2>1, <1>1
<1>3. HooksTypeOK'
  <2>1. Implementations' = Implementations
    OBVIOUS
  <2> QED
    BY <2>1, <1>1, <1>2 DEF HooksIInv, HooksTypeOK
<1>4. ArrayInv' /\ WalkInv'
  BY <1>1, <1>2 DEF HooksIInv, ArrayInv, WalkInv
<1>5. Range(exec.before) \subseteq Range(exec.ran)
  <2>1. CASE exec.before = <<>>
    <3>1. Range(<<>>) = {}
      BY EmptySeq DEF Range
    <3> QED
      BY <2>1, <3>1
  <2>2. CASE exec.before # <<>>
    <3>1. exec.pos \in Nat /\ exec.pos <= Len(impls) /\ exec.pos >= Len(impls)
      BY <2>2, <1>1 DEF Walked, HooksIInv, HooksTypeOK, WalkInv
    <3>2. exec.pos = Len(impls)
      BY <3>1, ArrayLemma
    <3>3. \A i \in 1 .. Len(impls) :
            impls[i] \in Range(exec.before) => impls[i] \in Range(exec.ran)
      BY <3>2, <1>1 DEF HooksIInv, WalkInv
    <3>4. \A b \in Range(exec.before) : \E i \in 1 .. Len(impls) : impls[i] = b
      BY ArrayLemma DEF Range
    <3> QED
      BY <3>3, <3>4
  <2> QED
    BY <2>1, <2>2
<1>6. EndInv'
  <2>1. exec'.end \in {"value", "nothing"} /\ exec'.mode # "none"
    BY <1>1, <1>2
  <2> QED
    BY <2>1, <1>2, <1>5 DEF EndInv
<1> QED
  BY <1>3, <1>4, <1>6 DEF HooksIInv

\* A broadcast calls all there were.
LEMMA CallAllInv ==
  ASSUME HooksIInv, NEW failing \in BOOLEAN, CallAll(failing)
  PROVE  HooksIInv'
<1> DEFINE before == exec.before
<1>1. /\ exec.mode = "broadcast"
      /\ exec' = [exec EXCEPT
           !.ran = before,
           !.end = IF failing /\ Propagates("throws") THEN "threw" ELSE "value"]
      /\ impls' = impls /\ loads' = loads /\ isolate' = isolate /\ runs' = runs
  BY DEF CallAll
<1>2. /\ exec'.mode = "broadcast" /\ exec'.pos = exec.pos /\ exec'.before = before
      /\ exec'.ran = before
      /\ exec'.end = IF failing /\ Propagates("throws") THEN "threw" ELSE "value"
  <2>1. {"mode", "pos", "before", "ran", "end"} \subseteq DOMAIN exec
    BY DEF HooksIInv, HooksTypeOK
  <2> QED
    BY <2>1, <1>1
<1>3. HooksTypeOK'
  <2>1. Implementations' = Implementations
    OBVIOUS
  <2> QED
    BY <2>1, <1>1, <1>2 DEF HooksIInv, HooksTypeOK, Modes
<1>4. ArrayInv'
  BY <1>1 DEF HooksIInv, ArrayInv
<1>5. \A j \in DOMAIN before : \A b \in Range(before) :
        Earlier(b, before[j]) => \E i \in 1 .. j - 1 : before[i] = b
  <2>1. before = Sorted(Range(before))
    BY DEF HooksIInv, WalkInv
  <2>2. Range(before) \subseteq Found \X Nat
    BY ArrayLemma
  <2>3. /\ Len(before) \in Nat /\ DOMAIN before = 1 .. Len(before)
        /\ \A a \in Range(before) : \E m \in 1 .. Len(before) : before[m] = a
        /\ \A p, q \in 1 .. Len(before) : p < q <=> Earlier(before[p], before[q])
    <3>1. before \in Seq(Range(before)) /\ Len(before) \in Nat
          /\ \A a \in Range(before) : \E m \in 1 .. Len(before) : before[m] = a
          /\ \A p, q \in 1 .. Len(before) : p < q <=> Earlier(before[p], before[q])
      <4>1. IsFiniteSet(Range(before))
        BY ArrayLemma
      <4> HIDE DEF before
      <4> QED
        BY <4>1, <2>1, <2>2, SortedLemma
    <3> QED
      BY <3>1, LenProperties
  <2> TAKE j \in DOMAIN before
  <2> TAKE b \in Range(before)
  <2> HAVE Earlier(b, before[j])
  <2>4. PICK m \in 1 .. Len(before) : before[m] = b
    BY <2>3
  <2>5. m < j
    BY <2>3, <2>4
  <2> QED
    BY <2>3, <2>4, <2>5
<1>6. WalkInv'
  BY <1>1, <1>2, <1>5 DEF HooksIInv, WalkInv
<1>7. EndInv'
  BY <1>1, <1>2 DEF EndInv, Propagates
<1> QED
  BY <1>3, <1>4, <1>6, <1>7 DEF HooksIInv

\* The execution is over.
LEMMA ReturnInv == ASSUME HooksIInv, Return PROVE HooksIInv'
<1>1. /\ exec' = NoExec
      /\ impls' = impls /\ loads' = loads /\ isolate' = isolate /\ runs' = runs
  BY DEF Return
<1>2. /\ exec'.mode = "none" /\ exec'.pos = 0 /\ exec'.before = <<>> /\ exec'.ran = <<>>
      /\ exec'.end = "none"
  BY <1>1 DEF NoExec
<1>3. <<>> \in Seq(Implementations) /\ DOMAIN <<>> = {}
  BY EmptySeq
<1>4. Range(<<>>) = {}
  BY <1>3 DEF Range
<1>5. Sorted({}) = <<>>
  <2>1. Sorted({}) \in Seq({}) /\ Len(Sorted({})) = 0
    BY FS_EmptySet, SortedLemma
  <2> QED
    BY <2>1, EmptySeq
<1>6. HooksTypeOK'
  <2>1. Implementations' = Implementations
    OBVIOUS
  <2> QED
    BY <2>1, <1>1, <1>3 DEF NoExec, HooksIInv, HooksTypeOK
<1>7. ArrayInv'
  BY <1>1 DEF HooksIInv, ArrayInv
<1>8. WalkInv'
  <2>1. exec'.before = Sorted(Range(exec'.before)) /\ Range(exec'.before) = {}
    BY <1>2, <1>4, <1>5
  <2>2. 0 <= Len(impls)
    BY ArrayLemma
  <2> QED
    BY <2>1, <2>2, <1>1, <1>2, <1>3 DEF WalkInv
<1>9. EndInv'
  BY <1>2 DEF EndInv
<1> QED
  BY <1>6, <1>7, <1>8, <1>9 DEF HooksIInv

LEMMA HooksStep == ASSUME HooksIInv, [HooksNext]_hookVars PROVE HooksIInv'
<1>1. CASE UNCHANGED hookVars
  BY <1>1 DEF hookVars, HooksIInv, HooksTypeOK, ArrayInv, WalkInv, EndInv, Implementations
<1>2. CASE HooksNext
  BY <1>2, LoadPluginsInv, ExecuteInv, CallNextInv, WalkEndsInv, CallAllInv, ReturnInv
     DEF HooksNext
<1> QED
  BY <1>1, <1>2

\* With the order of register, whoever was there before another is called before it.
LEMMA NoneSkipped == ASSUME HooksIInv PROVE NoHookSkipped
<1> DEFINE before == exec.before
<1>1. ASSUME NEW k \in DOMAIN before, NEW l \in DOMAIN before, k < l
      PROVE  Earlier(before[k], before[l]) /\ before[k] \in Range(before)
  <2>1. before = Sorted(Range(before))
    BY DEF HooksIInv, WalkInv
  <2>2. IsFiniteSet(Range(before)) /\ Range(before) \subseteq Found \X Nat
    BY ArrayLemma
  <2>3. before \in Seq(Range(before))
        /\ \A i, j \in 1 .. Len(before) : i < j <=> Earlier(before[i], before[j])
    <3> HIDE DEF before
    <3> QED
      BY <2>1, <2>2, SortedLemma
  <2>4. DOMAIN before = 1 .. Len(before)
    BY <2>3, LenProperties
  <2> QED
    BY <2>3, <2>4, <1>1 DEF Range
<1>2. ASSUME NEW k \in DOMAIN before, NEW l \in DOMAIN before, k < l,
             NEW j \in DOMAIN exec.ran, exec.ran[j] = before[l]
      PROVE  \E i \in 1 .. j - 1 : exec.ran[i] = before[k]
  <2>1. Earlier(before[k], exec.ran[j]) /\ before[k] \in Range(before)
    BY <1>1, <1>2
  <2> QED
    BY <2>1 DEF HooksIInv, WalkInv
<1> QED
  BY <1>2 DEF NoHookSkipped, HooksIInv, EndInv

\* With isolated errors an execution leaves none of the hooks out that were there when it
\* began, whatever fails and whatever is loaded meanwhile.
THEOREM NoHookIsSkipped == HooksSpec => []HooksInv
<1>1. HooksIInv => HooksInv
  BY NoneSkipped DEF HooksInv, HooksIInv
<1>2. QED
  BY <1>1, HooksInitInv, HooksStep, PTL DEF HooksSpec
-----------------------------------------------------------------------------
\* Quotients compare like their products crossed over: a / u >= b / v >= c / w.
Descends(a, u, b, v, c, w) ==
  u > 0 /\ v > 0 /\ w > 0 /\ a * v >= b * u /\ b * w >= c * v =>
    /\ a * w >= c * u
    /\ a * w = c * u => a * v = b * u /\ b * w = c * v

LEMMA Crossed == \A a, u, b, v, c, w \in Nat : Descends(a, u, b, v, c, w)
<1> SUFFICES ASSUME NEW a \in Nat, NEW b \in Nat, NEW c \in Nat,
                    NEW u \in Nat, NEW v \in Nat, NEW w \in Nat, u > 0, v > 0, w > 0,
                    a * v >= b * u, b * w >= c * v
             PROVE  /\ a * w >= c * u
                    /\ a * w = c * u => a * v = b * u /\ b * w = c * v
  BY DEF Descends
<1>1. \A x, y, z \in Nat : x >= y => z * x >= z * y
  OBVIOUS
<1>2. \A x, y, z \in Nat : x > y /\ z > 0 => z * x > z * y
  OBVIOUS
<1>3. /\ a * v \in Nat /\ b * u \in Nat /\ b * w \in Nat /\ c * v \in Nat
      /\ a * w \in Nat /\ c * u \in Nat
  OBVIOUS
<1>4. w * (a * v) = v * (a * w) /\ w * (b * u) = u * (b * w) /\ u * (c * v) = v * (c * u)
  OBVIOUS
<1>5. w * (a * v) >= w * (b * u) /\ u * (b * w) >= u * (c * v)
  BY <1>1, <1>3
<1>6. v * (a * w) >= v * (c * u)
  <2>1. w * (a * v) \in Nat /\ w * (b * u) \in Nat /\ u * (c * v) \in Nat
    BY <1>3
  <2> QED
    BY <1>4, <1>5, <2>1
<1>7. a * w >= c * u
  BY <1>2, <1>3, <1>6
<1>8. ASSUME a * w = c * u PROVE a * v = b * u /\ b * w = c * v
  <2>1. w * (a * v) \in Nat /\ w * (b * u) \in Nat /\ u * (c * v) \in Nat
    BY <1>3
  <2>2. w * (a * v) = w * (b * u) /\ u * (b * w) = u * (c * v)
    BY <1>4, <1>5, <1>8, <2>1
  <2>3. ~(a * v > b * u) /\ ~(b * w > c * v)
    BY <1>2, <1>3, <2>2
  <2> QED
    BY <2>3, <1>3
<1> QED
  BY <1>7, <1>8

LEMMA ListLemma ==
  ASSUME NEW S, NEW m \in Nat, NEW t \in [1 .. m -> S]
  PROVE  t \in Seq(S)
BY SeqDef

\* sort and slice: what is left out comes after all that is kept, which fill the slice.
LEMMA FirstOfLemma ==
  ASSUME NEW S, IsFiniteSet(S), NEW R \in SUBSET (S \X S),
         \A x \in S : <<x, x>> \notin R,
         \A x, y, z \in S : <<x, y>> \in R /\ <<y, z>> \in R => <<x, z>> \in R,
         \A x, y \in S : x # y => <<x, y>> \in R \/ <<y, x>> \in R,
         NEW before \in [S -> Int],
         \A x \in S : before[x] = Cardinality({y \in S : <<y, x>> \in R}),
         NEW n \in Nat
  PROVE  /\ FirstOf(before, n) \in Seq(S)
         /\ Len(FirstOf(before, n)) <= n
         /\ \A i, j \in 1 .. Len(FirstOf(before, n)) :
              FirstOf(before, n)[i] = FirstOf(before, n)[j] => i = j
         /\ \A x \in S : x \notin Range(FirstOf(before, n)) =>
              /\ Len(FirstOf(before, n)) = n
              /\ \A y \in Range(FirstOf(before, n)) : <<y, x>> \in R
<1> DEFINE all == Cardinality(DOMAIN before)
           top == IF all < n THEN all ELSE n
           f == FirstOf(before, n)
<1>0. DOMAIN before = S /\ all = Cardinality(S)
  OBVIOUS
<1>1. all \in Nat /\ top \in Nat /\ top <= n /\ top <= all /\ (top = all \/ top = n)
  <2>1. all \in Nat
    BY <1>0, FS_CardinalityType
  <2> HIDE DEF all
  <2> QED
    BY <2>1
<1>2. /\ before \in Bijection(S, 0 .. all - 1)
      /\ \A x, y \in S : <<x, y>> \in R <=> before[x] < before[y]
  <2>1. /\ before \in Bijection(S, 0 .. Cardinality(S) - 1)
        /\ \A x, y \in S : <<x, y>> \in R <=> before[x] < before[y]
    BY Ranking
  <2> QED
    BY <2>1, <1>0
<1>3. /\ \A x \in S : before[x] \in 0 .. all - 1
      /\ \A k \in 0 .. all - 1 : \E x \in S : before[x] = k
      /\ \A x, y \in S : before[x] = before[y] => x = y
  BY <1>2 DEF Bijection, Injection, IsInjective, Surjection
<1> HIDE DEF all
<1>4. f = [i \in 1 .. top |-> CHOOSE x \in DOMAIN before : before[x] = i - 1]
  BY Zenon DEF FirstOf, all
<1> HIDE DEF f, top
<1>5. ASSUME NEW i \in 1 .. top PROVE f[i] \in S /\ before[f[i]] = i - 1
  <2>1. i - 1 \in 0 .. all - 1
    BY <1>1
  <2>2. PICK x \in S : before[x] = i - 1
    BY <2>1, <1>3
  <2>3. f[i] = CHOOSE y \in DOMAIN before : before[y] = i - 1
    BY <1>4
  <2> QED
    BY <2>2, <2>3, <1>0
<1>6. f \in [1 .. top -> S]
  <2>1. f = [i \in 1 .. top |-> f[i]]
    BY <1>4
  <2> QED
    BY <2>1, <1>5
<1>7. f \in Seq(S) /\ Len(f) = top /\ DOMAIN f = 1 .. top
  <2>1. f \in Seq(S)
    BY <1>1, <1>6, SeqDef
  <2>2. Len(f) \in Nat /\ DOMAIN f = 1 .. Len(f) /\ DOMAIN f = 1 .. top
    BY <2>1, <1>6, LenProperties
  <2>3. 1 .. Len(f) = 1 .. top
    BY <2>2
  <2>4. Len(f) = top
    <3>1. \A k, m \in Nat : 1 .. k = 1 .. m => k = m
      OBVIOUS
    <3> QED
      BY <3>1, <2>2, <2>3, <1>1
  <2> QED
    BY <2>1, <2>2, <2>4
<1>8. \A i, j \in 1 .. top : f[i] = f[j] => i = j
  BY <1>1, <1>5
<1>9. ASSUME NEW x \in S, x \notin Range(f)
      PROVE  top = n /\ \A y \in Range(f) : <<y, x>> \in R
  <2>1. before[x] \in Nat /\ before[x] < all
    BY <1>1, <1>3
  <2>2. ~(before[x] < top)
    <3> SUFFICES ASSUME before[x] < top PROVE FALSE
      OBVIOUS
    <3>1. before[x] + 1 \in 1 .. top
      BY <2>1, <1>1
    <3>2. f[before[x] + 1] \in S /\ before[f[before[x] + 1]] = before[x]
      BY <3>1, <2>1, <1>5
    <3>3. f[before[x] + 1] = x
      BY <3>2, <1>3
    <3> QED
      BY <3>1, <3>3, <1>7, <1>9 DEF Range
  <2>3. top = n
    BY <2>1, <2>2, <1>1
  <2>4. ASSUME NEW y \in Range(f) PROVE <<y, x>> \in R
    <3>1. PICK i \in 1 .. top : y = f[i]
      BY <1>7 DEF Range
    <3>2. y \in S /\ before[y] = i - 1 /\ before[y] < before[x]
      BY <3>1, <2>1, <2>2, <1>1, <1>5
    <3> QED
      BY <3>2, <1>2
  <2> QED
    BY <2>3, <2>4
<1> QED
  BY <1>1, <1>7, <1>8, <1>9 DEF f

\* The numbers that the scores are made of.
LEMMA CountLemma ==
  ASSUME NEW A \in SUBSET Words, NEW B \in SUBSET Words
  PROVE  /\ Cardinality(A) \in Nat
         /\ Cardinality(A) = 0 <=> A = {}
         /\ Cardinality(A) = Cardinality(A \cap B) + Cardinality(A \ B)
         /\ A \subseteq B => Cardinality(A) <= Cardinality(B)
<1>1. IsFiniteSet(A) /\ IsFiniteSet(B) /\ IsFiniteSet(A \cap B) /\ IsFiniteSet(A \ B)
  <2>1. A \cap B \in SUBSET Words /\ A \ B \in SUBSET Words
    OBVIOUS
  <2> QED
    BY <2>1, RecallAssumption, FS_Subset
<1>2. Cardinality(A) \in Nat /\ Cardinality(A \cap B) \in Nat /\ Cardinality(A \ B) \in Nat
  BY <1>1, FS_CardinalityType
<1>3. Cardinality(A \ B) = Cardinality(A) - Cardinality(A \cap B)
  BY <1>1, FS_Difference
<1>4. Cardinality(A) = 0 <=> A = {}
  BY <1>1, FS_EmptySet
<1>5. A \subseteq B => Cardinality(A) <= Cardinality(B)
  BY <1>1, FS_Subset
<1> QED
  BY <1>2, <1>3, <1>4, <1>5

LEMMA ScoreLemma ==
  ASSUME recorded \in Seq(Texts), NEW query \in SUBSET Words, query # {},
         NEW k \in 1 .. Len(recorded)
  PROVE  /\ recorded[k] \in SUBSET Words /\ Len(recorded) \in Nat /\ k \in Nat
         /\ Shared(k, query) \in Nat
         /\ Shared(k, query) = 0 <=> recorded[k] \cap query = {}
         /\ United(k, query) \in Nat /\ United(k, query) > 0
         /\ Recent(k) \in 1 .. Len(recorded)
         /\ Combined(k, query) \in Nat
<1>1. Len(recorded) \in Nat /\ recorded[k] \in SUBSET Words /\ k \in Nat
  BY RecallAssumption, LenProperties, ElementOfSeq
<1>2. recorded[k] \cap query \in SUBSET Words /\ recorded[k] \cup query \in SUBSET Words
      /\ recorded[k] \cup query # {}
  BY <1>1
<1>3. /\ Shared(k, query) \in Nat
      /\ Shared(k, query) = 0 <=> recorded[k] \cap query = {}
  BY <1>2, CountLemma DEF Shared
<1>4. United(k, query) \in Nat /\ United(k, query) # 0
  BY <1>2, CountLemma DEF United
<1>5. Recent(k) \in 1 .. Len(recorded)
  BY <1>1 DEF Recent
<1>6. Combined(k, query) \in Nat
  BY <1>1, <1>3, <1>4, <1>5 DEF Combined
<1> QED
  BY <1>1, <1>3, <1>4, <1>5, <1>6

\* The order of the turns is strict and total.
LEMMA TurnOrder ==
  ASSUME recorded \in Seq(Texts), NEW query \in SUBSET Words, query # {},
         NEW k \in 1 .. Len(recorded), NEW j \in 1 .. Len(recorded)
  PROVE  /\ ~Before_(k, k, query)
         /\ k # j => Before_(k, j, query) \/ Before_(j, k, query)
         /\ ~(Before_(k, j, query) /\ Before_(j, k, query))
         /\ \A m \in 1 .. Len(recorded) :
              Before_(k, j, query) /\ Before_(j, m, query) => Before_(k, m, query)
<1> DEFINE C(x) == Combined(x, query)
           U(x) == United(x, query)
<1>1. \A x \in 1 .. Len(recorded) : x \in Nat /\ C(x) \in Nat /\ U(x) \in Nat /\ U(x) > 0
  BY ScoreLemma
<1>2. \A x, y \in 1 .. Len(recorded) : C(x) * U(y) \in Nat
  <2> HIDE DEF C, U
  <2> QED
    BY <1>1
<1>3. \A x, y \in 1 .. Len(recorded) :
        Before_(x, y, query) <=>
          C(x) * U(y) > C(y) * U(x) \/ (C(x) * U(y) = C(y) * U(x) /\ x > y)
  BY DEF Before_
<1> HIDE DEF C, U
<1>4. ~Before_(k, k, query)
  BY <1>1, <1>2, <1>3
<1>5. k # j => Before_(k, j, query) \/ Before_(j, k, query)
  BY <1>1, <1>2, <1>3
<1>6. ~(Before_(k, j, query) /\ Before_(j, k, query))
  BY <1>1, <1>2, <1>3
<1>7. ASSUME NEW m \in 1 .. Len(recorded), Before_(k, j, query), Before_(j, m, query)
      PROVE  Before_(k, m, query)
  <2>1. C(k) * U(j) >= C(j) * U(k) /\ C(j) * U(m) >= C(m) * U(j)
    BY <1>2, <1>3, <1>7
  <2>2. /\ C(k) * U(m) >= C(m) * U(k)
        /\ C(k) * U(m) = C(m) * U(k) =>
             C(k) * U(j) = C(j) * U(k) /\ C(j) * U(m) = C(m) * U(j)
    <3>1. /\ C(k) \in Nat /\ C(j) \in Nat /\ C(m) \in Nat
          /\ U(k) \in Nat /\ U(j) \in Nat /\ U(m) \in Nat /\ U(k) > 0 /\ U(j) > 0 /\ U(m) > 0
      BY <1>1
    <3>2. Descends(C(k), U(k), C(j), U(j), C(m), U(m))
      BY <3>1, Crossed
    <3> QED
      BY <3>1, <3>2, <2>1 DEF Descends
  <2>3. C(k) * U(m) = C(m) * U(k) => k > m
    <3> HAVE C(k) * U(m) = C(m) * U(k)
    <3>1. k > j /\ j > m
      BY <1>2, <1>3, <1>7, <2>2
    <3> QED
      BY <3>1, <1>1
  <2> QED
    BY <1>2, <1>3, <2>2, <2>3
<1> QED
  BY <1>4, <1>5, <1>6, <1>7

\* What a query that has words selects.
LEMMA SelectedLemma ==
  ASSUME recorded \in Seq(Texts), NEW query \in SUBSET Words, query # {},
         NEW s, s = selectRelevantTurns(query)
  PROVE  /\ s \in Seq(1 .. Len(recorded)) /\ Len(s) <= TurnBudget
         /\ Range(s) \subseteq Relevant(query)
         /\ \A i, j \in 1 .. Len(s) : s[i] = s[j] => i = j
         /\ \A x \in Relevant(query) \ Range(s) :
              Len(s) = TurnBudget /\ \A y \in Range(s) : Before_(y, x, query)
<1> DEFINE S == Relevant(query)
           R == {p \in S \X S : Before_(p[1], p[2], query)}
           before == [k \in S |-> Cardinality({j \in S : Before_(j, k, query)})]
<1>1. Len(recorded) \in Nat /\ S \in SUBSET (1 .. Len(recorded))
  BY LenProperties DEF Relevant
<1>2. IsFiniteSet(S)
  <2>1. IsFiniteSet(1 .. Len(recorded))
    BY <1>1, FS_Interval
  <2> QED
    BY <1>1, <2>1, FS_Subset
<1>3. TurnBudget \in Nat
  BY RecallAssumption
<1>4. s = FirstOf(before, TurnBudget)
  BY Zenon DEF selectRelevantTurns
<1> HIDE DEF S
<1>5. R \in SUBSET (S \X S) /\ \A x, y \in S : <<x, y>> \in R <=> Before_(x, y, query)
  OBVIOUS
<1>6. /\ \A x \in S : <<x, x>> \notin R
      /\ \A x, y \in S : x # y => <<x, y>> \in R \/ <<y, x>> \in R
  BY <1>1, <1>5, TurnOrder
<1>7. \A x, y, z \in S : <<x, y>> \in R /\ <<y, z>> \in R => <<x, z>> \in R
  BY <1>1, <1>5, TurnOrder
<1>8. ASSUME NEW x \in S
      PROVE  before[x] \in Int /\ before[x] = Cardinality({y \in S : <<y, x>> \in R})
  <2>1. {y \in S : <<y, x>> \in R} = {y \in S : Before_(y, x, query)}
    BY <1>5
  <2>2. {y \in S : Before_(y, x, query)} \in SUBSET S
    OBVIOUS
  <2> DEFINE A == {y \in S : Before_(y, x, query)}
  <2>3. before[x] = Cardinality(A)
    OBVIOUS
  <2> HIDE DEF A, before
  <2>4. IsFiniteSet(A)
    <3>1. A \in SUBSET S
      BY <2>2 DEF A
    <3> QED
      BY <3>1, <1>2, FS_Subset
  <2>5. Cardinality(A) \in Nat
    BY <2>4, FS_CardinalityType
  <2> QED
    <3>1. Cardinality(A) \in Int
      BY <2>5
    <3>2. A = {y \in S : <<y, x>> \in R}
      BY <2>1 DEF A
    <3> QED
      BY <2>3, <3>1, <3>2
<1>9. before \in [S -> Int]
  BY <1>8
<1> HIDE DEF R, before
<1>10. /\ s \in Seq(S) /\ Len(s) <= TurnBudget
       /\ \A i, j \in 1 .. Len(s) : s[i] = s[j] => i = j
       /\ \A x \in S : x \notin Range(s) =>
            Len(s) = TurnBudget /\ \A y \in Range(s) : <<y, x>> \in R
  <2>1. R \in SUBSET (S \X S)
    BY <1>5
  <2>2. \A x \in S : before[x] = Cardinality({y \in S : <<y, x>> \in R})
    BY <1>8
  <2>3. /\ FirstOf(before, TurnBudget) \in Seq(S)
        /\ Len(FirstOf(before, TurnBudget)) <= TurnBudget
        /\ \A i, j \in 1 .. Len(FirstOf(before, TurnBudget)) :
             FirstOf(before, TurnBudget)[i] = FirstOf(before, TurnBudget)[j] => i = j
        /\ \A x \in S : x \notin Range(FirstOf(before, TurnBudget)) =>
             /\ Len(FirstOf(before, TurnBudget)) = TurnBudget
             /\ \A y \in Range(FirstOf(before, TurnBudget)) : <<y, x>> \in R
    BY <2>1, <2>2, <1>2, <1>3, <1>6, <1>7, <1>9, FirstOfLemma, Zenon
  <2> QED
    BY <2>3, <1>4, Zenon
<1>11. Len(s) \in Nat /\ DOMAIN s = 1 .. Len(s) /\ \A i \in 1 .. Len(s) : s[i] \in S
  BY <1>10, LenProperties, ElementOfSeq
<1>12. Range(s) \subseteq S
  BY <1>11 DEF Range
<1>13. s \in Seq(1 .. Len(recorded))
  <2>1. s \in [1 .. Len(s) -> 1 .. Len(recorded)]
    BY <1>1, <1>10, <1>11, LenProperties
  <2> QED
    BY <2>1, <1>11, SeqDef
<1> QED
  BY <1>5, <1>10, <1>12, <1>13 DEF S

\* A score from w shared words, the recency r and u words in all, with n turns.
Score(w, r, u, n) == 10 * w * n + 3 * r * u

\* The latest, with r = n, is relevant, and ahead of what shares no word.
LatestScores(w, u, n, r, v) ==
  r <= n => /\ 2 * Score(w, n, u, n) >= u * n
            /\ Score(w, n, u, n) * v >= Score(0, r, v, n) * u

\* The more recent of two with the same words scores as much at least.
NewerScores(w, u, n, r, q) ==
  r <= q => /\ 2 * Score(w, r, u, n) >= u * n => 2 * Score(w, q, u, n) >= u * n
            /\ Score(w, q, u, n) * u >= Score(w, r, u, n) * u

\* So does the more recent of two that share no word with the query.
UnrelatedScores(u, v, n, r, q) ==
  r <= q /\ u > 0 =>
    /\ 2 * Score(0, r, u, n) >= u * n => 2 * Score(0, q, v, n) >= v * n
    /\ Score(0, q, v, n) * u >= Score(0, r, u, n) * v

LEMMA Monotone == \A x, y, z \in Nat : x >= y => x * z >= y * z
OBVIOUS

LEMMA ScoreType == \A w, r, u, n \in Nat : Score(w, r, u, n) \in Nat
BY DEF Score

LEMMA LatestScore == \A w, u, n, r, v \in Nat : LatestScores(w, u, n, r, v)
<1> SUFFICES ASSUME NEW w \in Nat, NEW u \in Nat, NEW n \in Nat, NEW r \in Nat, NEW v \in Nat,
                    r <= n
             PROVE  /\ 2 * Score(w, n, u, n) >= u * n
                    /\ Score(w, n, u, n) * v >= Score(0, r, v, n) * u
  BY DEF LatestScores
<1>1. Score(w, n, u, n) = 10 * w * n + 3 * n * u
  BY DEF Score
<1>2. /\ 10 * w * n \in Nat /\ 3 * n * u = 3 * (n * u) /\ n * u \in Nat /\ u * n = n * u
  OBVIOUS
<1>3. Score(w, n, u, n) >= 3 * n * u /\ Score(w, n, u, n) \in Nat
  BY <1>1, <1>2
<1>4. 2 * Score(w, n, u, n) >= u * n
  BY <1>2, <1>3
<1>5. Score(w, n, u, n) * v >= (3 * n * u) * v
  <2> DEFINE c == Score(w, n, u, n)
             d == 3 * n * u
  <2>1. c \in Nat /\ d \in Nat /\ c >= d
    BY <1>2, <1>3
  <2> HIDE DEF c, d
  <2>2. c * v >= d * v
    BY <2>1, Monotone
  <2> QED
    BY <2>2 DEF c, d
<1>6. (3 * n * u) * v >= Score(0, r, v, n) * u
  <2> DEFINE z == 3 * u * v
  <2>1. z \in Nat /\ (3 * n * u) * v = n * z /\ (3 * r * v) * u = r * z
    OBVIOUS
  <2>2. n * z >= r * z
    <3> HIDE DEF z
    <3> QED
      BY <2>1, Monotone
  <2>3. Score(0, r, v, n) = 3 * r * v
    BY DEF Score
  <2> QED
    BY <2>1, <2>2, <2>3
<1>7. (3 * n * u) * v \in Nat /\ Score(0, r, v, n) * u \in Nat /\ Score(w, n, u, n) * v \in Nat
  <2>1. Score(0, r, v, n) \in Nat /\ Score(w, n, u, n) \in Nat
    BY ScoreType
  <2> QED
    BY <2>1
<1>8. Score(w, n, u, n) * v >= Score(0, r, v, n) * u
  <2> DEFINE x == Score(w, n, u, n) * v
             y == (3 * n * u) * v
             z == Score(0, r, v, n) * u
  <2> HIDE DEF x, y, z
  <2>1. x \in Nat /\ y \in Nat /\ z \in Nat /\ x >= y /\ y >= z
    BY <1>5, <1>6, <1>7 DEF x, y, z
  <2>2. x >= z
    BY <2>1
  <2> QED
    BY <2>2 DEF x, z
<1> QED
  BY <1>4, <1>8

LEMMA NewerScore == \A w, u, n, r, q \in Nat : NewerScores(w, u, n, r, q)
<1> SUFFICES ASSUME NEW w \in Nat, NEW u \in Nat, NEW n \in Nat, NEW r \in Nat, NEW q \in Nat,
                    r <= q
             PROVE  /\ 2 * Score(w, r, u, n) >= u * n => 2 * Score(w, q, u, n) >= u * n
                    /\ Score(w, q, u, n) * u >= Score(w, r, u, n) * u
  BY DEF NewerScores
<1>1. q * (3 * u) >= r * (3 * u)
  <2> DEFINE z == 3 * u
  <2>1. z \in Nat
    OBVIOUS
  <2> HIDE DEF z
  <2>2. q * z >= r * z
    BY <2>1, Monotone
  <2> QED
    BY <2>2 DEF z
<1>2. /\ Score(w, q, u, n) = 10 * w * n + q * (3 * u)
      /\ Score(w, r, u, n) = 10 * w * n + r * (3 * u)
  BY DEF Score
<1>3. 10 * w * n \in Nat /\ q * (3 * u) \in Nat /\ r * (3 * u) \in Nat /\ u * n \in Nat
  OBVIOUS
<1>4. Score(w, q, u, n) >= Score(w, r, u, n)
  BY <1>1, <1>2, <1>3
<1> DEFINE a == Score(w, q, u, n)
           b == Score(w, r, u, n)
           m == u * n
<1>5. a \in Nat /\ b \in Nat /\ m \in Nat /\ a >= b
  BY <1>3, <1>4, ScoreType
<1> HIDE DEF a, b, m
<1>6. (2 * b >= m => 2 * a >= m) /\ a * u >= b * u
  BY <1>5, Monotone
<1> QED
  BY <1>6 DEF a, b, m

LEMMA UnrelatedScore == \A u, v, n, r, q \in Nat : UnrelatedScores(u, v, n, r, q)
<1> SUFFICES ASSUME NEW u \in Nat, NEW v \in Nat, NEW n \in Nat, NEW r \in Nat, NEW q \in Nat,
                    r <= q, u > 0
             PROVE  /\ 2 * Score(0, r, u, n) >= u * n => 2 * Score(0, q, v, n) >= v * n
                    /\ Score(0, q, v, n) * u >= Score(0, r, u, n) * v
  BY DEF UnrelatedScores
<1>1. Score(0, r, u, n) = (3 * r) * u /\ Score(0, q, v, n) = (3 * q) * v
  BY DEF Score
<1>2. Score(0, q, v, n) * u >= Score(0, r, u, n) * v
  <2> DEFINE z == 3 * u * v
  <2>1. z \in Nat /\ ((3 * q) * v) * u = q * z /\ ((3 * r) * u) * v = r * z
    OBVIOUS
  <2>2. q * z >= r * z
    <3> HIDE DEF z
    <3> QED
      BY <2>1, Monotone
  <2> QED
    BY <1>1, <2>1, <2>2
<1>3. ASSUME 2 * Score(0, r, u, n) >= u * n PROVE 2 * Score(0, q, v, n) >= v * n
  <2>1. (6 * r) * u >= n * u
    <3>1. 2 * ((3 * r) * u) = (6 * r) * u /\ u * n = n * u
      OBVIOUS
    <3> QED
      BY <3>1, <1>1, <1>3
  <2>2. 6 * r >= n
    <3> DEFINE x == 6 * r
    <3>1. x \in Nat /\ x * u >= n * u
      BY <2>1
    <3> HIDE DEF x
    <3>2. ~(x < n)
      <4>1. x < n => (n - x) * u >= u /\ (n - x) * u = n * u - x * u
        BY <3>1
      <4> QED
        BY <3>1, <4>1
    <3> QED
      BY <3>1, <3>2 DEF x
  <2>3. (6 * q) * v >= n * v
    <3> DEFINE x == 6 * q
    <3>1. x \in Nat /\ x >= n
      BY <2>2
    <3> HIDE DEF x
    <3>2. x * v >= n * v
      BY <3>1, Monotone
    <3> QED
      BY <3>2 DEF x
  <2>4. 2 * ((3 * q) * v) = (6 * q) * v /\ v * n = n * v
    OBVIOUS
  <2> QED
    BY <1>1, <2>3, <2>4
<1> QED
  BY <1>2, <1>3

\* A turn's score.
LEMMA CombinedLemma ==
  ASSUME recorded \in Seq(Texts), NEW query \in SUBSET Words, query # {},
         NEW k \in 1 .. Len(recorded)
  PROVE  /\ Combined(k, query)
              = Score(Shared(k, query), Recent(k), United(k, query), Len(recorded))
         /\ Recent(k) \in Nat /\ Recent(k) <= Len(recorded)
<1>1. Recent(k) \in 1 .. Len(recorded) /\ Len(recorded) \in Nat
  BY ScoreLemma
<1>2. Combined(k, query)
        = Score(Shared(k, query), Recent(k), United(k, query), Len(recorded))
  BY DEF Combined, Score
<1> QED
  BY <1>1, <1>2

\* The latest turn is relevant to every query, and a turn ahead of it shares a word.
LEMMA LatestLemma ==
  ASSUME recorded \in Seq(Texts), NEW query \in SUBSET Words, query # {}, Len(recorded) > 0
  PROVE  /\ Len(recorded) \in Relevant(query)
         /\ \A k \in 1 .. Len(recorded) :
              Before_(k, Len(recorded), query) => recorded[k] \cap query # {}
<1> DEFINE N == Len(recorded)
           C(x) == Combined(x, query)
           U(x) == United(x, query)
           W(x) == Shared(x, query)
<1>1. N \in Nat /\ N > 0 /\ N \in 1 .. N /\ DOMAIN recorded = 1 .. N
  BY LenProperties
<1>2. \A x \in 1 .. N :
        /\ W(x) \in Nat /\ U(x) \in Nat /\ C(x) \in Nat
        /\ Recent(x) \in Nat /\ Recent(x) <= N
        /\ C(x) = Score(W(x), Recent(x), U(x), N)
        /\ W(x) = 0 <=> recorded[x] \cap query = {}
  BY ScoreLemma, CombinedLemma
<1>3. Recent(N) = N
  BY <1>1 DEF Recent
<1>4. ASSUME NEW k \in 1 .. N PROVE LatestScores(W(N), U(N), N, Recent(k), U(k))
  <2>1. W(N) \in Nat /\ U(N) \in Nat /\ Recent(k) \in Nat /\ U(k) \in Nat
    BY <1>1, <1>2
  <2> QED
    BY <1>1, <2>1, LatestScore
<1>5. N \in Relevant(query)
  <2>1. 2 * C(N) >= U(N) * N
    <3>1. C(N) = Score(W(N), N, U(N), N) /\ N <= N
      BY <1>1, <1>2, <1>3
    <3> QED
      BY <3>1, <1>1, <1>3, <1>4 DEF LatestScores
  <2> QED
    BY <2>1, <1>1 DEF Relevant
<1>6. ASSUME NEW k \in 1 .. N, Before_(k, N, query), W(k) = 0 PROVE FALSE
  <2>1. C(k) * U(N) > C(N) * U(k) \/ k > N
    BY <1>6 DEF Before_
  <2>2. C(N) = Score(W(N), N, U(N), N) /\ C(k) = Score(0, Recent(k), U(k), N)
        /\ Recent(k) <= N
    BY <1>1, <1>2, <1>3, <1>6
  <2>3. C(N) * U(k) >= C(k) * U(N)
    BY <1>4, <2>2 DEF LatestScores
  <2>4. /\ U(N) \in Nat /\ U(k) \in Nat /\ C(N) \in Nat /\ C(k) \in Nat
    BY <1>1, <1>2
  <2> HIDE DEF N, C, U, W
  <2>5. C(N) * U(k) \in Nat /\ C(k) * U(N) \in Nat
    BY <2>4
  <2>6. ~(k > N)
    BY <1>1
  <2> QED
    BY <2>1, <2>3, <2>5, <2>6
<1> QED
  BY <1>2, <1>5, <1>6

\* Of turns that share the same words, or none, with the query, the newer is ahead.
LEMMA NewerLemma ==
  ASSUME recorded \in Seq(Texts), NEW query \in SUBSET Words, query # {},
         NEW j \in 1 .. Len(recorded), NEW k \in 1 .. Len(recorded), j < k,
         \/ recorded[j] = recorded[k]
         \/ recorded[j] \cap query = {} /\ recorded[k] \cap query = {},
         j \in Relevant(query)
  PROVE  k \in Relevant(query) /\ Before_(k, j, query)
<1> DEFINE N == Len(recorded)
           C(x) == Combined(x, query)
           U(x) == United(x, query)
           W(x) == Shared(x, query)
<1>1. N \in Nat /\ DOMAIN recorded = 1 .. N /\ j \in Nat /\ k \in Nat
  BY LenProperties
<1>2. \A x \in 1 .. N :
        /\ W(x) \in Nat /\ U(x) \in Nat /\ U(x) > 0 /\ C(x) \in Nat /\ Recent(x) \in Nat
        /\ C(x) = Score(W(x), Recent(x), U(x), N)
        /\ W(x) = 0 <=> recorded[x] \cap query = {}
  BY ScoreLemma, CombinedLemma
<1>3. Recent(j) <= Recent(k)
  BY <1>1 DEF Recent
<1>4. 2 * C(j) >= U(j) * N
  BY DEF Relevant
<1>5. SUFFICES 2 * C(k) >= U(k) * N /\ C(k) * U(j) >= C(j) * U(k)
  <2>1. U(j) \in Nat /\ U(k) \in Nat /\ C(j) \in Nat /\ C(k) \in Nat
    BY <1>2
  <2> HIDE DEF N, C, U
  <2>2. C(k) * U(j) \in Nat /\ C(j) * U(k) \in Nat
    BY <2>1
  <2>3. C(k) * U(j) > C(j) * U(k) \/ C(k) * U(j) = C(j) * U(k)
    BY <2>2, <1>5
  <2> QED
    BY <2>3, <1>1, <1>5 DEF Relevant, Before_, N, C, U
<1>6. CASE recorded[j] = recorded[k]
  <2>1. W(k) = W(j) /\ U(k) = U(j)
    BY <1>6 DEF Shared, United
  <2>2. NewerScores(W(j), U(j), N, Recent(j), Recent(k))
    BY <1>1, <1>2, NewerScore
  <2>3. C(j) = Score(W(j), Recent(j), U(j), N) /\ C(k) = Score(W(j), Recent(k), U(j), N)
    BY <1>2, <2>1
  <2> QED
    BY <1>3, <1>4, <2>1, <2>2, <2>3 DEF NewerScores
<1>7. CASE recorded[j] \cap query = {} /\ recorded[k] \cap query = {}
  <2>1. UnrelatedScores(U(j), U(k), N, Recent(j), Recent(k))
    BY <1>1, <1>2, UnrelatedScore
  <2>2. C(j) = Score(0, Recent(j), U(j), N) /\ C(k) = Score(0, Recent(k), U(k), N)
    BY <1>2, <1>7
  <2>3. U(j) > 0
    BY <1>2
  <2> QED
    BY <1>3, <1>4, <2>1, <2>2, <2>3 DEF UnrelatedScores
<1> QED
  BY <1>6, <1>7

\* A set of positions that is not empty has a lowest.
LEMMA LowestOf ==
  ASSUME NEW N \in Nat, NEW S \in SUBSET (1 .. N), S # {}
  PROVE  \E m \in S : \A j \in S : m <= j
<1>1. IsFiniteSet(1 .. N)
  BY FS_Interval
<1> DEFINE R == {p \in S \X S : p[1] < p[2]}
           rank == [x \in S |-> Cardinality({y \in S : <<y, x>> \in R})]
<1>2. IsFiniteSet(S)
  BY <1>1, FS_Subset
<1>3. /\ R \in SUBSET (S \X S)
      /\ \A x, y \in S : <<x, y>> \in R <=> x < y
  OBVIOUS
<1> HIDE DEF R
<1>4. ASSUME NEW x \in S PROVE Cardinality({y \in S : <<y, x>> \in R}) \in Int
  <2>1. {y \in S : <<y, x>> \in R} \in SUBSET S
    OBVIOUS
  <2>2. IsFiniteSet({y \in S : <<y, x>> \in R})
    BY <2>1, <1>2, FS_Subset
  <2> QED
    BY <2>2, FS_CardinalityType
<1>5. /\ rank \in [S -> Int]
      /\ \A x \in S : rank[x] = Cardinality({y \in S : <<y, x>> \in R})
  BY <1>4
<1> HIDE DEF rank
<1>6. /\ \A x \in S : <<x, x>> \notin R
      /\ \A x, y, z \in S : <<x, y>> \in R /\ <<y, z>> \in R => <<x, z>> \in R
      /\ \A x, y \in S : x # y => <<x, y>> \in R \/ <<y, x>> \in R
  <2>1. \A x \in S : x \in Int
    OBVIOUS
  <2> QED
    BY <1>3, <2>1
<1>7. /\ rank \in Bijection(S, 0 .. Cardinality(S) - 1)
      /\ \A x, y \in S : <<x, y>> \in R <=> rank[x] < rank[y]
  BY <1>2, <1>3, <1>5, <1>6, Ranking
<1>8. Cardinality(S) \in Nat /\ Cardinality(S) # 0
  BY <1>2, FS_CardinalityType, FS_EmptySet
<1>9. 0 \in 0 .. Cardinality(S) - 1
  BY <1>8
<1>10. PICK m \in S : rank[m] = 0
  BY <1>7, <1>9 DEF Bijection, Surjection
<1>11. \A j \in S : ~(rank[j] < 0) /\ rank[j] \in Int
  BY <1>7 DEF Bijection, Injection
<1>12. \A j \in S : ~(j < m)
  BY <1>3, <1>7, <1>10, <1>11
<1> QED
  BY <1>12

\* A set of positions without a gap below the last.
LEMMA TopOf ==
  ASSUME NEW N \in Nat, NEW S \in SUBSET (1 .. N),
         \A j \in S : \A k \in 1 .. N : j < k => k \in S
  PROVE  IsFiniteSet(S) /\ S = (N - Cardinality(S) + 1) .. N
<1>1. IsFiniteSet(1 .. N)
  BY FS_Interval
<1>2. IsFiniteSet(S)
  BY <1>1, FS_Subset
<1>3. CASE S = {}
  <2>1. Cardinality(S) = 0
    BY <1>3, FS_EmptySet
  <2> QED
    BY <2>1, <1>2, <1>3
<1>4. CASE S # {}
  <2>1. PICK m \in S : \A j \in S : m <= j
    <3>1. S \in SUBSET (1 .. N)
      OBVIOUS
    <3> QED
      BY <1>4, LowestOf
  <2>2. S = m .. N
    <3>1. \A x \in S : x \in m .. N
      BY <2>1
    <3>2. ASSUME NEW x \in m .. N PROVE x \in S
      <4>1. x \in 1 .. N /\ (x = m \/ m < x)
        OBVIOUS
      <4> QED
        BY <4>1
    <3> QED
      BY <3>1, <3>2
  <2>3. Cardinality(S) = N - m + 1
    <3>1. m \in Int /\ N \in Int /\ m <= N
      OBVIOUS
    <3>2. Cardinality(m .. N) = N - m + 1
      BY <3>1, FS_Interval
    <3> QED
      BY <2>2, <3>2
  <2>4. m = N - Cardinality(S) + 1
    BY <2>3
  <2> QED
    BY <2>2, <2>4, <1>2
<1> QED
  BY <1>3, <1>4

\* What the selection of turns promises: bounded, no gap where nothing is related, the
\* newer of equals, and the latest unless others that are related take all the room.
LEMMA TurnsLemma ==
  ASSUME recorded \in Seq(Texts), NEW query \in SUBSET Words,
         NEW s, s = selectRelevantTurns(query)
  PROVE  /\ s \in Seq(1 .. Len(recorded)) /\ Len(s) <= TurnBudget
         /\ Range(s) \subseteq 1 .. Len(recorded)
         /\ Len(recorded) > 0 /\ Len(recorded) \notin Range(s) =>
              /\ Len(s) = TurnBudget
              /\ \A k \in Range(s) : recorded[k] \cap query # {}
         /\ (\A k \in 1 .. Len(recorded) : recorded[k] \cap query = {}) =>
              Range(s) = (Len(recorded) - Len(s) + 1) .. Len(recorded)
         /\ \A j, k \in 1 .. Len(recorded) :
              j < k /\ recorded[j] = recorded[k] /\ j \in Range(s) => k \in Range(s)
<1> DEFINE N == Len(recorded)
<1>1. N \in Nat /\ TurnBudget \in Nat /\ TurnBudget > 0
  BY RecallAssumption, LenProperties
<1>2. CASE query = {}
  <2> DEFINE first == IF N < TurnBudget THEN 0 ELSE N - TurnBudget
  <2>1. s = [i \in 1 .. N - first |-> first + i]
    BY <1>2 DEF selectRelevantTurns
  <2>2. /\ first \in Nat /\ first <= N /\ N - first \in Nat /\ N - first <= TurnBudget
        /\ N > 0 => first < N
    BY <1>1
  <2> HIDE DEF first, N
  <2>3. s \in [1 .. N - first -> 1 .. N]
    BY <2>1, <2>2, <1>1
  <2>4. s \in Seq(1 .. N)
    <3> DEFINE m == N - first
    <3>1. m \in Nat /\ s \in [1 .. m -> 1 .. N]
      BY <2>2, <2>3
    <3> HIDE DEF m
    <3> QED
      BY <3>1, ListLemma
  <2>5. Len(s) = N - first /\ DOMAIN s = 1 .. N - first
    <3>1. Len(s) \in Nat /\ DOMAIN s = 1 .. Len(s) /\ DOMAIN s = 1 .. N - first
      BY <2>3, <2>4, LenProperties
    <3>2. \A k, m \in Nat : 1 .. k = 1 .. m => k = m
      OBVIOUS
    <3> QED
      BY <3>1, <3>2, <2>2
  <2>6. Range(s) = first + 1 .. N
    <3>1. \A i \in 1 .. N - first : s[i] = first + i
      BY <2>1
    <3>2. \A x \in first + 1 .. N : x - first \in 1 .. N - first /\ first + (x - first) = x
      BY <2>2, <1>1
    <3>3. \A i \in 1 .. N - first : first + i \in first + 1 .. N
      BY <2>2, <1>1
    <3> QED
      BY <3>1, <3>2, <3>3, <2>5 DEF Range
  <2>7. N > 0 => N \in Range(s)
    BY <2>2, <2>6, <1>1
  <2>8. Range(s) = (N - Len(s) + 1) .. N
    BY <2>2, <2>5, <2>6, <1>1
  <2>9. Range(s) \subseteq 1 .. N
        /\ \A j, k \in 1 .. N : j < k /\ j \in Range(s) => k \in Range(s)
    BY <2>2, <2>6, <1>1
  <2> QED
    BY <2>2, <2>4, <2>5, <2>7, <2>8, <2>9 DEF N
<1>3. CASE query # {}
  <2>1. /\ s \in Seq(1 .. N) /\ Len(s) <= TurnBudget
        /\ Range(s) \subseteq Relevant(query)
        /\ \A i, j \in 1 .. Len(s) : s[i] = s[j] => i = j
        /\ \A x \in Relevant(query) \ Range(s) :
             Len(s) = TurnBudget /\ \A y \in Range(s) : Before_(y, x, query)
    BY <1>3, SelectedLemma
  <2>2. Range(s) \subseteq 1 .. N
    <3>1. Relevant(query) \subseteq 1 .. N
      BY LenProperties DEF Relevant
    <3> QED
      BY <2>1, <3>1
  <2>3. ASSUME NEW j \in 1 .. N, NEW k \in 1 .. N, j < k, j \in Range(s),
               \/ recorded[j] = recorded[k]
               \/ recorded[j] \cap query = {} /\ recorded[k] \cap query = {}
        PROVE  k \in Range(s)
    <3>1. j \in Relevant(query)
      BY <2>1, <2>3
    <3>2. k \in Relevant(query) /\ Before_(k, j, query)
      BY <3>1, <2>3, <1>3, NewerLemma
    <3>3. k \notin Range(s) => Before_(j, k, query)
      BY <3>2, <2>1, <2>3
    <3> QED
      BY <3>2, <3>3, <1>3, TurnOrder
  <2>4. ASSUME N > 0, N \notin Range(s)
        PROVE  /\ Len(s) = TurnBudget
               /\ \A k \in Range(s) : recorded[k] \cap query # {}
    <3>1. /\ N \in Relevant(query)
          /\ \A k \in 1 .. N : Before_(k, N, query) => recorded[k] \cap query # {}
      BY <2>4, <1>3, LatestLemma
    <3> QED
      BY <3>1, <2>1, <2>2, <2>4
  <2>5. ASSUME \A k \in 1 .. N : recorded[k] \cap query = {}
        PROVE  Range(s) = (N - Len(s) + 1) .. N
    <3>1. \A j \in Range(s) : \A k \in 1 .. N : j < k => k \in Range(s)
      BY <2>2, <2>3, <2>5
    <3>2. IsFiniteSet(Range(s)) /\ Range(s) = (N - Cardinality(Range(s)) + 1) .. N
      <4> DEFINE S == Range(s)
      <4>1. S \in SUBSET (1 .. N) /\ \A j \in S : \A k \in 1 .. N : j < k => k \in S
        BY <2>2, <3>1
      <4> HIDE DEF S, N
      <4>2. IsFiniteSet(S) /\ S = (N - Cardinality(S) + 1) .. N
        BY <4>1, <1>1, TopOf
      <4> QED
        BY <4>2 DEF S
    <3>3. Len(s) \in Nat /\ DOMAIN s = 1 .. Len(s) /\ s \in [1 .. Len(s) -> 1 .. N]
      BY <2>1, LenProperties
    <3>4. s \in Bijection(1 .. Len(s), Range(s))
      <4>1. s \in [1 .. Len(s) -> Range(s)]
        BY <3>3 DEF Range
      <4>2. \A x \in Range(s) : \E i \in 1 .. Len(s) : s[i] = x
        BY <3>3 DEF Range
      <4> QED
        BY <4>1, <4>2, <2>1 DEF Bijection, Injection, IsInjective, Surjection
    <3>5. IsFiniteSet(1 .. Len(s)) /\ Cardinality(1 .. Len(s)) = Len(s)
      <4>1. 1 \in Int /\ Len(s) \in Int /\ (1 > Len(s) => Len(s) = 0) /\ Len(s) - 1 + 1 = Len(s)
        BY <3>3
      <4> QED
        BY <4>1, FS_Interval
    <3>6. Cardinality(Range(s)) = Len(s)
      BY <3>4, <3>5, FS_Bijection DEF ExistsBijection
    <3> QED
      BY <3>2, <3>6
  <2> QED
    BY <2>1, <2>2, <2>3, <2>4, <2>5
<1> QED
  BY <1>2, <1>3

\* A source whose name is made of all the words scores, and more than any other file.
LEMMA FullScores ==
  ASSUME NEW query \in SUBSET Words, query # {}, NEW f \in RepoFiles, NEW g \in RepoFiles,
         query \subseteq TokensOf[f], f \in SourceFiles
  PROVE  /\ ScoreOf(f, query) > 0
         /\ ~(query \subseteq TokensOf[g] /\ g \in SourceFiles) =>
              ~(ScoreOf(g, query) >= ScoreOf(f, query))
<1> DEFINE T == TokensOf[g]
           L == Cardinality(query \cap Long)
           M == Cardinality(query \ Long)
           a == Cardinality((query \cap T) \cap Long)
           b == Cardinality((query \cap T) \ Long)
           c == Cardinality((query \cap Inside[g]) \ T)
           d == Cardinality((query \ T) \cap Long)
           e == Cardinality((query \ T) \ Long)
<1>1. T \in SUBSET Words /\ Long \in SUBSET Words
  BY RecallAssumption
<1>2. L \in Nat /\ M \in Nat /\ L + M > 0
  <2>1. query \cap Long \in SUBSET Words /\ query \ Long \in SUBSET Words
    OBVIOUS
  <2>2. L \in Nat /\ M \in Nat
    BY <2>1, CountLemma
  <2>3. Cardinality(query) \in Nat /\ Cardinality(query) # 0 /\ Cardinality(query) = L + M
    BY <1>1, CountLemma
  <2> QED
    BY <2>2, <2>3
<1>3. a \in Nat /\ b \in Nat /\ c \in Nat /\ d \in Nat /\ e \in Nat
  <2>1. /\ (query \cap T) \cap Long \in SUBSET Words /\ (query \cap T) \ Long \in SUBSET Words
        /\ (query \cap Inside[g]) \ T \in SUBSET Words
        /\ (query \ T) \cap Long \in SUBSET Words /\ (query \ T) \ Long \in SUBSET Words
    OBVIOUS
  <2> QED
    BY <2>1, CountLemma
<1>4. L = a + d /\ M = b + e
  <2>1. query \cap Long \in SUBSET Words /\ query \ Long \in SUBSET Words
    OBVIOUS
  <2>2. L = Cardinality((query \cap Long) \cap T) + Cardinality((query \cap Long) \ T)
    BY <1>1, <2>1, CountLemma
  <2>3. M = Cardinality((query \ Long) \cap T) + Cardinality((query \ Long) \ T)
    BY <1>1, <2>1, CountLemma
  <2>4. /\ (query \cap Long) \cap T = (query \cap T) \cap Long
        /\ (query \cap Long) \ T = (query \ T) \cap Long
        /\ (query \ Long) \cap T = (query \cap T) \ Long
        /\ (query \ Long) \ T = (query \ T) \ Long
    OBVIOUS
  <2> QED
    BY <2>2, <2>3, <2>4
<1>5. c <= d + e /\ (~(query \subseteq T) => d + e > 0)
  <2> DEFINE r == query \ T
  <2>1. r \in SUBSET Words /\ (query \cap Inside[g]) \ T \in SUBSET Words
        /\ (query \cap Inside[g]) \ T \subseteq r
    OBVIOUS
  <2>2. Cardinality(r) = d + e
    BY <1>1, <2>1, CountLemma
  <2>3. c <= Cardinality(r)
    BY <2>1, CountLemma
  <2>4. Cardinality(r) \in Nat /\ (r # {} => Cardinality(r) # 0)
    BY <2>1, CountLemma
  <2>5. ~(query \subseteq T) => r # {}
    OBVIOUS
  <2> QED
    BY <2>2, <2>3, <2>4, <2>5
<1>6. ScoreOf(f, query) = (4 * L + 2 * M) * 6
  <2>1. query \cap TokensOf[f] = query /\ (query \cap Inside[f]) \ TokensOf[f] = {}
    OBVIOUS
  <2>2. ScoreOf(f, query) = (4 * L + 2 * M + Cardinality({})) * 6
    BY <2>1 DEF ScoreOf
  <2>3. Cardinality({}) = 0
    BY FS_EmptySet
  <2> QED
    BY <2>2, <2>3, <1>2
<1>7. ScoreOf(g, query) = (4 * a + 2 * b + c) * (IF g \in SourceFiles THEN 6 ELSE 5)
  BY Zenon DEF ScoreOf
<1> HIDE DEF T, L, M, a, b, c, d, e
<1>8. ScoreOf(f, query) > 0
  BY <1>2, <1>6
<1>9. CASE g \notin SourceFiles
  <2>1. ScoreOf(g, query) = (4 * a + 2 * b + c) * 5
    BY <1>7, <1>9
  <2> QED
    BY <2>1, <1>2, <1>3, <1>4, <1>5, <1>6, <1>8
<1>10. CASE g \in SourceFiles /\ ~(query \subseteq T)
  <2>1. ScoreOf(g, query) = (4 * a + 2 * b + c) * 6
    BY <1>7, <1>10
  <2> QED
    BY <2>1, <1>2, <1>3, <1>4, <1>5, <1>6, <1>8, <1>10
<1> QED
  BY <1>8, <1>9, <1>10 DEF T

\* A score is a number.
LEMMA ScoreOfType ==
  ASSUME NEW query \in SUBSET Words, NEW f \in RepoFiles
  PROVE  ScoreOf(f, query) \in Nat
<1> DEFINE T == TokensOf[f]
           a == Cardinality((query \cap T) \cap Long)
           b == Cardinality((query \cap T) \ Long)
           c == Cardinality((query \cap Inside[f]) \ T)
<1>1. a \in Nat /\ b \in Nat /\ c \in Nat
  <2>1. /\ (query \cap T) \cap Long \in SUBSET Words /\ (query \cap T) \ Long \in SUBSET Words
        /\ (query \cap Inside[f]) \ T \in SUBSET Words
    OBVIOUS
  <2> QED
    BY <2>1, CountLemma
<1>2. ScoreOf(f, query) = (4 * a + 2 * b + c) * (IF f \in SourceFiles THEN 6 ELSE 5)
  BY Zenon DEF ScoreOf
<1> HIDE DEF a, b, c
<1> QED
  BY <1>1, <1>2

\* What the search promises: bounded, and a full match is left out only for full matches.
LEMMA FilesLemma ==
  ASSUME NEW files \in SUBSET RepoFiles, NEW query \in SUBSET Words,
         NEW s, s = search(files, query)
  PROVE  /\ s \in Seq(RepoFiles) /\ Len(s) <= FileBudget /\ Range(s) \subseteq files
         /\ query # {} =>
              \A f \in files :
                (query \subseteq TokensOf[f] /\ f \in SourceFiles) /\ f \notin Range(s) =>
                  /\ Len(s) = FileBudget
                  /\ \A g \in Range(s) : query \subseteq TokensOf[g] /\ g \in SourceFiles
<1> DEFINE S == Hits(files, query)
           R == {p \in S \X S : Precedes(p[1], p[2], query)}
           before == [f \in S |-> Cardinality({g \in S : Precedes(g, f, query)})]
<1>1. S \in SUBSET files /\ S \in SUBSET RepoFiles
  BY DEF Hits
<1>2. IsFiniteSet(S) /\ FileBudget \in Nat /\ RepoFiles \subseteq Nat
  BY <1>1, RecallAssumption, FS_Subset
<1>3. s = FirstOf(before, FileBudget)
  BY Zenon DEF search
<1>4. query # {} => \A f \in files : ScoreOf(f, query) > 0 => f \in S
  BY DEF Hits
<1> HIDE DEF S
<1>5. \A f \in S : f \in Nat /\ ScoreOf(f, query) \in Nat
  BY <1>1, <1>2, ScoreOfType
<1>6. R \in SUBSET (S \X S) /\ \A x, y \in S : <<x, y>> \in R <=> Precedes(x, y, query)
  OBVIOUS
<1>7. /\ \A x \in S : <<x, x>> \notin R
      /\ \A x, y \in S : x # y => <<x, y>> \in R \/ <<y, x>> \in R
  BY <1>5, <1>6 DEF Precedes
<1>8. \A x, y, z \in S : <<x, y>> \in R /\ <<y, z>> \in R => <<x, z>> \in R
  BY <1>5, <1>6 DEF Precedes
<1>9. ASSUME NEW x \in S
      PROVE  before[x] \in Int /\ before[x] = Cardinality({y \in S : <<y, x>> \in R})
  <2> DEFINE A == {y \in S : Precedes(y, x, query)}
  <2>1. A \in SUBSET S /\ A = {y \in S : <<y, x>> \in R}
    BY <1>6
  <2>2. before[x] = Cardinality(A)
    OBVIOUS
  <2> HIDE DEF A, before
  <2>3. IsFiniteSet(A)
    BY <2>1, <1>2, FS_Subset
  <2>4. Cardinality(A) \in Int
    BY <2>3, FS_CardinalityType
  <2> QED
    BY <2>1, <2>2, <2>4
<1>10. before \in [S -> Int]
  BY <1>9
<1> HIDE DEF R, before
<1>11. /\ s \in Seq(S) /\ Len(s) <= FileBudget
       /\ \A x \in S : x \notin Range(s) =>
            Len(s) = FileBudget /\ \A y \in Range(s) : <<y, x>> \in R
  <2>1. R \in SUBSET (S \X S)
    BY <1>6
  <2>2. \A x \in S : before[x] = Cardinality({y \in S : <<y, x>> \in R})
    BY <1>9
  <2>3. /\ FirstOf(before, FileBudget) \in Seq(S)
        /\ Len(FirstOf(before, FileBudget)) <= FileBudget
        /\ \A i, j \in 1 .. Len(FirstOf(before, FileBudget)) :
             FirstOf(before, FileBudget)[i] = FirstOf(before, FileBudget)[j] => i = j
        /\ \A x \in S : x \notin Range(FirstOf(before, FileBudget)) =>
             /\ Len(FirstOf(before, FileBudget)) = FileBudget
             /\ \A y \in Range(FirstOf(before, FileBudget)) : <<y, x>> \in R
    BY <2>1, <2>2, <1>2, <1>7, <1>8, <1>10, FirstOfLemma, Zenon
  <2> QED
    BY <2>3, <1>3, Zenon
<1>12. Len(s) \in Nat /\ DOMAIN s = 1 .. Len(s) /\ \A i \in 1 .. Len(s) : s[i] \in S
  BY <1>11, LenProperties, ElementOfSeq
<1>13. Range(s) \subseteq S
  BY <1>12 DEF Range
<1>14. s \in Seq(RepoFiles)
  <2>1. s \in [1 .. Len(s) -> RepoFiles]
    BY <1>1, <1>11, <1>12, LenProperties
  <2> QED
    BY <2>1, <1>12, SeqDef
<1>15. ASSUME query # {}, NEW f \in files, query \subseteq TokensOf[f], f \in SourceFiles,
              f \notin Range(s)
       PROVE  /\ Len(s) = FileBudget
              /\ \A g \in Range(s) : query \subseteq TokensOf[g] /\ g \in SourceFiles
  <2>1. ScoreOf(f, query) > 0
    BY <1>15, FullScores
  <2>2. f \in S
    BY <1>4, <1>15, <2>1
  <2>3. Len(s) = FileBudget /\ \A g \in Range(s) : Precedes(g, f, query)
    BY <1>6, <1>11, <1>13, <1>15, <2>2
  <2>4. ASSUME NEW g \in Range(s) PROVE query \subseteq TokensOf[g] /\ g \in SourceFiles
    <3>1. g \in S /\ g \in RepoFiles /\ Precedes(g, f, query)
      BY <1>1, <1>13, <2>3
    <3>2. ScoreOf(g, query) >= ScoreOf(f, query)
      BY <1>5, <2>2, <3>1 DEF Precedes
    <3> QED
      BY <1>15, <3>1, <3>2, FullScores
  <2> QED
    BY <2>3, <2>4
<1> QED
  BY <1>1, <1>11, <1>13, <1>14, <1>15

\* Initially, and when a hook builds the context, nothing is told.
LEMMA NothingTold ==
  /\ \A m \in Nat : NoPrompt \in [n : 0 .. m, query : SUBSET Words,
                                  turns : Seq(Nat), files : Seq(RepoFiles)]
  /\ NoPrompt.n = 0 /\ NoPrompt.query = {}
  /\ Range(NoPrompt.turns) = {} /\ Len(NoPrompt.turns) = 0
  /\ Range(NoPrompt.files) = {} /\ Len(NoPrompt.files) = 0
<1>1. /\ NoPrompt.n = 0 /\ NoPrompt.query = {}
      /\ NoPrompt.turns = <<>> /\ NoPrompt.files = <<>>
  BY DEF NoPrompt
<1>2. /\ <<>> \in Seq(Nat) /\ <<>> \in Seq(RepoFiles) /\ Len(<<>>) = 0 /\ DOMAIN <<>> = {}
  BY EmptySeq
<1>3. Range(<<>>) = {}
  BY <1>2 DEF Range
<1>4. ASSUME NEW m \in Nat
      PROVE  NoPrompt \in [n : 0 .. m, query : SUBSET Words,
                           turns : Seq(Nat), files : Seq(RepoFiles)]
  <2>1. 0 \in 0 .. m /\ {} \in SUBSET Words
    OBVIOUS
  <2> QED
    BY <2>1, <1>2 DEF NoPrompt
<1> QED
  BY <1>1, <1>2, <1>3, <1>4

LEMMA RecallInitInv == ASSUME RecallInit PROVE RecallInv
<1>1. /\ recorded = <<>> /\ onDisk \subseteq RepoFiles /\ scanned = FALSE /\ indexed = {}
      /\ prompt = NoPrompt
  BY DEF RecallInit
<1>2. <<>> \in Seq(Texts) /\ Len(<<>>) = 0
  BY EmptySeq
<1>3. MaxRecorded \in Nat /\ TurnBudget \in Nat /\ FileBudget \in Nat
  BY RecallAssumption
<1>4. RecallTypeOK
  <2>1. recorded \in Seq(Texts) /\ Len(recorded) = 0
    BY <1>1, <1>2
  <2>2. prompt \in [n : 0 .. Len(recorded), query : SUBSET Words,
                    turns : Seq(Nat), files : Seq(RepoFiles)]
    BY <1>1, <2>1, NothingTold
  <2>3. /\ Range(prompt.turns) = {} /\ Len(prompt.turns) = 0
        /\ Range(prompt.files) = {} /\ Len(prompt.files) = 0
    BY <1>1, NothingTold
  <2> QED
    <3>1. /\ Range(prompt.turns) \subseteq 1 .. prompt.n /\ Len(prompt.turns) <= TurnBudget
          /\ Range(prompt.files) \subseteq indexed /\ Len(prompt.files) <= FileBudget
      BY <2>3, <1>3
    <3>2. Len(recorded) <= MaxRecorded
      BY <2>1, <1>3
    <3>3. scanned \in BOOLEAN /\ indexed \subseteq RepoFiles \ Skipped
      BY <1>1
    <3> QED
      BY <2>1, <2>2, <3>1, <3>2, <3>3, <1>1, Zenon DEF RecallTypeOK
<1>5. prompt.n = 0 /\ prompt.query = {}
  BY <1>1, NothingTold
<1>6. LatestOrBetter /\ NoGapInFallback /\ NewerOfEquals /\ FullMatchFirst
  BY <1>1, <1>5 DEF LatestOrBetter, NoGapInFallback, NewerOfEquals, FullMatchFirst
<1> QED
  BY <1>4, <1>6 DEF RecallInv

\* A turn more on the tape changes nothing of what was told before.
LEMMA RecordTurnInv ==
  ASSUME RecallInv, NEW text \in Texts, RecordTurn(text)
  PROVE  RecallInv'
<1> DEFINE N == Len(recorded)
<1>1. /\ N < MaxRecorded /\ recorded' = Append(recorded, text)
      /\ onDisk' = onDisk /\ scanned' = scanned /\ indexed' = indexed /\ prompt' = prompt
  BY DEF RecordTurn
<1>2. recorded \in Seq(Texts)
  BY DEF RecallInv, RecallTypeOK
<1>3. /\ N \in Nat /\ recorded' \in Seq(Texts) /\ Len(recorded') = N + 1
      /\ \A k \in 1 .. N : recorded'[k] = recorded[k]
  BY <1>1, <1>2, AppendProperties, LenProperties
<1>4. /\ prompt.n \in 0 .. N
      /\ prompt \in [n : 0 .. N, query : SUBSET Words, turns : Seq(Nat), files : Seq(RepoFiles)]
      /\ Range(prompt.turns) \subseteq 1 .. prompt.n
  BY DEF RecallInv, RecallTypeOK
<1>5. /\ \A k \in 1 .. prompt.n : recorded'[k] = recorded[k]
      /\ 0 .. N \subseteq 0 .. N + 1
  <2>1. \A m \in 0 .. N : 1 .. m \subseteq 1 .. N
    BY <1>3
  <2>2. 0 .. N \subseteq 0 .. N + 1
    BY <1>3
  <2> QED
    BY <2>1, <2>2, <1>3, <1>4, Zenon
<1>6. RecallTypeOK'
  <2>1. prompt' \in [n : 0 .. N + 1, query : SUBSET Words,
                     turns : Seq(Nat), files : Seq(RepoFiles)]
    BY <1>1, <1>4, <1>5
  <2>2. N + 1 <= MaxRecorded
    BY <1>1, <1>3, RecallAssumption
  <2> QED
    BY <2>1, <2>2, <1>1, <1>3 DEF RecallInv, RecallTypeOK
<1>7. LatestOrBetter' /\ NoGapInFallback'
  BY <1>1, <1>4, <1>5 DEF RecallInv, LatestOrBetter, NoGapInFallback
<1>8. NewerOfEquals'
  BY <1>1, <1>4, <1>5 DEF RecallInv, NewerOfEquals
<1>9. FullMatchFirst'
  BY <1>1 DEF RecallInv, FullMatchFirst
<1> QED
  BY <1>6, <1>7, <1>8, <1>9 DEF RecallInv

LEMMA ChangeFileInv ==
  ASSUME RecallInv, NEW f \in RepoFiles, ChangeFile(f)
  PROVE  RecallInv'
<1>1. /\ onDisk' \subseteq RepoFiles
      /\ recorded' = recorded /\ scanned' = scanned /\ indexed' = indexed /\ prompt' = prompt
  BY DEF ChangeFile, RecallInv, RecallTypeOK
<1> QED
  BY <1>1 DEF RecallInv, RecallTypeOK, LatestOrBetter, NoGapInFallback, NewerOfEquals,
              FullMatchFirst

LEMMA HookBuildsInv == ASSUME RecallInv, HookBuilds PROVE RecallInv'
<1>1. /\ prompt' = NoPrompt /\ recorded' = recorded /\ onDisk' = onDisk
      /\ scanned' = scanned /\ indexed' = indexed
  BY DEF HookBuilds
<1>2. NoPrompt' = NoPrompt
  BY DEF NoPrompt
<1>3. recorded' \in Seq(Texts) /\ Len(recorded) \in Nat
  BY <1>1, LenProperties DEF RecallInv, RecallTypeOK
<1>4. TurnBudget \in Nat /\ FileBudget \in Nat
  BY RecallAssumption
<1>5. RecallTypeOK'
  <2>1. prompt' \in [n : 0 .. Len(recorded'), query : SUBSET Words,
                     turns : Seq(Nat), files : Seq(RepoFiles)]
    BY <1>1, <1>3, NothingTold
  <2>2. /\ Range(prompt'.turns) = {} /\ Len(prompt'.turns) = 0
        /\ Range(prompt'.files) = {} /\ Len(prompt'.files) = 0
    BY <1>1, NothingTold
  <2> QED
    BY <2>1, <2>2, <1>1, <1>4 DEF RecallInv, RecallTypeOK
<1>6. prompt'.n = 0 /\ prompt'.query = {}
  BY <1>1, NothingTold
<1>7. LatestOrBetter' /\ NoGapInFallback' /\ NewerOfEquals' /\ FullMatchFirst'
  BY <1>1, <1>2, <1>6 DEF LatestOrBetter, NoGapInFallback, NewerOfEquals, FullMatchFirst
<1> QED
  BY <1>5, <1>7 DEF RecallInv

\* What a call is told of turns and files is what was selected and found for its query.
LEMMA BuildContextInv ==
  ASSUME RecallInv, NEW query \in SUBSET Words, BuildContext(query)
  PROVE  RecallInv'
<1> DEFINE N == Len(recorded)
           s == selectRelevantTurns(query)
           t == search(indexed', query)
<1>1. /\ scanned' = TRUE /\ indexed' = IF scanned THEN indexed ELSE onDisk \ Skipped
      /\ prompt' = [n |-> N, query |-> query, turns |-> s, files |-> t]
      /\ recorded' = recorded /\ onDisk' = onDisk
  BY DEF BuildContext
<1>2. recorded \in Seq(Texts) /\ N \in Nat /\ indexed' \subseteq RepoFiles \ Skipped
  BY <1>1, LenProperties DEF RecallInv, RecallTypeOK
<1>3. /\ s \in Seq(1 .. N) /\ Len(s) <= TurnBudget /\ Range(s) \subseteq 1 .. N
      /\ N > 0 /\ N \notin Range(s) =>
           Len(s) = TurnBudget /\ \A k \in Range(s) : recorded[k] \cap query # {}
      /\ (\A k \in 1 .. N : recorded[k] \cap query = {}) => Range(s) = (N - Len(s) + 1) .. N
      /\ \A j, k \in 1 .. N :
           j < k /\ recorded[j] = recorded[k] /\ j \in Range(s) => k \in Range(s)
  BY <1>2, TurnsLemma
<1>4. /\ t \in Seq(RepoFiles) /\ Len(t) <= FileBudget /\ Range(t) \subseteq indexed'
      /\ query # {} =>
           \A f \in indexed' :
             (query \subseteq TokensOf[f] /\ f \in SourceFiles) /\ f \notin Range(t) =>
               /\ Len(t) = FileBudget
               /\ \A g \in Range(t) : query \subseteq TokensOf[g] /\ g \in SourceFiles
  <2>1. indexed' \in SUBSET RepoFiles
    BY <1>2
  <2> QED
    BY <2>1, FilesLemma
<1> HIDE DEF s, t
<1>5. prompt'.n = N /\ prompt'.query = query /\ prompt'.turns = s /\ prompt'.files = t
  BY <1>1
<1>6. RecallTypeOK'
  <2>1. s \in Seq(Nat)
    <3>1. Len(s) \in Nat /\ s \in [1 .. Len(s) -> 1 .. N]
      BY <1>3, LenProperties
    <3>2. 1 .. N \subseteq Nat
      BY <1>2
    <3>3. s \in [1 .. Len(s) -> Nat]
      BY <3>1, <3>2
    <3> QED
      BY <3>1, <3>3, ListLemma
  <2>2. N \in 0 .. N
    BY <1>2
  <2>3. prompt' \in [n : 0 .. N, query : SUBSET Words, turns : Seq(Nat), files : Seq(RepoFiles)]
    BY <2>1, <2>2, <1>1, <1>4
  <2> QED
    BY <2>3, <1>1, <1>2, <1>3, <1>4, <1>5 DEF RecallInv, RecallTypeOK
<1>7. LatestOrBetter'
  BY <1>1, <1>3, <1>5 DEF LatestOrBetter
<1>8. NoGapInFallback'
  BY <1>1, <1>3, <1>5 DEF NoGapInFallback
<1>9. NewerOfEquals'
  BY <1>1, <1>3, <1>5 DEF NewerOfEquals
<1>10. FullMatchFirst'
  <2>1. TokensOf' = TokensOf /\ SourceFiles' = SourceFiles /\ FileBudget' = FileBudget
    OBVIOUS
  <2> QED
    BY <1>4, <1>5 DEF FullMatchFirst
<1> QED
  BY <1>6, <1>7, <1>8, <1>9, <1>10 DEF RecallInv

\* A call is reminded of the right turns and files, whatever was recorded and asked.
THEOREM RightRecall == RecallSpec => []RecallInv
<1>1. ASSUME RecallInv, [RecallNext]_recallVars PROVE RecallInv'
  <2>1. CASE UNCHANGED recallVars
    BY <1>1, <2>1 DEF recallVars, RecallInv, RecallTypeOK, LatestOrBetter, NoGapInFallback,
                      NewerOfEquals, FullMatchFirst
  <2>2. CASE RecallNext
    BY <1>1, <2>2, RecordTurnInv, BuildContextInv, ChangeFileInv, HookBuildsInv DEF RecallNext
  <2> QED
    BY <1>1, <2>1, <2>2
<1>2. QED
  BY <1>1, RecallInitInv, PTL DEF RecallSpec
-----------------------------------------------------------------------------
\* A page lists the lines of a set once each, in order.
LEMMA PageLemma ==
  ASSUME NEW N \in Nat, NEW S \in SUBSET (1 .. N)
  PROVE  /\ Page(S) \in Seq(S) /\ Range(Page(S)) = S
         /\ \A i, j \in 1 .. Len(Page(S)) : i < j => Page(S)[i] < Page(S)[j]
<1> DEFINE R == {p \in S \X S : p[1] < p[2]}
           rank == [x \in S |-> Cardinality({y \in S : y < x})]
           s == Page(S)
           F(i) == CHOOSE x \in S : Cardinality({y \in S : y < x}) = i - 1
           n == Cardinality(S)
<1>1. IsFiniteSet(1 .. N)
  BY FS_Interval
<1>2. IsFiniteSet(S) /\ n \in Nat
  BY <1>1, FS_Subset, FS_CardinalityType
<1>3. \A x \in S : x \in Int
  OBVIOUS
<1>4. R \in SUBSET (S \X S) /\ \A x, y \in S : <<x, y>> \in R <=> x < y
  OBVIOUS
<1>5. s = [i \in 1 .. n |-> F(i)]
  BY Zenon DEF Page
<1> HIDE DEF R, n
<1>6. /\ \A x \in S : <<x, x>> \notin R
      /\ \A x, y, z \in S : <<x, y>> \in R /\ <<y, z>> \in R => <<x, z>> \in R
      /\ \A x, y \in S : x # y => <<x, y>> \in R \/ <<y, x>> \in R
  BY <1>3, <1>4
<1>7. ASSUME NEW x \in S
      PROVE  rank[x] \in Int /\ rank[x] = Cardinality({y \in S : <<y, x>> \in R})
  <2> DEFINE A == {y \in S : y < x}
  <2>1. A \in SUBSET S /\ A = {y \in S : <<y, x>> \in R}
    BY <1>4
  <2>2. rank[x] = Cardinality(A)
    OBVIOUS
  <2> HIDE DEF A, rank
  <2>3. IsFiniteSet(A)
    BY <2>1, <1>2, FS_Subset
  <2>4. Cardinality(A) \in Int
    BY <2>3, FS_CardinalityType
  <2> QED
    BY <2>1, <2>2, <2>4
<1>8. rank \in [S -> Int] /\ \A x \in S : rank[x] = Cardinality({y \in S : y < x})
  BY <1>7
<1> HIDE DEF rank
<1>9. /\ rank \in Bijection(S, 0 .. n - 1)
      /\ \A x, y \in S : <<x, y>> \in R <=> rank[x] < rank[y]
  <2>1. /\ rank \in Bijection(S, 0 .. Cardinality(S) - 1)
        /\ \A x, y \in S : <<x, y>> \in R <=> rank[x] < rank[y]
    BY <1>2, <1>4, <1>6, <1>7, <1>8, Ranking
  <2> QED
    BY <2>1 DEF n
<1>10. /\ \A x \in S : rank[x] \in 0 .. n - 1
       /\ \A k \in 0 .. n - 1 : \E x \in S : rank[x] = k
       /\ \A x, y \in S : rank[x] = rank[y] => x = y
  BY <1>9 DEF Bijection, Injection, IsInjective, Surjection
<1> HIDE DEF s, F
<1>11. ASSUME NEW i \in 1 .. n PROVE s[i] \in S /\ rank[s[i]] = i - 1
  <2>1. s[i] = CHOOSE x \in S : Cardinality({y \in S : y < x}) = i - 1
    BY <1>5 DEF F
  <2>2. i - 1 \in 0 .. n - 1
    BY <1>2
  <2>3. \E x \in S : Cardinality({y \in S : y < x}) = i - 1
    BY <2>2, <1>8, <1>10
  <2> QED
    BY <2>1, <2>3, <1>8
<1>12. s \in [1 .. n -> S]
  <2>1. s = [i \in 1 .. n |-> s[i]]
    BY <1>5
  <2> QED
    BY <2>1, <1>11
<1>13. s \in Seq(S) /\ Len(s) = n /\ DOMAIN s = 1 .. n
  <2>1. s \in Seq(S)
    BY <1>2, <1>12, ListLemma
  <2>2. Len(s) \in Nat /\ DOMAIN s = 1 .. Len(s) /\ DOMAIN s = 1 .. n
    BY <2>1, <1>12, LenProperties
  <2>3. \A k, m \in Nat : 1 .. k = 1 .. m => k = m
    OBVIOUS
  <2> QED
    BY <2>1, <2>2, <2>3, <1>2
<1>14. \A i, j \in 1 .. n : i < j => s[i] < s[j]
  <2> TAKE i, j \in 1 .. n
  <2> HAVE i < j
  <2>1. rank[s[i]] < rank[s[j]] /\ s[i] \in S /\ s[j] \in S
    BY <1>2, <1>11
  <2> QED
    BY <2>1, <1>4, <1>9
<1>15. ASSUME NEW x \in S PROVE \E i \in 1 .. n : s[i] = x
  <2>1. rank[x] + 1 \in 1 .. n /\ (rank[x] + 1) - 1 = rank[x]
    BY <1>2, <1>10
  <2>2. s[rank[x] + 1] \in S /\ rank[s[rank[x] + 1]] = rank[x]
    BY <2>1, <1>11
  <2> QED
    BY <2>1, <2>2, <1>10
<1>16. Range(s) = S
  <2>1. \A i \in 1 .. n : s[i] \in S
    BY <1>11
  <2>2. Range(s) = {s[i] : i \in 1 .. n}
    BY <1>13 DEF Range
  <2> QED
    BY <2>1, <2>2, <1>15
<1> QED
  BY <1>13, <1>14, <1>16 DEF s

\* The bytes of a stretch of lines are a sum, built up from its front.
LEMMA BytesLemma ==
  ASSUME lines \in Seq(Nat), NEW first \in 1 .. Len(lines)
  PROVE  /\ \A e \in first - 1 .. Len(lines) : Bytes(first, e) \in Nat
         /\ Bytes(first, first - 1) = 0
         /\ Bytes(first, first) = lines[first]
<1> DEFINE N == Len(lines)
           Sum(g, n) ==
             /\ g \in [first - 1 .. n -> Nat]
             /\ \A i \in first - 1 .. n : g[i] = IF i < first THEN 0 ELSE g[i - 1] + lines[i]
           Bad == {n \in 1 .. N : n >= first /\ ~ \E g : Sum(g, n)}
<1>1. N \in Nat /\ first \in Nat /\ first >= 1 /\ first <= N
      /\ \A i \in 1 .. N : lines[i] \in Nat
  BY LenProperties, ElementOfSeq
<1>2. \E g : Sum(g, first)
  <2> DEFINE g == [i \in first - 1 .. first |-> IF i < first THEN 0 ELSE lines[i]]
  <2>1. lines[first] \in Nat
    BY <1>1
  <2>2. Sum(g, first)
    <3>1. g \in [first - 1 .. first -> Nat]
      BY <2>1, <1>1
    <3>2. ASSUME NEW i \in first - 1 .. first
          PROVE  g[i] = IF i < first THEN 0 ELSE g[i - 1] + lines[i]
      <4>1. i = first - 1 \/ i = first
        BY <1>1
      <4>2. g[first - 1] = 0
        BY <1>1
      <4> QED
        BY <4>1, <4>2, <2>1, <1>1
    <3> QED
      BY <3>1, <3>2
  <2> QED
    BY <2>2
<1>3. \A n \in 1 .. N : n >= first => \E g : Sum(g, n)
  <2> SUFFICES ASSUME Bad # {} PROVE FALSE
    OBVIOUS
  <2>1. Bad \in SUBSET (1 .. N)
    OBVIOUS
  <2>2. PICK n \in Bad : \A m \in Bad : n <= m
    <3> HIDE DEF Bad, N
    <3> QED
      BY <2>1, <1>1, LowestOf
  <2>3. n \in 1 .. N /\ n >= first /\ ~ \E g : Sum(g, n)
    OBVIOUS
  <2>4. n > first
    BY <2>3, <1>1, <1>2
  <2>5. n - 1 \in 1 .. N /\ n - 1 >= first /\ n - 1 \notin Bad
    <3>1. n - 1 \in 1 .. N /\ n - 1 >= first
      BY <2>3, <2>4, <1>1
    <3>2. n - 1 \notin Bad
      <4>1. ~(n <= n - 1)
        BY <2>3, <1>1
      <4> HIDE DEF Bad
      <4> QED
        BY <4>1, <2>2
    <3> QED
      BY <3>1, <3>2
  <2>6. PICK h : Sum(h, n - 1)
    BY <2>5
  <2> DEFINE g == [i \in first - 1 .. n |-> IF i = n THEN h[n - 1] + lines[n] ELSE h[i]]
  <2>7. h \in [first - 1 .. n - 1 -> Nat] /\ h[n - 1] \in Nat /\ lines[n] \in Nat
    BY <2>3, <2>4, <2>6, <1>1
  <2>8. g \in [first - 1 .. n -> Nat]
    <3>1. \A i \in first - 1 .. n : i = n \/ i \in first - 1 .. n - 1
      BY <2>3, <1>1
    <3> QED
      BY <3>1, <2>7
  <2>9. ASSUME NEW i \in first - 1 .. n
        PROVE  g[i] = IF i < first THEN 0 ELSE g[i - 1] + lines[i]
    <3>1. CASE i = n
      <4>1. ~(i < first) /\ i - 1 # n /\ i - 1 \in first - 1 .. n
        BY <3>1, <2>3, <2>4, <1>1
      <4> QED
        BY <3>1, <4>1
    <3>2. CASE i # n
      <4>1. i \in first - 1 .. n - 1 /\ i - 1 # n
            /\ (~(i < first) => i - 1 \in first - 1 .. n /\ i - 1 \in first - 1 .. n - 1)
        BY <3>2, <2>3, <1>1
      <4>2. h[i] = IF i < first THEN 0 ELSE h[i - 1] + lines[i]
        BY <4>1, <2>6
      <4>3. g[i] = h[i] /\ (~(i < first) => g[i - 1] = h[i - 1])
        BY <3>2, <4>1
      <4> QED
        BY <4>2, <4>3
    <3> QED
      BY <3>1, <3>2
  <2>10. Sum(g, n)
    BY <2>8, <2>9
  <2> QED
    BY <2>3, <2>10
<1> DEFINE sum == CHOOSE g : g = [i \in first - 1 .. N |->
                                   IF i < first THEN 0 ELSE g[i - 1] + lines[i]]
<1>4. sum = [i \in first - 1 .. N |-> IF i < first THEN 0 ELSE sum[i - 1] + lines[i]]
  <2>1. N \in 1 .. N /\ N >= first
    BY <1>1
  <2>2. PICK g : Sum(g, N)
    BY <2>1, <1>3
  <2>3. g = [i \in first - 1 .. N |-> IF i < first THEN 0 ELSE g[i - 1] + lines[i]]
    BY <2>2
  <2> QED
    BY <2>3
<1> HIDE DEF sum
<1>5. /\ sum[first - 1] = 0
      /\ \A i \in first .. N : sum[i] = sum[i - 1] + lines[i] /\ lines[i] \in Nat
  <2>1. first - 1 \in first - 1 .. N /\ first - 1 < first
        /\ \A i \in first .. N : i \in first - 1 .. N /\ ~(i < first) /\ i \in 1 .. N
    BY <1>1
  <2>2. \A i \in first - 1 .. N : sum[i] = IF i < first THEN 0 ELSE sum[i - 1] + lines[i]
    BY <1>4
  <2> HIDE DEF N
  <2> QED
    BY <1>1, <2>1, <2>2
<1>6. \A i \in first .. N : sum[i] \in Nat
  <2> DEFINE Off == {i \in 1 .. N : i >= first /\ sum[i] \notin Nat}
  <2> SUFFICES ASSUME Off # {} PROVE FALSE
    BY <1>1
  <2>1. Off \in SUBSET (1 .. N)
    OBVIOUS
  <2>2. PICK i \in Off : \A m \in Off : i <= m
    <3> HIDE DEF Off, N
    <3> QED
      BY <2>1, <1>1, LowestOf
  <2>3. i \in first .. N /\ sum[i] \notin Nat
    BY <1>1
  <2>4. sum[i - 1] \in Nat
    <3>1. CASE i = first
      BY <3>1, <1>5
    <3>2. CASE i # first
      <4>1. i - 1 \in 1 .. N /\ i - 1 >= first /\ ~(i <= i - 1)
        BY <2>3, <3>2, <1>1
      <4>2. i - 1 \notin Off
        <5> HIDE DEF Off
        <5> QED
          BY <4>1, <2>2
      <4> QED
        BY <4>1, <4>2
    <3> QED
      BY <3>1, <3>2
  <2> QED
    <3>1. sum[i] = sum[i - 1] + lines[i] /\ lines[i] \in Nat
      BY <2>3, <1>5
    <3> QED
      BY <2>3, <2>4, <3>1
<1>7. \A e \in first - 1 .. N : Bytes(first, e) = sum[e]
  BY Zenon DEF Bytes, sum
<1>8. \A e \in first - 1 .. N : e = first - 1 \/ e \in first .. N
  BY <1>1
<1>9. first - 1 \in first - 1 .. N /\ first \in first - 1 .. N /\ first \in first .. N
  BY <1>1
<1>10. sum[first] = lines[first]
  BY <1>5, <1>9
<1> QED
  BY <1>5, <1>6, <1>7, <1>8, <1>9, <1>10

\* A command that waits has attempts left.
AttemptsInv ==
  /\ command = "ready" => attempt = 0
  /\ command = "waiting" => attempt < MaxAttempts

ToolsIInv == ToolsInv /\ AttemptsInv
-----------------------------------------------------------------------------
\* The constants of the tools are numbers, and so are what they are applied to.
LEMMA ToolsTypes ==
  ASSUME ToolsIInv
  PROVE  /\ MaxReadLines \in Nat /\ MaxReadLines > 0 /\ HeadLimit \in Nat /\ HeadLimit > 0
         /\ MaxAttempts \in Nat /\ MaxAttempts > 0
         /\ MaxReadBytes \in Nat /\ MaxLines \in Nat
         /\ lines \in Seq(Nat) /\ Len(lines) \in Nat /\ Len(lines) <= MaxLines
         /\ offset \in Nat /\ offset > 0
         /\ \A i \in 1 .. Len(lines) : lines[i] \in Nat
<1>1. {MaxReadLines, HeadLimit, MaxAttempts} \subseteq Nat \ {0}
      /\ MaxReadBytes \in Nat /\ MaxLines \in Nat
  BY ToolsAssumption
<1>2. lines \in Seq(Nat) /\ Len(lines) <= MaxLines /\ offset \in Nat \ {0}
  BY DEF ToolsIInv, ToolsInv, ToolsTypeOK
<1> QED
  BY <1>1, <1>2, LenProperties, ElementOfSeq

\* The cut leaves whole lines of the slice, and none only if the first does not fit a page.
LEMMA CutLemma ==
  ASSUME ToolsIInv, offset <= Len(lines)
  PROVE  /\ SliceEnd \in offset .. Len(lines) /\ CutEnd \in offset - 1 .. SliceEnd
         /\ CutEnd < offset => lines[offset] > MaxReadBytes
<1> DEFINE N == Len(lines)
<1>1. /\ N \in Nat /\ offset \in 1 .. N /\ lines \in Seq(Nat) /\ MaxReadBytes \in Nat
      /\ MaxReadLines \in Nat /\ MaxReadLines > 0
  BY ToolsTypes
<1>2. SliceEnd \in offset .. N
  BY <1>1 DEF SliceEnd, Smaller
<1>3. /\ \A e \in offset - 1 .. N : Bytes(offset, e) \in Nat
      /\ Bytes(offset, offset - 1) = 0 /\ Bytes(offset, offset) = lines[offset]
  BY <1>1, BytesLemma
<1>4. CASE Bytes(offset, SliceEnd) - 1 <= MaxReadBytes
  <2>1. CutEnd = SliceEnd
    BY <1>4 DEF CutEnd
  <2>2. SliceEnd \in offset - 1 .. SliceEnd /\ ~(SliceEnd < offset)
    BY <1>1, <1>2
  <2> QED
    BY <2>1, <2>2, <1>2
<1>5. CASE ~(Bytes(offset, SliceEnd) - 1 <= MaxReadBytes)
  <2> DEFINE B == {e \in offset .. SliceEnd : Bytes(offset, e) > MaxReadBytes}
  <2>1. B \in SUBSET (1 .. N)
    BY <1>1, <1>2
  <2>2. SliceEnd \in B
    <3>1. SliceEnd \in offset - 1 .. N /\ SliceEnd \in offset .. SliceEnd
      BY <1>1, <1>2
    <3>2. Bytes(offset, SliceEnd) \in Nat
      BY <3>1, <1>3
    <3> QED
      BY <3>1, <3>2, <1>1, <1>5
  <2>3. PICK m \in B : \A e \in B : m <= e
    <3> HIDE DEF B, N
    <3> QED
      BY <2>1, <2>2, <1>1, LowestOf
  <2>4. m \in offset .. SliceEnd /\ Bytes(offset, m) > MaxReadBytes
    OBVIOUS
  <2>5. m - 1 \in offset - 1 .. SliceEnd /\ m - 1 + 1 = m
    BY <2>4, <1>1, <1>2
  <2>6. Bytes(offset, m - 1) <= MaxReadBytes
    <3>1. CASE m = offset
      BY <3>1, <1>1, <1>3
    <3>2. CASE m # offset
      <4>1. m - 1 \in offset .. SliceEnd /\ m - 1 \in offset - 1 .. N /\ ~(m <= m - 1)
        BY <2>4, <3>2, <1>1, <1>2
      <4>2. m - 1 \notin B
        <5> HIDE DEF B
        <5> QED
          BY <4>1, <2>3
      <4>3. ~(Bytes(offset, m - 1) > MaxReadBytes) /\ Bytes(offset, m - 1) \in Nat
        BY <4>1, <4>2, <1>3
      <4> QED
        BY <4>3, <1>1
    <3> QED
      BY <3>1, <3>2
  <2>7. \E e \in offset - 1 .. SliceEnd : MayEnd(e)
    BY <2>4, <2>5, <2>6 DEF MayEnd
  <2>8. CutEnd = CHOOSE e \in offset - 1 .. SliceEnd : MayEnd(e)
    BY <1>5 DEF CutEnd
  <2>9. CutEnd \in offset - 1 .. SliceEnd /\ MayEnd(CutEnd)
    BY <2>7, <2>8
  <2>10. ASSUME CutEnd < offset PROVE lines[offset] > MaxReadBytes
    <3>1. CutEnd = offset - 1 /\ CutEnd < SliceEnd /\ CutEnd + 1 = offset
      BY <2>9, <2>10, <1>1, <1>2
    <3> QED
      BY <3>1, <2>9, <1>3 DEF MayEnd
  <2> QED
    BY <2>9, <2>10, <1>2
<1> QED
  BY <1>4, <1>5

\* Initially.
LEMMA ToolsInitInv == ASSUME ToolsInit PROVE ToolsIInv
<1>1. PICK n \in 0 .. MaxLines :
        lines \in [1 .. n -> IF tool = "grep" THEN {0, 1}
                             ELSE IF tool = "file_read" THEN Sizes ELSE {1}]
  BY DEF ToolsInit
<1>2. /\ tool \in {"file_read", "grep", "bash"} /\ offset = 1 /\ shown = <<>>
      /\ attempt = 0 /\ command = "ready"
  BY DEF ToolsInit
<1>3. MaxLines \in Nat /\ MaxAttempts \in Nat /\ Sizes \subseteq Nat
  BY ToolsAssumption
<1>4. lines \in Seq(Nat) /\ Len(lines) = n /\ n \in Nat
  <2>1. n \in Nat
    BY <1>3
  <2>2. lines \in [1 .. n -> Nat]
    <3>1. (IF tool = "grep" THEN {0, 1} ELSE IF tool = "file_read" THEN Sizes ELSE {1})
            \subseteq Nat
      BY <1>3
    <3> QED
      BY <1>1, <3>1
  <2>3. lines \in Seq(Nat)
    BY <2>1, <2>2, ListLemma
  <2>4. Len(lines) \in Nat /\ DOMAIN lines = 1 .. Len(lines) /\ DOMAIN lines = 1 .. n
    BY <2>2, <2>3, LenProperties
  <2>5. \A k, m \in Nat : 1 .. k = 1 .. m => k = m
    OBVIOUS
  <2> QED
    BY <2>1, <2>3, <2>4, <2>5
<1>5. <<>> \in Seq(1 .. MaxLines) /\ DOMAIN <<>> = {}
  BY EmptySeq
<1>6. Range(<<>>) = {}
  BY <1>5 DEF Range
<1>7. ToolsTypeOK
  <2>1. n <= MaxLines /\ 0 \in 0 .. MaxAttempts
    BY <1>3
  <2> QED
    BY <2>1, <1>2, <1>4, <1>5 DEF ToolsTypeOK
<1>8. PagedOnce
  <2>1. 1 .. Smaller(offset - 1, Len(lines)) = {}
    BY <1>2, <1>4 DEF Smaller
  <2> QED
    BY <2>1, <1>2, <1>5, <1>6 DEF PagedOnce
<1> QED
  BY <1>2, <1>7, <1>8 DEF ToolsIInv, ToolsInv, AttemptsInv

\* A page that shows the lines it should of the stretch from the offset to the next keeps
\* what was shown in order and complete.
LEMMA PageInv ==
  ASSUME ToolsIInv, offset <= Len(lines), NEW next \in Nat, offset < next,
         NEW S \in SUBSET (offset .. Smaller(next - 1, Len(lines))),
         \A i \in offset .. Smaller(next - 1, Len(lines)) : Showable(i) => i \in S,
         tool = "grep" => \A i \in S : lines[i] > 0,
         shown' = shown \o Page(S), offset' = next, lines' = lines, tool' = tool,
         attempt' = attempt, command' = command
  PROVE  ToolsIInv'
<1> DEFINE N == Len(lines)
           past == 1 .. Smaller(offset - 1, N)
           done == 1 .. Smaller(next - 1, N)
           page == Page(S)
<1>1. N \in Nat /\ N <= MaxLines /\ MaxLines \in Nat /\ offset \in 1 .. N /\ lines \in Seq(Nat)
  BY ToolsTypes
<1>2. /\ Smaller(offset - 1, N) = offset - 1
      /\ Smaller(next - 1, N) \in offset .. N
  BY <1>1 DEF Smaller
<1>3. /\ past = 1 .. offset - 1 /\ \A i \in past : i \in done
      /\ \A i \in offset .. Smaller(next - 1, N) : i \in done /\ i \in 1 .. N
      /\ \A i \in done : i \in past \/ i \in offset .. Smaller(next - 1, N)
      /\ done \subseteq 1 .. N
      /\ \A i \in past, j \in offset .. Smaller(next - 1, N) : i < j
  BY <1>1, <1>2
<1>4. /\ shown \in Seq(1 .. MaxLines)
      /\ \A i, j \in DOMAIN shown : i < j => shown[i] < shown[j]
      /\ Range(shown) \subseteq past
      /\ \A i \in past : Showable(i) => i \in Range(shown)
      /\ tool = "grep" => \A i \in Range(shown) : lines[i] > 0
  BY DEF ToolsIInv, ToolsInv, ToolsTypeOK, PagedOnce
<1>5. S \in SUBSET (1 .. N)
  BY <1>3
<1> HIDE DEF past, done
<1>6. /\ page \in Seq(S) /\ Range(page) = S
      /\ \A i, j \in 1 .. Len(page) : i < j => page[i] < page[j]
  BY <1>1, <1>5, PageLemma
<1> HIDE DEF page
<1>7. /\ Len(shown) \in Nat /\ DOMAIN shown = 1 .. Len(shown)
      /\ Len(page) \in Nat /\ DOMAIN page = 1 .. Len(page)
      /\ page \in Seq(1 .. MaxLines)
  <2>1. Len(page) \in Nat /\ DOMAIN page = 1 .. Len(page) /\ page \in [1 .. Len(page) -> S]
    BY <1>6, LenProperties
  <2>2. S \subseteq 1 .. MaxLines
    BY <1>1, <1>5
  <2>3. page \in [1 .. Len(page) -> 1 .. MaxLines]
    BY <2>1, <2>2
  <2>4. page \in Seq(1 .. MaxLines)
    BY <2>1, <2>3, ListLemma
  <2> QED
    BY <2>1, <2>4, <1>4, LenProperties
<1>8. /\ shown' \in Seq(1 .. MaxLines)
      /\ Len(shown') = Len(shown) + Len(page)
      /\ \A i \in 1 .. Len(shown) + Len(page) :
           shown'[i] = IF i <= Len(shown) THEN shown[i] ELSE page[i - Len(shown)]
  <2>1. shown' = shown \o page
    BY DEF page
  <2> QED
    BY <2>1, <1>4, <1>7, ConcatProperties
<1>9. DOMAIN shown' = 1 .. Len(shown) + Len(page)
  BY <1>7, <1>8, LenProperties
<1>10. Range(shown') = Range(shown) \cup S
  <2>1. ASSUME NEW x \in Range(shown') PROVE x \in Range(shown) \cup S
    <3>1. PICK i \in 1 .. Len(shown) + Len(page) : x = shown'[i]
      BY <1>9 DEF Range
    <3>2. CASE i <= Len(shown)
      <4>1. i \in DOMAIN shown /\ x = shown[i]
        BY <3>1, <3>2, <1>7, <1>8
      <4> QED
        BY <4>1 DEF Range
    <3>3. CASE ~(i <= Len(shown))
      <4>1. i - Len(shown) \in DOMAIN page /\ x = page[i - Len(shown)]
        BY <3>1, <3>3, <1>7, <1>8
      <4> QED
        BY <4>1, <1>6 DEF Range
    <3> QED
      BY <3>2, <3>3
  <2>2. ASSUME NEW x \in Range(shown) PROVE x \in Range(shown')
    <3>1. PICK i \in 1 .. Len(shown) : x = shown[i]
      BY <1>7 DEF Range
    <3>2. i \in 1 .. Len(shown) + Len(page) /\ i <= Len(shown)
      BY <1>7
    <3> QED
      BY <3>1, <3>2, <1>8, <1>9 DEF Range
  <2>3. ASSUME NEW x \in S PROVE x \in Range(shown')
    <3>1. PICK i \in 1 .. Len(page) : x = page[i]
      BY <1>6, <1>7 DEF Range
    <3>2. /\ Len(shown) + i \in 1 .. Len(shown) + Len(page)
          /\ ~(Len(shown) + i <= Len(shown)) /\ (Len(shown) + i) - Len(shown) = i
      BY <1>7
    <3>3. shown'[Len(shown) + i] = x
      BY <3>1, <3>2, <1>8
    <3> QED
      BY <3>2, <3>3, <1>9 DEF Range
  <2> QED
    BY <2>1, <2>2, <2>3
<1>11. \A i, j \in DOMAIN shown' : i < j => shown'[i] < shown'[j]
  <2> SUFFICES ASSUME NEW i \in 1 .. Len(shown) + Len(page),
                      NEW j \in 1 .. Len(shown) + Len(page), i < j
               PROVE  shown'[i] < shown'[j]
    BY <1>9
  <2>1. CASE j <= Len(shown)
    <3>1. i <= Len(shown) /\ i \in DOMAIN shown /\ j \in DOMAIN shown
      BY <2>1, <1>7
    <3> QED
      BY <3>1, <2>1, <1>4, <1>8
  <2>2. CASE ~(i <= Len(shown))
    <3>1. /\ ~(j <= Len(shown)) /\ i - Len(shown) < j - Len(shown)
          /\ i - Len(shown) \in 1 .. Len(page) /\ j - Len(shown) \in 1 .. Len(page)
      BY <2>2, <1>7
    <3> QED
      BY <3>1, <2>2, <1>6, <1>8
  <2>3. CASE i <= Len(shown) /\ ~(j <= Len(shown))
    <3>1. i \in DOMAIN shown /\ j - Len(shown) \in DOMAIN page
      BY <2>3, <1>7
    <3>2. shown[i] \in past /\ page[j - Len(shown)] \in S
      BY <3>1, <1>4, <1>6 DEF Range
    <3>3. shown[i] < page[j - Len(shown)]
      BY <3>2, <1>3
    <3> QED
      BY <3>3, <2>3, <1>8
  <2> QED
    BY <2>1, <2>2, <2>3
<1>12. PagedOnce'
  <2>1. Range(shown') \subseteq done
    BY <1>3, <1>4, <1>10
  <2>2. \A i \in done : Showable(i) => i \in Range(shown')
    BY <1>3, <1>4, <1>10
  <2>3. tool = "grep" => \A i \in Range(shown') : lines[i] > 0
    BY <1>4, <1>10
  <2>4. \A i \in done : Showable(i)' = Showable(i)
    BY DEF Showable
  <2> QED
    BY <2>1, <2>2, <2>3, <2>4, <1>11 DEF PagedOnce, done
<1>13. ToolsTypeOK'
  BY <1>8 DEF ToolsIInv, ToolsInv, ToolsTypeOK
<1>14. AttemptsInv'
  BY DEF ToolsIInv, AttemptsInv
<1> QED
  BY <1>12, <1>13, <1>14 DEF ToolsIInv, ToolsInv

\* file_read: the next offset is the one after the last line shown, or after the one line
\* that does not fit a page.
LEMMA ReadPageInv == ASSUME ToolsIInv, ReadPage PROVE ToolsIInv'
<1> DEFINE N == Len(lines)
           next == offset + Displayed
           S == offset .. CutEnd
<1>1. /\ tool = "file_read" /\ offset <= N /\ shown' = shown \o Page(S) /\ offset' = next
      /\ tool' = tool /\ lines' = lines /\ attempt' = attempt /\ command' = command
  BY DEF ReadPage
<1>2. /\ SliceEnd \in offset .. N /\ CutEnd \in offset - 1 .. SliceEnd
      /\ CutEnd < offset => lines[offset] > MaxReadBytes
  BY <1>1, CutLemma
<1>3. /\ N \in Nat /\ offset \in 1 .. N /\ MaxReadBytes \in Nat
      /\ \A i \in 1 .. N : lines[i] \in Nat
  BY <1>1, ToolsTypes
<1>4. CASE CutEnd < offset
  <2>1. next = offset + 1 /\ S = {}
    BY <1>2, <1>3, <1>4 DEF Displayed
  <2>2. offset .. Smaller(next - 1, N) = {offset}
    BY <2>1, <1>3 DEF Smaller
  <2>3. ~Showable(offset)
    BY <1>1, <1>2, <1>3, <1>4 DEF Showable
  <2>4. /\ next \in Nat /\ offset < next
        /\ S \in SUBSET (offset .. Smaller(next - 1, N))
        /\ \A i \in offset .. Smaller(next - 1, N) : Showable(i) => i \in S
        /\ tool = "grep" => \A i \in S : lines[i] > 0
    BY <2>1, <2>2, <2>3, <1>1, <1>3
  <2> HIDE DEF next, S
  <2> QED
    BY <2>4, <1>1, PageInv
<1>5. CASE ~(CutEnd < offset)
  <2>1. next = CutEnd + 1 /\ CutEnd \in offset .. N
    BY <1>2, <1>3, <1>5 DEF Displayed
  <2>2. Smaller(next - 1, N) = CutEnd
    BY <2>1, <1>3 DEF Smaller
  <2>3. /\ next \in Nat /\ offset < next
        /\ S \in SUBSET (offset .. Smaller(next - 1, N))
        /\ \A i \in offset .. Smaller(next - 1, N) : Showable(i) => i \in S
        /\ tool = "grep" => \A i \in S : lines[i] > 0
    BY <2>1, <2>2, <1>1, <1>3
  <2> HIDE DEF next, S
  <2> QED
    BY <2>3, <1>1, PageInv
<1> QED
  BY <1>4, <1>5

\* grep: the results that are taken out of a page count for its offset.
LEMMA GrepPageInv == ASSUME ToolsIInv, GrepPage PROVE ToolsIInv'
<1> DEFINE N == Len(lines)
           next == offset + HeadLimit
           S == {i \in offset .. Smaller(offset - 1 + HeadLimit, N) : lines[i] > 0}
<1>1. /\ tool = "grep" /\ offset <= N /\ shown' = shown \o Page(S) /\ offset' = next
      /\ tool' = tool /\ lines' = lines /\ attempt' = attempt /\ command' = command
  BY DEF GrepPage
<1>2. offset \in Nat /\ HeadLimit \in Nat /\ HeadLimit > 0
  BY ToolsTypes
<1>3. next \in Nat /\ offset < next /\ offset - 1 + HeadLimit = next - 1
  BY <1>2
<1>4. /\ S \in SUBSET (offset .. Smaller(next - 1, N))
      /\ \A i \in offset .. Smaller(next - 1, N) : Showable(i) => i \in S
      /\ tool = "grep" => \A i \in S : lines[i] > 0
  BY <1>3 DEF Showable
<1> HIDE DEF next, S
<1> QED
  BY <1>1, <1>3, <1>4, PageInv

\* withRetry makes no more attempts than it may.
LEMMA CommandInv ==
  ASSUME ToolsIInv,
         \/ RunCommand \/ CommandSucceeds
         \/ \E failure \in {"transient", "lasting"} : CommandFails(failure)
  PROVE  ToolsIInv'
<1>1. tool' = tool /\ lines' = lines /\ offset' = offset /\ shown' = shown
  BY DEF RunCommand, CommandSucceeds, CommandFails
<1>2. attempt \in 0 .. MaxAttempts /\ MaxAttempts \in Nat /\ MaxAttempts > 0
  BY ToolsTypes DEF ToolsIInv, ToolsInv, ToolsTypeOK
<1>3. /\ attempt' \in 0 .. MaxAttempts
      /\ command' \in {"ready", "running", "waiting", "succeeded", "failed"}
      /\ AttemptsInv'
  <2>1. CASE RunCommand
    BY <2>1, <1>2 DEF RunCommand, ToolsIInv, AttemptsInv
  <2>2. CASE CommandSucceeds
    BY <2>2, <1>2 DEF CommandSucceeds, AttemptsInv
  <2>3. CASE \E failure \in {"transient", "lasting"} : CommandFails(failure)
    BY <2>3, <1>2 DEF CommandFails, Exhausted, AttemptsInv
  <2> QED
    BY <2>1, <2>2, <2>3
<1>4. ToolsTypeOK'
  BY <1>1, <1>3 DEF ToolsIInv, ToolsInv, ToolsTypeOK
<1>5. PagedOnce'
  BY <1>1 DEF ToolsIInv, ToolsInv, PagedOnce, Showable
<1> QED
  BY <1>3, <1>4, <1>5 DEF ToolsIInv, ToolsInv

\* Whoever follows the footers sees each line once and in order, wherever a page is cut,
\* and a command is tried no more often than it may.
THEOREM EachLineOnce == ToolsSpec => []ToolsInv
<1>1. ASSUME ToolsIInv, [ToolsNext]_toolVars PROVE ToolsIInv'
  <2>1. CASE UNCHANGED toolVars
    BY <1>1, <2>1 DEF toolVars, ToolsIInv, ToolsInv, ToolsTypeOK, PagedOnce, Showable,
                      AttemptsInv
  <2>2. CASE ToolsNext
    BY <1>1, <2>2, ReadPageInv, GrepPageInv, CommandInv DEF ToolsNext
  <2> QED
    BY <1>1, <2>1, <2>2
<1>2. ToolsIInv => ToolsInv
  BY DEF ToolsIInv
<1>3. QED
  BY <1>1, <1>2, ToolsInitInv, PTL DEF ToolsSpec
-----------------------------------------------------------------------------
\* What is returned for shapes of one more value one inside the other.
NoMatch == [p \in Values \X Values |-> "no"]
NextMatches(parts) == [p \in Values \X Values |-> Verdict(parts, p[1], p[2])]

\* The verdicts exist, level by level.
LEMMA MatchesLemma ==
  \A d \in 0 .. Depth : Matches[d] = IF d = 0 THEN NoMatch ELSE NextMatches(Matches[d - 1])
<1> DEFINE Levels(f, n) ==
             f = [d \in 0 .. n |-> IF d = 0 THEN NoMatch ELSE NextMatches(f[d - 1])]
           Bad == {n \in 1 .. Depth : ~ \E f : Levels(f, n)}
<1>1. Depth \in Nat
  BY CheckAssumption
<1>2. \E f : Levels(f, 0)
  <2> DEFINE f == [d \in 0 .. 0 |-> NoMatch]
  <2>1. \A d \in 0 .. 0 : d = 0
    OBVIOUS
  <2>2. Levels(f, 0)
    BY <2>1
  <2> QED
    BY <2>2
<1>3. \E f : Levels(f, Depth)
  <2> SUFFICES ASSUME Depth # 0, Bad # {} PROVE FALSE
    <3>1. CASE Depth = 0
      BY <3>1, <1>2
    <3>2. CASE Depth # 0
      <4>1. Depth \in 1 .. Depth
        BY <3>2, <1>1
      <4>2. Bad = {}
        BY <3>2
      <4> QED
        BY <4>1, <4>2
    <3> QED
      BY <3>1, <3>2
  <2>1. Bad \in SUBSET (1 .. Depth)
    OBVIOUS
  <2>2. PICK n \in Bad : \A m \in Bad : n <= m
    <3> HIDE DEF Bad
    <3> QED
      BY <2>1, <1>1, LowestOf
  <2>3. n \in 1 .. Depth /\ ~ \E f : Levels(f, n)
    BY <2>2
  <2>4. PICK h : Levels(h, n - 1)
    <3>1. CASE n = 1
      <4>1. n - 1 = 0
        BY <3>1
      <4> HIDE DEF Levels
      <4> QED
        BY <4>1, <1>2
    <3>2. CASE n # 1
      <4>1. n - 1 \in 1 .. Depth /\ ~(n <= n - 1)
        BY <3>2, <2>3, <1>1
      <4>2. n - 1 \notin Bad
        <5> HIDE DEF Bad
        <5> QED
          BY <4>1, <2>2
      <4> QED
        BY <4>1, <4>2
    <3> QED
      BY <3>1, <3>2
  <2> DEFINE g == [d \in 0 .. n |-> IF d = n THEN NextMatches(h[n - 1]) ELSE h[d]]
  <2>5. ASSUME NEW d \in 0 .. n
        PROVE  g[d] = IF d = 0 THEN NoMatch ELSE NextMatches(g[d - 1])
    <3>1. n \in Nat /\ n # 0 /\ d \in Nat /\ n - 1 \in 0 .. n - 1
      BY <2>3, <1>1
    <3>2. CASE d = n
      <4>1. d - 1 \in 0 .. n /\ d - 1 # n /\ d # 0
        BY <3>1, <3>2
      <4>2. g[d] = NextMatches(h[n - 1]) /\ g[d - 1] = h[d - 1]
        BY <3>2, <4>1
      <4> QED
        BY <4>1, <4>2, <3>2
    <3>3. CASE d # n
      <4>1. d \in 0 .. n - 1 /\ (d # 0 => d - 1 \in 0 .. n /\ d - 1 # n)
        BY <3>1, <3>3
      <4>2. g[d] = h[d] /\ (d # 0 => g[d - 1] = h[d - 1])
        BY <3>3, <4>1
      <4>3. h[d] = IF d = 0 THEN NoMatch ELSE NextMatches(h[d - 1])
        BY <4>1, <2>4
      <4> QED
        BY <4>2, <4>3
    <3> QED
      BY <3>2, <3>3
  <2>6. Levels(g, n)
    BY <2>5
  <2> QED
    BY <2>3, <2>6
<1>4. Matches = CHOOSE f : Levels(f, Depth)
  BY DEF Matches, NoMatch, NextMatches
<1>5. Levels(Matches, Depth)
  <2> HIDE DEF Levels
  <2> QED
    BY <1>3, <1>4
<1> QED
  BY <1>5

\* What JSON values are made of.
LEMMA ValueTypes ==
  ASSUME NEW v \in Values
  PROVE  /\ v.type \in {"null", "leaf", "object", "list"}
         /\ v.type = "list" => /\ Len(v.items) \in Nat /\ DOMAIN v.items = 1 .. Len(v.items)
                               /\ \A i \in 1 .. Len(v.items) : v.items[i] \in Values
         /\ \A label \in Labels : Under(v, label) \subseteq Values
<1>1. v.type = "list" => v.items \in Seq(Values)
  BY CheckAssumption
<1> QED
  BY <1>1, CheckAssumption, LenProperties, ElementOfSeq

\* What fits is of the right kind, and whatever the shape has in it has, under the same label,
\* something that fits it.
LEMMA VerdictLemma ==
  ASSUME NEW parts, NEW a \in Values, NEW s \in Values, Verdict(parts, a, s) = "yes"
  PROVE  /\ Alike(a, s)
         /\ \A label \in Labels : \A s2 \in Under(s, label) :
              \E a2 \in Under(a, label) : parts[<<a2, s2>>] = "yes"
<1>1. s.type \in {"null", "leaf", "object", "list"}
  BY ValueTypes
<1>2. CASE s.type \in {"null", "leaf"}
  <2>1. \A label \in Labels : Under(s, label) = {}
    BY <1>2 DEF Under
  <2>2. Alike(a, s)
    BY <1>2 DEF Alike, Verdict
  <2> QED
    BY <2>1, <2>2
<1>3. CASE s.type = "object"
  <2> DEFINE Has(k) == a.type = "object" /\ k \in DOMAIN a.fields
             Field(k) == IF Has(k) THEN parts[<<a.fields[k], s.fields[k]>>] ELSE "no"
  <2>1. Alike(a, s)
    BY <1>3 DEF Alike
  <2>2. \A k \in DOMAIN s.fields : Field(k) = "yes"
    BY <1>3 DEF Verdict
  <2>3. ASSUME NEW label \in Labels, NEW s2 \in Under(s, label)
        PROVE  \E a2 \in Under(a, label) : parts[<<a2, s2>>] = "yes"
    <3>1. PICK k \in DOMAIN s.fields : label = <<k>> /\ s2 = s.fields[k]
      BY <1>3 DEF Under
    <3>2. Has(k) /\ parts[<<a.fields[k], s.fields[k]>>] = "yes"
      BY <2>2
    <3>3. a.fields[k] \in Under(a, label)
      BY <3>1, <3>2 DEF Under
    <3> QED
      BY <3>1, <3>2, <3>3
  <2> QED
    BY <2>1, <2>3
<1>4. CASE s.type = "list"
  <2> DEFINE Fit(i, j) == parts[<<a.items[j], s.items[i]>>]
             Deciding(i) == {j \in DOMAIN a.items : Fit(i, j) # "no"}
             First(S) == CHOOSE j \in S : \A k \in S : j <= k
             Some(i) == IF Deciding(i) = {} THEN "no" ELSE Fit(i, First(Deciding(i)))
             Wrong == {i \in DOMAIN s.items : Some(i) # "yes"}
  <2>1. a.type = "list"
    BY <1>4 DEF Verdict
  <2>2. Wrong = {} \/ Some(First(Wrong)) = "yes"
    BY <1>4, <2>1 DEF Verdict
  <2>3. ASSUME NEW n \in Nat, NEW S \in SUBSET (1 .. n), S # {} PROVE First(S) \in S
    <3>1. \E j \in S : \A k \in S : j <= k
      BY <2>3, LowestOf
    <3> QED
      BY <3>1
  <2>4. Wrong = {}
    <3> SUFFICES ASSUME Wrong # {} PROVE FALSE
      OBVIOUS
    <3>1. Len(s.items) \in Nat /\ Wrong \in SUBSET (1 .. Len(s.items))
      BY <1>4, ValueTypes
    <3>2. First(Wrong) \in Wrong
      <4> HIDE DEF First, Wrong
      <4> QED
        BY <3>1, <2>3
    <3> HIDE DEF First
    <3> QED
      BY <3>2, <2>2
  <2>5. ASSUME NEW label \in Labels, NEW s2 \in Under(s, label)
        PROVE  \E a2 \in Under(a, label) : parts[<<a2, s2>>] = "yes"
    <3>1. label = <<>> /\ s2 \in Range(s.items)
      BY <1>4, <2>5 DEF Under
    <3>2. PICK i \in DOMAIN s.items : s2 = s.items[i]
      BY <3>1 DEF Range
    <3>3. Some(i) = "yes"
      <4> HIDE DEF Some
      <4> QED
        BY <2>4
    <3>4. Deciding(i) # {} /\ Fit(i, First(Deciding(i))) = "yes"
      <4> HIDE DEF Deciding, First
      <4> QED
        BY <3>3
    <3>5. Len(a.items) \in Nat /\ Deciding(i) \in SUBSET (1 .. Len(a.items))
      BY <2>1, ValueTypes
    <3>6. First(Deciding(i)) \in Deciding(i)
      <4> HIDE DEF First, Deciding
      <4> QED
        BY <3>4, <3>5, <2>3
    <3>7. First(Deciding(i)) \in DOMAIN a.items
      <4> HIDE DEF First
      <4> QED
        BY <3>6
    <3>8. a.items[First(Deciding(i))] \in Under(a, label)
      <4> HIDE DEF First, Deciding
      <4> QED
        BY <3>1, <3>7, <2>1 DEF Under, Range
    <3> HIDE DEF First, Deciding
    <3> QED
      BY <3>2, <3>4, <3>8
  <2>6. Alike(a, s)
    BY <1>4, <2>1 DEF Alike
  <2> QED
    BY <2>5, <2>6
<1> QED
  BY <1>1, <1>2, <1>3, <1>4

\* A path, and the ways along it.
LEMMA PathLemma ==
  ASSUME NEW n \in Nat, NEW path \in [1 .. n -> Labels]
  PROVE  /\ Len(path) = n
         /\ \A v, w : w \in Walks(v, path) <=>
              /\ w \in [1 .. n + 1 -> Values] /\ w[1] = v
              /\ \A i \in 1 .. n : w[i + 1] \in Under(w[i], path[i])
<1>1. path \in Seq(Labels)
  BY ListLemma
<1>2. Len(path) \in Nat /\ 1 .. Len(path) = 1 .. n
  BY <1>1, LenProperties
<1>3. Len(path) = n
  BY <1>2
<1> QED
  BY <1>3 DEF Walks

\* Every way of n steps into a shape has its like in whatever fits the shape.
LeadsAlong(n) ==
  \A d \in 0 .. Depth, a, s \in Values, path \in [1 .. n -> Labels], w \in [1 .. n + 1 -> Values] :
    w \in Walks(s, path) /\ Matches[d][<<a, s>>] = "yes" =>
      \E u \in Walks(a, path) : Alike(u[n + 1], w[n + 1])

\* One more step.
LEMMA OneMoreStep ==
  ASSUME NEW n \in Nat, LeadsAlong(n) PROVE LeadsAlong(n + 1)
<1> SUFFICES ASSUME NEW d \in 0 .. Depth, NEW a \in Values, NEW s \in Values,
                    NEW path \in [1 .. (n + 1) -> Labels],
                    NEW w \in [1 .. (n + 1) + 1 -> Values],
                    w \in Walks(s, path), Matches[d][<<a, s>>] = "yes"
             PROVE  \E u \in Walks(a, path) : Alike(u[(n + 1) + 1], w[(n + 1) + 1])
  BY DEF LeadsAlong
<1> DEFINE rest == [i \in 1 .. n |-> path[i + 1]]
           onwards == [i \in 1 .. n + 1 |-> w[i + 1]]
<1>1. /\ w[1] = s /\ w[2] \in Under(s, path[1]) /\ w[2] \in Values
      /\ path[1] \in Labels /\ rest \in [1 .. n -> Labels]
  <2>1. 1 \in 1 .. n + 1 /\ 2 \in 1 .. (n + 1) + 1 /\ n + 1 \in Nat
        /\ \A i \in 1 .. n : i + 1 \in 1 .. n + 1
    OBVIOUS
  <2>2. w[1] = s /\ w[1 + 1] \in Under(w[1], path[1])
    BY <2>1, PathLemma
  <2> QED
    BY <2>1, <2>2
<1>2. d # 0 /\ d - 1 \in 0 .. Depth /\ Depth \in Nat
  <2>1. Depth \in Nat
    BY CheckAssumption
  <2>2. d # 0
    <3> SUFFICES ASSUME d = 0 PROVE FALSE
      OBVIOUS
    <3>1. Matches[0] = NoMatch
      BY <2>1, MatchesLemma
    <3> QED
      BY <3>1 DEF NoMatch
  <2> QED
    BY <2>1, <2>2
<1>3. Verdict(Matches[d - 1], a, s) = "yes"
  <2>1. Matches[d] = NextMatches(Matches[d - 1])
    BY <1>2, MatchesLemma
  <2>2. Matches[d][<<a, s>>] = Verdict(Matches[d - 1], a, s)
    BY <2>1 DEF NextMatches
  <2> QED
    BY <2>2
<1>4. PICK a2 \in Under(a, path[1]) : Matches[d - 1][<<a2, w[2]>>] = "yes"
  BY <1>1, <1>3, VerdictLemma
<1>5. a2 \in Values
  BY <1>1, <1>4, ValueTypes
<1>6. onwards \in [1 .. n + 1 -> Values] /\ onwards \in Walks(w[2], rest)
  <2>1. \A i \in 1 .. n + 1 : i + 1 \in 1 .. (n + 1) + 1
    OBVIOUS
  <2>2. onwards \in [1 .. n + 1 -> Values]
    BY <2>1
  <2>3. onwards[1] = w[2]
    OBVIOUS
  <2>4. ASSUME NEW i \in 1 .. n PROVE onwards[i + 1] \in Under(onwards[i], rest[i])
    <3>1. i + 1 \in 1 .. n + 1 /\ i \in 1 .. n + 1 /\ n + 1 \in Nat
      OBVIOUS
    <3>2. w[(i + 1) + 1] \in Under(w[i + 1], path[i + 1])
      BY <3>1, PathLemma
    <3> QED
      BY <3>1, <3>2
  <2> HIDE DEF onwards, rest
  <2> QED
    BY <2>2, <2>3, <2>4, <1>1, PathLemma
<1>7. PICK u2 \in Walks(a2, rest) : Alike(u2[n + 1], onwards[n + 1])
  <2> HIDE DEF onwards, rest
  <2> QED
    BY <1>1, <1>2, <1>4, <1>5, <1>6 DEF LeadsAlong
<1>8. /\ u2 \in [1 .. n + 1 -> Values] /\ u2[1] = a2
      /\ \A i \in 1 .. n : u2[i + 1] \in Under(u2[i], rest[i])
  <2> HIDE DEF rest
  <2> QED
    BY <1>1, <1>7, PathLemma
<1> DEFINE u == [i \in 1 .. (n + 1) + 1 |-> IF i = 1 THEN a ELSE u2[i - 1]]
<1>9. u \in Walks(a, path)
  <2>1. \A i \in 1 .. (n + 1) + 1 : i # 1 => i - 1 \in 1 .. n + 1
    OBVIOUS
  <2>2. u \in [1 .. (n + 1) + 1 -> Values]
    BY <2>1, <1>8
  <2>3. u[1] = a
    OBVIOUS
  <2>4. ASSUME NEW i \in 1 .. n + 1 PROVE u[i + 1] \in Under(u[i], path[i])
    <3>1. i + 1 \in 1 .. (n + 1) + 1 /\ i + 1 # 1 /\ (i + 1) - 1 = i /\ i \in 1 .. (n + 1) + 1
      OBVIOUS
    <3>2. u[i + 1] = u2[i]
      BY <3>1
    <3>3. CASE i = 1
      BY <3>2, <3>3, <1>4, <1>8
    <3>4. CASE i # 1
      <4>1. i - 1 \in 1 .. n /\ (i - 1) + 1 = i
        BY <3>4
      <4>2. u2[(i - 1) + 1] \in Under(u2[i - 1], rest[i - 1])
        BY <4>1, <1>8
      <4>3. rest[i - 1] = path[i] /\ u[i] = u2[i - 1]
        BY <4>1, <3>4, <3>1
      <4> QED
        BY <4>1, <4>2, <4>3, <3>2
    <3> QED
      BY <3>3, <3>4
  <2>5. n + 1 \in Nat
    OBVIOUS
  <2> HIDE DEF u
  <2> QED
    BY <2>2, <2>3, <2>4, <2>5, PathLemma
<1>10. u[(n + 1) + 1] = u2[n + 1] /\ onwards[n + 1] = w[(n + 1) + 1]
  <2>1. (n + 1) + 1 \in 1 .. (n + 1) + 1 /\ (n + 1) + 1 # 1 /\ ((n + 1) + 1) - 1 = n + 1
        /\ n + 1 \in 1 .. n + 1
    OBVIOUS
  <2> QED
    BY <2>1
<1> HIDE DEF u, onwards
<1> QED
  BY <1>7, <1>9, <1>10

LEMMA LeadsLemma == \A n \in Nat : LeadsAlong(n)
<1>1. LeadsAlong(0)
  <2> SUFFICES ASSUME NEW d \in 0 .. Depth, NEW a \in Values, NEW s \in Values,
                      NEW path \in [1 .. 0 -> Labels], NEW w \in [1 .. 0 + 1 -> Values],
                      w \in Walks(s, path), Matches[d][<<a, s>>] = "yes"
               PROVE  \E u \in Walks(a, path) : Alike(u[0 + 1], w[0 + 1])
    BY DEF LeadsAlong
  <2> DEFINE u == [i \in 1 .. 0 + 1 |-> a]
  <2>1. w[1] = s
    BY DEF Walks
  <2>2. u \in [1 .. 0 + 1 -> Values] /\ u[1] = a /\ 1 .. 0 = {}
    OBVIOUS
  <2>3. u \in Walks(a, path)
    <3> HIDE DEF u
    <3> QED
      BY <2>2, PathLemma
  <2>4. Depth \in Nat
    BY CheckAssumption
  <2>5. CASE d = 0
    <3>1. Matches[0] = NoMatch
      BY <2>4, MatchesLemma
    <3> QED
      BY <3>1, <2>5 DEF NoMatch
  <2>6. CASE d # 0
    <3>1. Matches[d] = NextMatches(Matches[d - 1])
      BY <2>6, MatchesLemma
    <3>2. Matches[d][<<a, s>>] = Verdict(Matches[d - 1], a, s)
      BY <3>1 DEF NextMatches
    <3>3. Alike(a, s)
      BY <3>2, VerdictLemma
    <3> HIDE DEF u
    <3> QED
      BY <3>3, <2>1, <2>2, <2>3
  <2> QED
    BY <2>5, <2>6
<1>2. ASSUME NEW m \in Nat, ~LeadsAlong(m) PROVE FALSE
  <2> DEFINE Bad == {n \in 1 .. m : ~LeadsAlong(n)}
  <2>1. m \in Bad
    <3>1. m # 0
      BY <1>1, <1>2
    <3> QED
      BY <3>1, <1>2
  <2>2. PICK n \in Bad : \A k \in Bad : n <= k
    <3>1. Bad \in SUBSET (1 .. m) /\ Bad # {}
      BY <2>1
    <3> HIDE DEF Bad
    <3> QED
      BY <3>1, LowestOf
  <2>3. n \in 1 .. m /\ ~LeadsAlong(n)
    BY <2>2
  <2>4. LeadsAlong(n - 1)
    <3>1. CASE n = 1
      <4>1. n - 1 = 0
        BY <3>1
      <4> QED
        BY <4>1, <1>1
    <3>2. CASE n # 1
      <4>1. n - 1 \in 1 .. m /\ ~(n <= n - 1)
        BY <3>2, <2>3
      <4>2. n - 1 \notin Bad
        <5> HIDE DEF Bad
        <5> QED
          BY <4>1, <2>2
      <4> QED
        BY <4>1, <4>2
    <3> QED
      BY <3>1, <3>2
  <2>5. n - 1 \in Nat /\ (n - 1) + 1 = n
    BY <2>3
  <2>6. LeadsAlong((n - 1) + 1)
    BY <2>4, <2>5, OneMoreStep
  <2> QED
    BY <2>3, <2>5, <2>6
<1> QED
  BY <1>2

\* Of a step that is still tried, every attempt was answered by a retry, by the static rules
\* only while the verifier had patience.
RetriesInv ==
  settled = "no" => attempts = retryCount /\ (~useLlm => retryCount <= Enough)

CheckIInv == CheckInv /\ RetriesInv

LEMMA CheckInitInv == ASSUME CheckInit PROVE CheckIInv
<1>1. RetryLimit \in Nat /\ Enough \in Nat
  BY CheckAssumption
<1>2. result \in Results
  BY DEF CheckInit, Results, Payloads
<1>3. CheckTypeOK /\ AttemptsBounded /\ RetriesInv
  BY <1>1, <1>2 DEF CheckInit, CheckTypeOK, AttemptsBounded, RetriesInv
<1>4. ErrorsNeverPass /\ ShapeHolds
  BY DEF CheckInit, ErrorsNeverPass, ShapeHolds
<1> QED
  BY <1>3, <1>4 DEF CheckIInv, CheckInv

\* The static rules proceed only with what is there, and is what was expected.
LEMMA StaticLemma ==
  ASSUME NEW p \in Payloads, StaticVerify(p) = "proceed"
  PROVE  /\ p.form # "empty"
         /\ expected.rule = "shape" =>
              p.form = "json" /\ p.value \in Values /\ FitsShape(p.value, expected.shape)
<1>1. p.form # "empty" /\ (expected.rule # "none" => MatchOf(p) # "mismatch")
  BY DEF StaticVerify, Again
<1>2. p.form = "json" => p.value \in Values
  BY DEF Payloads
<1>3. ASSUME expected.rule = "shape" PROVE p.form = "json" /\ FitsShape(p.value, expected.shape)
  BY <1>1, <1>3 DEF MatchOf
<1> QED
  BY <1>1, <1>2, <1>3

\* What the verifier lets pass.
LEMMA VerifyLemma ==
  ASSUME NEW r \in Results, Verify(r) = "proceed"
  PROVE  /\ ~Failed(r) /\ r.payload \in Payloads /\ StaticVerify(r.payload) = "proceed"
<1>1. r.from \in {"error", "tool", "subagent"}
  BY DEF Results
<1>2. r.from # "error"
  BY DEF Verify, ClassifyError, Again
<1>3. r.from = "tool" => ~r.isError
  BY DEF Verify, Again
<1>4. r.payload \in Payloads
  BY <1>1, <1>2 DEF Results
<1>5. StaticVerify(r.payload) = "proceed"
  BY <1>1, <1>2, <1>3 DEF Verify
<1> QED
  BY <1>2, <1>3, <1>4, <1>5 DEF Failed

\* A value that fits the shape has all that the shape has.
LEMMA ShapeLemma ==
  ASSUME NEW v \in Values, NEW s \in Shapes, FitsShape(v, s), NEW n \in 0 .. Depth,
         NEW path \in [1 .. n -> Labels], NEW w \in Walks(s, path)
  PROVE  \E u \in Walks(v, path) : Alike(u[n + 1], w[n + 1])
<1>1. Depth \in Nat /\ s \in Values /\ n \in Nat
  BY CheckAssumption
<1>2. w \in [1 .. n + 1 -> Values]
  BY <1>1, PathLemma
<1>3. Depth \in 0 .. Depth /\ Matches[Depth][<<v, s>>] = "yes"
  BY <1>1 DEF FitsShape
<1>4. LeadsAlong(n)
  BY <1>1, LeadsLemma
<1> QED
  BY <1>1, <1>2, <1>3, <1>4 DEF LeadsAlong

LEMMA AttemptInv ==
  ASSUME CheckIInv,
         NEW r \in Results, NEW verdict \in {"proceed", "retry", "replan", "escalate", "abort"},
         Attempt(r, verdict)
  PROVE  CheckIInv'
<1>1. /\ settled = "no" /\ retryCount <= RetryLimit /\ verdict \in VerdictsOf(r)
      /\ result' = r /\ attempts' = attempts + 1
      /\ expected' = expected /\ useLlm' = useLlm
      /\ verdict = "retry" => retryCount' = retryCount + 1 /\ settled' = settled
      /\ verdict # "retry" =>
           /\ settled' = (IF verdict = "proceed" THEN "completed" ELSE verdict)
           /\ retryCount' = retryCount
  BY DEF Attempt
<1>2. /\ RetryLimit \in Nat /\ Enough \in Nat /\ retryCount \in 0 .. RetryLimit + 1
      /\ attempts = retryCount /\ (~useLlm => retryCount <= Enough)
      /\ expected \in Expectations /\ useLlm \in BOOLEAN
  BY <1>1, CheckAssumption DEF CheckIInv, CheckInv, CheckTypeOK, RetriesInv
<1>3. ~useLlm => verdict = Verify(r)
  BY <1>1 DEF VerdictsOf
<1>4. ~useLlm /\ verdict = "retry" => retryCount < Enough
  BY <1>2, <1>3 DEF Verify, ClassifyError, StaticVerify, Again
<1>5. CheckTypeOK'
  BY <1>1, <1>2 DEF CheckTypeOK
<1>6. AttemptsBounded'
  BY <1>1, <1>2 DEF AttemptsBounded
<1>7. RetriesInv'
  BY <1>1, <1>2, <1>4 DEF RetriesInv
<1>8. ErrorsNeverPass' /\ ShapeHolds'
  <2>1. CASE ~(settled' = "completed" /\ ~useLlm')
    BY <2>1 DEF ErrorsNeverPass, ShapeHolds
  <2>2. CASE settled' = "completed" /\ ~useLlm'
    <3>1. verdict = "proceed" /\ Verify(r) = "proceed"
      BY <2>2, <1>1, <1>3
    <3>2. ~Failed(r) /\ r.payload \in Payloads /\ StaticVerify(r.payload) = "proceed"
      BY <3>1, VerifyLemma
    <3>3. /\ r.payload.form # "empty"
          /\ expected.rule = "shape" =>
               /\ r.payload.form = "json" /\ r.payload.value \in Values
               /\ FitsShape(r.payload.value, expected.shape)
      BY <3>2, StaticLemma
    <3>4. ErrorsNeverPass'
      BY <3>2, <3>3, <1>1 DEF ErrorsNeverPass, Failed
    <3>5. ASSUME expected.rule = "shape",
                 NEW n \in 0 .. Depth, NEW path \in [1 .. n -> Labels],
                 NEW s \in Walks(expected.shape, path)
          PROVE  \E a \in Walks(r.payload.value, path) : Alike(a[n + 1], s[n + 1])
      <4>1. expected.shape \in Shapes
        BY <3>5, <1>2 DEF Expectations
      <4> QED
        BY <4>1, <3>3, <3>5, ShapeLemma
    <3>6. ShapeHolds'
      BY <3>3, <3>5, <1>1 DEF ShapeHolds
    <3> QED
      BY <3>4, <3>6
  <2> QED
    BY <2>1, <2>2
<1> QED
  BY <1>5, <1>6, <1>7, <1>8 DEF CheckIInv, CheckInv

LEMMA CheckStepInv == ASSUME CheckIInv, [CheckNext]_checkVars PROVE CheckIInv'
<1>1. ASSUME NEW r \in Results, NEW verdict \in {"proceed", "retry", "replan", "escalate", "abort"},
             Attempt(r, verdict)
      PROVE  CheckIInv'
  BY <1>1, AttemptInv
<1>2. CASE OutOfRetries
  BY <1>2 DEF CheckIInv, CheckInv, CheckTypeOK, RetriesInv, AttemptsBounded, ErrorsNeverPass,
              ShapeHolds, OutOfRetries
<1>3. CASE UNCHANGED checkVars
  BY <1>3 DEF CheckIInv, CheckInv, CheckTypeOK, RetriesInv, AttemptsBounded, ErrorsNeverPass,
              ShapeHolds, checkVars
<1> QED
  BY <1>1, <1>2, <1>3 DEF CheckNext

\* A step of a plan is tried a bounded number of times, and by the static rules it is completed
\* only by a result that is no error and has all that was expected, however deep
\* (executeStep, verify, shapeMatchesRecursive).
THEOREM StepsEndAsExpected == CheckSpec => []CheckInv
<1>1. CheckIInv /\ [CheckNext]_checkVars => CheckIInv'
  BY CheckStepInv
<1>2. CheckIInv => CheckInv
  BY DEF CheckIInv
<1>3. QED
  BY <1>1, <1>2, CheckInitInv, PTL DEF CheckSpec
=============================================================================
