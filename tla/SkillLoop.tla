-------------------------------- MODULE SkillLoop --------------------------------
(***************************************************************************)
(* Skills, their drafts, and the loop that turns what was learned from a   *)
(* plan into a skill: the registry over the skills directory               *)
(* (infra/skills/registry.ts), the validator that tries a draft out by     *)
(* promoting it for the length of a plan (core/runtime/skill/validator.ts),*)
(* the learner and the engine that run after every plan                    *)
(* (core/runtime/evolution), the store of baselines and attempts           *)
(* (core/session/plan-store.ts), and the drafts a person reviews           *)
(* (infra/drafts.ts), which are kept in a directory of their own.          *)
(*                                                                         *)
(* The directories of a skill are numbered by how often their name carries *)
(* the suffix of a backup: 0 is the skill's own.  The registry reads the   *)
(* directories in the order of their names, so that of several that hold   *)
(* a skill of one name the one with the longest suffix is served.          *)
(***************************************************************************)
EXTENDS Naturals, FiniteSets, FiniteSetsExt, Sequences

CONSTANTS
  SkillNames,    \* names of skills and drafts
  Bodies,        \* what a draft or a skill may say
  Validators,    \* the sessions that validate drafts
  Metrics,       \* measurements of a plan: is it completed, failures, steps
  MaxPlans,      \* bound on the plans that end
  MaxSkillWrites,     \* bound on skills written by the tool and drafts left by a person
  MaxCrashes,    \* bound on the crashes
  None

ASSUME SkillBoundsAreNatural == {MaxPlans, MaxSkillWrites, MaxCrashes} \subseteq Nat
ASSUME MetricsMeasure ==
  \A m \in Metrics : m.completed \in BOOLEAN /\ {m.failures, m.steps} \subseteq Nat

VARIABLES
  dirs,          \* the directories of each skill that hold one, by their suffixes
  skills,        \* the registry's skill of a name: a directory and what it read there
  draft,         \* the draft of a name, in its directory and in the registry alike
  archived,      \* names with an archived draft
  baseline,      \* the measurements a draft of the name has to beat
  outcomes,      \* the outcomes recorded for a name
  procedures,    \* procedures written to the memory and to the tape
  trial,         \* the validation a session runs
  review,        \* the draft of a name that waits for a person, and how far its
                 \* approval is
  plans, writes, crashes,
  backedUp       \* history: names whose skill was ever moved aside

skillVars == <<dirs, skills, draft, archived, baseline, outcomes, procedures, trial,
               review, plans, writes, crashes, backedUp>>

\* The longest suffix that can come about: a trial moves a skill aside, a crash
\* leaves the backup behind, and the next trial moves that aside.
Depths == 0..MaxCrashes + 1

Origins == {"written", "draft", "approved"}
Skill(body, origin) == [body |-> body, origin |-> origin]

\* The null value is no name, body, skill or row.
ASSUME NoneIsNothing ==
  /\ None \notin SkillNames \cup Bodies
  /\ \A b \in Bodies : \A o \in Origins : Skill(b, o) # None
  /\ \A b \in Bodies : \A k \in Depths : [at |-> k, body |-> b] # None

NoTrial == [name |-> None, body |-> None, backup |-> 0, before |-> None, metrics |-> None]

-----------------------------------------------------------------------------
\* The registry.

Held(d, n) == {k \in Depths : d[n][k] # None}

ReadSkill(d, n) ==
  IF Held(d, n) = {} THEN None
    ELSE [at |-> Max(Held(d, n)), body |-> d[n][Max(Held(d, n))].body]

discover(d) == [n \in SkillNames |-> ReadSkill(d, n)]

\* skill_write.
WriteSkill(n, b) ==
  /\ writes < MaxSkillWrites
  /\ writes' = writes + 1
  /\ dirs' = [dirs EXCEPT ![n][0] = Skill(b, "written")]
  /\ skills' = discover(dirs')
  /\ UNCHANGED <<draft, archived, baseline, outcomes, procedures, trial, review, plans,
                 crashes, backedUp>>

\* Mutant: nothing is deleted.
WithSkillStill(d, n) == d

\* The directories after the registry has deleted its skill of the name: the one it
\* was read from is gone, whichever that is.
WithoutSkill(d, n) == IF skills[n] = None THEN d ELSE [d EXCEPT ![n][skills[n].at] = None]

\* skill_delete.
DeleteSkill(n) ==
  /\ writes < MaxSkillWrites
  /\ skills[n] # None
  /\ writes' = writes + 1
  /\ dirs' = WithoutSkill(dirs, n)
  /\ skills' = [skills EXCEPT ![n] = None]
  /\ UNCHANGED <<draft, archived, baseline, outcomes, procedures, trial, review, plans,
                 crashes, backedUp>>

\* promoteDraft, over directories d: the draft becomes the skill, and the directories
\* are read again.
Promoted(d, n, b) == [d EXCEPT ![n][0] = Skill(b, "draft")]

\* reloadSkills: the command reads the directories again.
Reload ==
  /\ skills # discover(dirs)
  /\ skills' = discover(dirs)
  /\ UNCHANGED <<dirs, draft, archived, baseline, outcomes, procedures, trial, review,
                 plans, writes, crashes, backedUp>>

\* A person promotes or archives a draft through the agent's facade.
PromoteByHand(n) ==
  /\ draft[n] # None
  /\ dirs' = [dirs EXCEPT ![n][0] = Skill(draft[n], "approved")]
  /\ skills' = discover(dirs')
  /\ draft' = [draft EXCEPT ![n] = None]
  /\ UNCHANGED <<archived, baseline, outcomes, procedures, trial, review, plans, writes,
                 crashes, backedUp>>

ArchiveByHand(n) ==
  /\ draft[n] # None
  /\ draft' = [draft EXCEPT ![n] = None]
  /\ archived' = archived \cup {n}
  /\ UNCHANGED <<dirs, skills, baseline, outcomes, procedures, trial, review, plans,
                 writes, crashes, backedUp>>

-----------------------------------------------------------------------------
\* What is learned from a plan.

\* An answer of the model: the confidence it states, whether it describes a procedure
\* that is long enough, and the skill it suggests.  A confidence it does not state is
\* low, or just enough where there is a procedure; a skill is taken up only where the
\* confidence is high.
Confidences == {"unstated", "low", "enough", "high"}
Answers ==
  [confidence : Confidences, procedure : BOOLEAN, skill : {None} \cup (SkillNames \X Bodies)]

normalizeConfidence(answer) ==
  IF answer.confidence # "unstated" THEN answer.confidence
    ELSE IF answer.procedure THEN "enough" ELSE "low"

Reflection(answer) ==
  [usable |-> answer.procedure /\ normalizeConfidence(answer) # "low",
   suggested |-> IF normalizeConfidence(answer) = "high" THEN answer.skill ELSE None]

\* Mutant: a plan is measured without regard to whether it was completed.
BeatByCounts(m, base) ==
  m.failures < base.failures \/ (m.failures = base.failures /\ m.steps <= base.steps)

metricsBeat(m, base) ==
  \/ m.completed /\ ~base.completed
  \/ /\ m.completed = base.completed
     /\ \/ m.failures < base.failures
        \/ m.failures = base.failures /\ m.steps <= base.steps

\* Was the name ever measured better than its baseline: what the metrics call promoted.
promoted(n) == "improved" \in outcomes[n]

Judged(n, m) ==
  CASE baseline[n] = None -> "baseline"
    [] baseline[n] # None /\ metricsBeat(m, baseline[n]) -> "improved"
    [] OTHER -> "failed"

\* Nothing is suggested: at most the procedure is written down.
LearnProcedure(m, r) ==
  /\ r.suggested = None
  /\ procedures' = IF m.completed /\ r.usable THEN procedures + 1 ELSE procedures
  /\ UNCHANGED <<dirs, skills, draft, archived, baseline, outcomes>>

\* A plan that was not completed: the suggestion is written and archived, and a draft
\* of that name goes with it.
LearnFromFailure(m, r) ==
  /\ r.suggested # None /\ ~m.completed
  /\ draft' = [draft EXCEPT ![r.suggested[1]] = None]
  /\ archived' = archived \cup {r.suggested[1]}
  /\ UNCHANGED <<dirs, skills, baseline, outcomes, procedures>>

\* A completed plan: the suggestion becomes a draft and the plan itself its first
\* measurement, against the baseline of that name.
LearnFromSuccess(m, r) ==
  LET n == r.suggested[1] b == r.suggested[2] outcome == Judged(n, m) IN
  /\ r.suggested # None /\ m.completed
  /\ outcomes' = [outcomes EXCEPT ![n] = @ \cup {outcome}]
  /\ baseline' = IF outcome = "failed" THEN baseline ELSE [baseline EXCEPT ![n] = m]
  /\ draft' = [draft EXCEPT ![n] = IF outcome = "baseline" THEN b ELSE None]
  /\ archived' = IF outcome = "failed" THEN archived \cup {n} ELSE archived
  /\ dirs' = IF outcome = "improved" THEN Promoted(dirs, n, b) ELSE dirs
  /\ skills' = IF outcome = "improved" THEN discover(dirs') ELSE skills
  /\ procedures' = procedures + 1

\* The reflection on a plan, or none: the plan was stopped early, or the model's
\* call failed.
Learn(m, answer) ==
  IF answer = None
    THEN UNCHANGED <<dirs, skills, draft, archived, baseline, outcomes, procedures>>
    ELSE LET r == Reflection(answer)
         IN LearnProcedure(m, r) \/ LearnFromFailure(m, r) \/ LearnFromSuccess(m, r)

\* A plan nobody validates with ends.
PlanOver(m, answer) ==
  /\ plans < MaxPlans
  /\ plans' = plans + 1
  /\ Learn(m, answer)
  /\ UNCHANGED <<trial, review, writes, crashes, backedUp>>

-----------------------------------------------------------------------------
\* The validation of a draft.

\* skill_validate: the skill of that name is moved aside, the draft takes its place,
\* and a plan is started with it.
StartTrial(s, n) ==
  LET d == draft[n]
      from == skills[n].at
      aside == IF skills[n] = None THEN dirs
                 ELSE [dirs EXCEPT ![n] = [@ EXCEPT ![from + 1] = dirs[n][from],
                                                    ![from] = None]]
  IN /\ plans < MaxPlans
     /\ trial[s] = NoTrial
     /\ d # None
     /\ skills[n] # None => dirs[n][from] # None /\ from + 1 \in Depths
     /\ plans' = plans + 1
     /\ dirs' = Promoted(aside, n, d)
     /\ skills' = discover(dirs')
     /\ draft' = [draft EXCEPT ![n] = None]
     /\ trial' = [trial EXCEPT ![s] =
          [name |-> n, body |-> d, backup |-> IF skills[n] = None THEN 0 ELSE from + 1,
           before |-> dirs[n][0], metrics |-> None]]
     /\ backedUp' = IF skills[n] = None THEN backedUp ELSE backedUp \cup {n}
     /\ UNCHANGED <<archived, baseline, outcomes, procedures, review, writes, crashes>>

\* The plan of the trial ends, and what there is to learn from it is learned before
\* the validator hears of it.
TrialPlanEnds(s, m, answer) ==
  /\ trial[s] # NoTrial /\ trial[s].metrics = None
  /\ trial' = [trial EXCEPT ![s].metrics = m]
  /\ Learn(m, answer)
  /\ UNCHANGED <<review, plans, writes, crashes, backedUp>>

\* demoteDraft: the registry's skill is deleted, the draft written back, and the
\* backup, where it is still there, becomes the skill again.
RestoreBackup(d, t) ==
  IF t.backup = 0 \/ d[t.name][t.backup] = None THEN d
    ELSE [d EXCEPT ![t.name] = [@ EXCEPT ![0] = d[t.name][t.backup], ![t.backup] = None]]

demoteDraft(t) ==
  LET without == WithoutSkill(dirs, t.name) IN
  /\ draft' = [draft EXCEPT ![t.name] = t.body]
  /\ dirs' = RestoreBackup(without, t)
  /\ skills' = IF dirs' # without THEN discover(dirs')
                 ELSE [skills EXCEPT ![t.name] = None]

TrialOver(s) == trial' = [trial EXCEPT ![s] = NoTrial]

\* The plan throws.
TrialFails(s) ==
  /\ trial[s] # NoTrial /\ trial[s].metrics = None
  /\ demoteDraft(trial[s])
  /\ TrialOver(s)
  /\ UNCHANGED <<archived, baseline, outcomes, procedures, review, plans, writes, crashes,
                 backedUp>>

\* There is no baseline: the trial is one.
TrialPending(s) ==
  LET t == trial[s] IN
  /\ t.metrics # None /\ baseline[t.name] = None
  /\ baseline' = [baseline EXCEPT ![t.name] = t.metrics]
  /\ outcomes' = [outcomes EXCEPT ![t.name] = @ \cup {"pending"}]
  /\ demoteDraft(t)
  /\ TrialOver(s)
  /\ UNCHANGED <<archived, procedures, review, plans, writes, crashes, backedUp>>

\* The trial beats the baseline: the draft stays the skill, and the backup is removed
\* without another look at the directories.
TrialImproves(s) ==
  LET t == trial[s] IN
  /\ t.metrics # None /\ baseline[t.name] # None
  /\ metricsBeat(t.metrics, baseline[t.name])
  /\ baseline' = [baseline EXCEPT ![t.name] = t.metrics]
  /\ outcomes' = [outcomes EXCEPT ![t.name] = @ \cup {"improved"}]
  /\ dirs' = IF t.backup = 0 THEN dirs ELSE [dirs EXCEPT ![t.name][t.backup] = None]
  /\ TrialOver(s)
  /\ UNCHANGED <<skills, draft, archived, procedures, review, plans, writes, crashes,
                 backedUp>>

\* It does not: a draft that has been written under the name meanwhile is archived,
\* and the one that was tried is a draft again.
TrialWorse(s) ==
  LET t == trial[s] IN
  /\ t.metrics # None /\ baseline[t.name] # None
  /\ ~metricsBeat(t.metrics, baseline[t.name])
  /\ outcomes' = [outcomes EXCEPT ![t.name] = @ \cup {"failed"}]
  /\ archived' = IF draft[t.name] = None THEN archived ELSE archived \cup {t.name}
  /\ demoteDraft(t)
  /\ TrialOver(s)
  /\ UNCHANGED <<baseline, procedures, review, plans, writes, crashes, backedUp>>

-----------------------------------------------------------------------------
\* The drafts a person reviews.

\* A person, or another program, leaves a draft in the directory .drafts.
LeaveForReview(n, b) ==
  /\ writes < MaxSkillWrites
  /\ writes' = writes + 1
  /\ review' = [review EXCEPT ![n] = [body |-> b, approval |-> "none"]]
  /\ UNCHANGED <<dirs, skills, draft, archived, baseline, outcomes, procedures, trial,
                 plans, crashes, backedUp>>

\* approve: the skill is written, which the registry does not hear of, ...
Approve(n) ==
  /\ review[n] # None /\ review[n].approval = "none"
  /\ dirs' = [dirs EXCEPT ![n][0] = Skill(review[n].body, "approved")]
  /\ review' = [review EXCEPT ![n].approval = "written"]
  /\ UNCHANGED <<skills, draft, archived, baseline, outcomes, procedures, trial, plans,
                 writes, crashes, backedUp>>

\* ... and then the draft is removed.
ApproveRemoves(n) ==
  /\ review[n] # None /\ review[n].approval = "written"
  /\ review' = [review EXCEPT ![n] = None]
  /\ UNCHANGED <<dirs, skills, draft, archived, baseline, outcomes, procedures, trial,
                 plans, writes, crashes, backedUp>>

Reject(n) ==
  /\ review[n] # None
  /\ review' = [review EXCEPT ![n] = None]
  /\ UNCHANGED <<dirs, skills, draft, archived, baseline, outcomes, procedures, trial,
                 plans, writes, crashes, backedUp>>

\* The process dies and comes back: the trials are gone, what is on disk is read.
CrashInTrial ==
  /\ crashes < MaxCrashes
  /\ crashes' = crashes + 1
  /\ trial' = [s \in Validators |-> NoTrial]
  /\ review' = [n \in SkillNames |-> IF review[n] = None THEN None
                                  ELSE [review[n] EXCEPT !.approval = "none"]]
  /\ skills' = discover(dirs)
  /\ UNCHANGED <<dirs, draft, archived, baseline, outcomes, procedures, plans, writes,
                 backedUp>>

-----------------------------------------------------------------------------

SkillInit ==
  /\ dirs = [n \in SkillNames |-> [k \in Depths |-> None]]
  /\ skills = [n \in SkillNames |-> None]
  /\ draft = [n \in SkillNames |-> None]
  /\ archived = {}
  /\ baseline = [n \in SkillNames |-> None]
  /\ outcomes = [n \in SkillNames |-> {}]
  /\ procedures = 0
  /\ trial = [s \in Validators |-> NoTrial]
  /\ review = [n \in SkillNames |-> None]
  /\ plans = 0 /\ writes = 0 /\ crashes = 0
  /\ backedUp = {}

SkillNext ==
  \/ \E n \in SkillNames, b \in Bodies : WriteSkill(n, b) \/ LeaveForReview(n, b)
  \/ \E n \in SkillNames :
       \/ DeleteSkill(n) \/ PromoteByHand(n) \/ ArchiveByHand(n)
       \/ Approve(n) \/ ApproveRemoves(n) \/ Reject(n)
  \/ \E m \in Metrics, a \in Answers \cup {None} :
       \/ PlanOver(m, a)
       \/ \E s \in Validators : TrialPlanEnds(s, m, a)
  \/ \E s \in Validators :
       \/ \E n \in SkillNames : StartTrial(s, n)
       \/ TrialFails(s) \/ TrialPending(s) \/ TrialImproves(s) \/ TrialWorse(s)
  \/ Reload \/ CrashInTrial

SkillSpec == SkillInit /\ [][SkillNext]_skillVars

-----------------------------------------------------------------------------
\* Every variable has its type.
SkillTypeOK ==
  /\ \A n \in SkillNames : \A k \in Depths :
       dirs[n][k] = None \/ (dirs[n][k].body \in Bodies /\ dirs[n][k].origin \in Origins)
  /\ \A n \in SkillNames :
       /\ skills[n] = None \/ (skills[n].at \in Depths /\ skills[n].body \in Bodies)
       /\ draft[n] \in Bodies \cup {None}
       /\ baseline[n] \in Metrics \cup {None}
       /\ outcomes[n] \subseteq {"baseline", "pending", "improved", "failed"}
  /\ archived \subseteq SkillNames /\ backedUp \subseteq SkillNames
  /\ \A s \in Validators : trial[s].name \in SkillNames \cup {None}
  /\ plans \in 0..MaxPlans /\ writes \in 0..MaxSkillWrites /\ crashes \in 0..MaxCrashes

Tried(n) == \E s \in Validators : trial[s].name = n

\* A baseline only ever gets harder to beat, whichever of the validator and the
\* engine, in whichever session, has moved it: no order of plans lets a draft pass
\* that is worse than an earlier measurement of its name.
BaselineImproves ==
  [][\A n \in SkillNames : baseline[n] # None /\ baseline'[n] # baseline[n] =>
       LET old == baseline[n] new == baseline'[n] IN
       /\ old.completed => new.completed
       /\ old.completed = new.completed =>
            \/ new.failures < old.failures
            \/ new.failures = old.failures /\ new.steps <= old.steps]_skillVars

\* A draft is not lost: after its name has been measured or judged there is a draft,
\* an archived one, a skill on disk or a trial under way, unless the tool has deleted
\* a skill since.
DraftSurvives ==
  \A n \in SkillNames : outcomes[n] # {} /\ writes = 0 =>
    draft[n] # None \/ n \in archived \/ Held(dirs, n) # {} \/ Tried(n)

\* A skill made from a draft stays one only after it has been measured better than a
\* baseline: outside of a trial, no untried draft is on disk as a skill.  It takes
\* that no skill of that name was in the way of a trial, and no crash.
UnprovenStaysDraft ==
  \A n \in SkillNames :
    (n \notin backedUp /\ crashes = 0 /\ ~Tried(n)) =>
      \A k \in Depths : dirs[n][k] # None /\ dirs[n][k].origin = "draft" => promoted(n)

\* A trial that ends without an improvement leaves the skill as it was before.
FailedTrialRestores ==
  [][\A s \in Validators :
       LET t == trial[s] IN
       /\ t # NoTrial /\ trial'[s] = NoTrial /\ crashes' = crashes
       /\ \/ t.metrics = None
          \/ baseline[t.name] = None
          \/ ~metricsBeat(t.metrics, baseline[t.name])
       => dirs'[t.name][0] = t.before]_skillVars

\* The directories are well formed, no measured draft is lost, and none becomes a skill
\* untried (the validator, the engine and the drafts).
SkillInv == SkillTypeOK /\ DraftSurvives /\ UnprovenStaysDraft
=============================================================================
