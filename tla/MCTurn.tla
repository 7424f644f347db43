---------------------------------- MODULE MCTurn ----------------------------------
(***************************************************************************)
(* The parts of a turn: the runtime that runs it, the hooks it executes,   *)
(* the tools it calls, the check of a plan's step, and what of the past    *)
(* goes into the prompt.  They share no state, so that a run is of one of  *)
(* them, chosen by part, and the others keep their initial states.         *)
(***************************************************************************)
EXTENDS Turn, Hooks, Tools, StepCheck, Recall, TLC

CONSTANTS pa, pb, pc

VARIABLE part

\* A plugin of the configuration that the directory holds as well, one of high priority.
ConfigDef == <<pa>>
FolderDef == <<pa, pb, pc>>
PriorityDef == (pa :> 0) @@ (pb :> 1) @@ (pc :> 0)

\* What steps expect and get: flat and nested objects, a list, null, and of each what is too
\* little or of another type.
Flat == Object([a |-> Leaf])
Nested == Object([a |-> Object([b |-> Leaf])])
WithNull == Object([a |-> Null])
Empty == Object(<<>>)
ShapesDef == {Empty, Flat, Nested, WithNull, Null, List(<<Flat>>)}
ValuesDef ==
  {Null, Leaf, Empty, Flat, Nested, WithNull, Object([b |-> Leaf]),
   List(<<>>), List(<<Flat>>), List(<<Leaf, Flat>>)}

\* Three files: one matches a word in full and another in part, two match both in full.
TokensDef == <<{"a"}, {"a", "b"}, {"a", "b"}>>
InsideDef == <<{"b"}, {}, {}>>

MCTurnInit ==
  /\ part \in {"turn", "hooks", "tools", "check", "recall"}
  /\ TurnInit /\ HooksInit /\ ToolsInit /\ CheckInit /\ RecallInit
  \* The parts that do not run start from one state only.
  /\ part # "turn" => handler = FALSE
  /\ part # "hooks" => isolate = TRUE
  /\ part # "tools" => tool = "bash" /\ lines = <<>>
  /\ part # "check" => expected = CHOOSE e \in Expectations : TRUE
  /\ part # "check" => useLlm = FALSE
  /\ part # "recall" => onDisk = {}

\* Only the part p moves.
Only(p) ==
  /\ part = p /\ UNCHANGED part
  /\ IF p = "turn" THEN TRUE ELSE UNCHANGED turnVars
  /\ IF p = "hooks" THEN TRUE ELSE UNCHANGED hookVars
  /\ IF p = "tools" THEN TRUE ELSE UNCHANGED toolVars
  /\ IF p = "check" THEN TRUE ELSE UNCHANGED checkVars
  /\ IF p = "recall" THEN TRUE ELSE UNCHANGED recallVars

MCTurnNext ==
  \/ Only("turn") /\ TurnNext
  \/ Only("hooks") /\ HooksNext
  \/ Only("tools") /\ ToolsNext
  \/ Only("check") /\ CheckNext
  \/ Only("recall") /\ RecallNext

mcTurnVars == <<turnVars, hookVars, toolVars, checkVars, recallVars, part>>

MCTurnSpec == MCTurnInit /\ [][MCTurnNext]_mcTurnVars /\ TurnFairness
=============================================================================
