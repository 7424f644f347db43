---------------------------------- MODULE Hooks ----------------------------------
(***************************************************************************)
(* The hook registry (packages/core/src/runtime/hook/registry.ts) and the  *)
(* plugins that fill it (packages/runtime/src/infra/plugins/loader.ts).    *)
(*                                                                         *)
(* execute awaits one implementation after the other and walks the very    *)
(* array that register sorts in place, so a plugin that registers while an *)
(* execution waits moves the implementations under it.  A reload registers *)
(* every plugin again and takes nothing away.  The model follows one hook  *)
(* and one execution of it; of a plugin it keeps its priority.             *)
(***************************************************************************)
EXTENDS Integers, Sequences, FiniteSets, Functions

CONSTANTS
  InConfig,    \* the plugins named in the configuration, in order
  InFolder,    \* the plugins found in the plugins directory, in order
  Priority,    \* the priority each registers with
  MaxLoads,    \* bound: the first load and the reloads
  MaxRuns      \* bound: the executions

ASSUME HooksAssumption ==
  /\ {InConfig, InFolder} \subseteq Seq(DOMAIN Priority)
  /\ \A p \in DOMAIN Priority : Priority[p] \in Int
  /\ MaxLoads \in Nat /\ MaxRuns \in Nat

VARIABLES
  impls,     \* the implementations, as <<number of the plugin, load>>
  loads,     \* how often the plugins were loaded
  isolate,   \* isolateErrors
  exec,      \* the execution
  runs       \* how many executions there have been

hookVars == <<impls, loads, isolate, exec, runs>>

Modes == {"first_result", "chain", "broadcast"}

\* mode and pos: what is executed and how far; before: the implementations there were at
\* its start; ran: those called so far; end: whether it returned a value, nothing, or threw.
NoExec == [mode |-> "none", pos |-> 0, before |-> <<>>, ran |-> <<>>, end |-> "none"]

Named == InConfig \o InFolder

\* discoverPluginPaths: those of the directory that the configuration does not name.
Found ==
  {k \in DOMAIN Named :
     k > Len(InConfig) => \A i \in DOMAIN InConfig : InConfig[i] # Named[k]}

\* The order of register, whose sort is stable: the higher priority, then the earlier push.
Earlier(a, b) ==
  \/ Priority[Named[a[1]]] > Priority[Named[b[1]]]
  \/ /\ Priority[Named[a[1]]] = Priority[Named[b[1]]]
     /\ a[2] < b[2] \/ (a[2] = b[2] /\ a[1] < b[1])

Sorted(S) ==
  [n \in 1 .. Cardinality(S) |->
     CHOOSE a \in S : Cardinality({b \in S : Earlier(b, a)}) = n - 1]

\* Mutant: an isolated failure returns from the execution.
EndsChain(how) == how = "throws"

\* handleHookError: a failure ends the execution only when errors are not isolated.
Propagates(how) == how = "throws" /\ ~isolate

-----------------------------------------------------------------------------
HooksInit ==
  /\ impls = <<>> /\ loads = 0
  /\ isolate \in BOOLEAN
  /\ exec = NoExec /\ runs = 0

\* loadPlugins: at the start, and again in reloadSkillsAndPlugins.  Those of good register;
\* the others throw and are skipped.
LoadPlugins(good) ==
  /\ loads < MaxLoads
  /\ loads' = loads + 1
  /\ impls' = Sorted(Range(impls) \cup (good \X {loads + 1}))
  /\ UNCHANGED <<isolate, exec, runs>>

Execute(mode) ==
  /\ exec.mode = "none" /\ runs < MaxRuns
  /\ runs' = runs + 1
  /\ exec' = [NoExec EXCEPT !.mode = mode, !.before = impls]
  /\ UNCHANGED <<impls, loads, isolate>>

\* The array that is walked is register's own; before the first registration there is none.
Walked == IF exec.before = <<>> THEN <<>> ELSE impls

\* The loops of first_result and chain: one implementation is called and awaited.
CallNext(how) ==
  /\ exec.mode \in {"first_result", "chain"} /\ exec.end = "none"
  /\ exec.pos < Len(Walked)
  /\ exec' = [exec EXCEPT
       !.pos = @ + 1,
       !.ran = Append(@, impls[exec.pos + 1]),
       !.end = IF Propagates(how) THEN "threw"
               ELSE IF how = "value" /\ exec.mode = "first_result" THEN "value"
               ELSE "none"]
  /\ UNCHANGED <<impls, loads, isolate, runs>>

\* The array has no further element.
WalkEnds ==
  /\ exec.mode \in {"first_result", "chain"} /\ exec.end = "none"
  /\ exec.pos >= Len(Walked)
  /\ exec' = [exec EXCEPT !.end = IF exec.mode = "chain" THEN "value" ELSE "nothing"]
  /\ UNCHANGED <<impls, loads, isolate, runs>>

\* broadcast starts every implementation before it awaits any.
CallAll(failing) ==
  /\ exec.mode = "broadcast" /\ exec.end = "none"
  /\ exec' = [exec EXCEPT
       !.ran = exec.before,
       !.end = IF failing /\ Propagates("throws") THEN "threw" ELSE "value"]
  /\ UNCHANGED <<impls, loads, isolate, runs>>

Return ==
  /\ exec.end # "none"
  /\ exec' = NoExec
  /\ UNCHANGED <<impls, loads, isolate, runs>>

HooksNext ==
  \/ WalkEnds \/ Return
  \/ \E good \in SUBSET Found : LoadPlugins(good)
  \/ \E mode \in Modes : Execute(mode)
  \/ \E how \in {"value", "null", "throws"} : CallNext(how)
  \/ \E failing \in BOOLEAN : CallAll(failing)

HooksSpec == HooksInit /\ [][HooksNext]_hookVars
-----------------------------------------------------------------------------
Implementations == Found \X (1 .. MaxLoads)

\* Every variable has its type.
HooksTypeOK ==
  /\ impls \in Seq(Implementations)
  /\ loads \in 0 .. MaxLoads /\ runs \in 0 .. MaxRuns
  /\ isolate \in BOOLEAN
  /\ exec \in [mode : Modes \cup {"none"}, pos : Nat, before : Seq(Implementations),
              ran : Seq(Implementations), end : {"none", "value", "nothing", "threw"}]

\* With isolated errors an execution that runs to its end has called every implementation
\* that was there when it began, in the order of their priorities, though others failed
\* before it or plugins were loaded meanwhile; one that returns early has called them up
\* to the one that gave its result (execute and handleHookError).
NoHookSkipped ==
  exec.end # "none" /\ isolate =>
    /\ exec.end # "threw"
    /\ (exec.mode = "first_result" /\ exec.end = "value")
         \/ Range(exec.before) \subseteq Range(exec.ran)
    /\ \A k, l \in DOMAIN exec.before : k < l =>
         \A j \in DOMAIN exec.ran : exec.ran[j] = exec.before[l] =>
           \E i \in 1 .. j - 1 : exec.ran[i] = exec.before[k]

\* The registry's state is well formed and an execution leaves no hook out (execute).
HooksInv == HooksTypeOK /\ NoHookSkipped
=============================================================================
