# phus in TLA+

phus is a terminal AI agent: a TypeScript monorepo with a `core` package (types, sessions,
tape, plan store, hooks), a `runtime` package (the agent bridge, plan engine, provider mesh,
channels), a `tui` and a CLI. This directory holds TLA+ modules that model its stateful parts,
TLC configurations that check them on small instances, and TLAPS proofs of what holds for every
instance. Paths below are relative to the repository's root, or to `packages/runtime/src`,
`packages/core/src` and `packages/tui/src` where that is clear.

## Running it

    tlc -workers 2 -config MCSessionRegistry.cfg MCSessionRegistry     # any run of the table below
    tlapm SessionRegistryProofs.tla                                    # any module *Proofs

`PROJECT.json` lists the components, the runs, what each definition translates (`map`), the
hazards of the code and the properties that watch them, a broken variant of the code for every
property (`mutants`: each property fails when the variant takes the place of the definition it
is a variant of), the theorems, and the disagreements with the documentation (`findings`).

## Inventory

The program is a Node.js process. Its concurrency is that of promises: what runs between two awaits
cannot be interleaved, everything else can. Several such processes, a daemon and a terminal say, may
share one database; there an SQL statement or a transaction is what cannot be interleaved. State that
survives the process is in SQLite (tape, session catalog, plans) and in files (drafts, memory, skills,
configuration).

| Component | State | Operations | What is hard | What makes it correct | Module |
|---|---|---|---|---|---|
| Session runtime registry (`bridge/session-runtime-registry.ts`) | table of runtimes with `lastUsedAt`, `pending`, `tail`; selected Session; subscribers; permission handler | `getOrCreate`, `setSelected`, `runExclusive`, `evictIfNeeded`, `addSubscriber`, `setToolPermissionHandler`, `disposeAll` | turns queued on promise chains across evictions; checkpoints that throw in the middle of a pass | one turn of a Session at a time, in order; busy and selected runtimes stay; nothing is lost; the cap; every runtime wired | `SessionRegistry`, `SessionLanes` |
| Agent facade and session runtime (`bridge/pi-agent.ts`) | messages, abort controller, timers, current Session | `turn`, `abort`, `steer`, checkpoints, `clearConversation`, plan controls, permissions | watchdog and time-outs against late answers; a Session chosen before an await and used after it | a turn ends; a timer hits its own turn; a message runs where its user is | `Turn`, `SessionUse`, `Tools`, `Recall` |
| Plan runner, executor, verifier, sub-agent (`core/runtime/plan`, `executor`, `verifier`, `subagent`) | plan object of each run, `running`, `abortRequested`, attempts | `runPlan`, `createAndRun`, `resumePlan`, `executeStep`, `verify` | runs that overlap on one runner; replan, retry, abort and budget in any mixture; a crash in a batch | dependencies first; no finished work repeated or forgotten; a run ends; what passes is what was expected | `PlanRun`, `StepCheck` |
| Plan store (`core/src/session/plan-store.ts`) | plans, validation baselines and attempts | `save`, `load`, `loadActiveForSession`, `getInterruptedPlans`, reconciling | whole-row writes by the runner and the controls, by several processes | a row says what is the case | `PlanRun`, `PlanBook` |
| LLM fuse (`infra/llm-fuse.ts`) | calls per turn and hour, billing trip | `resetTurn`, `check`, `report` | one fuse for all Sessions; calls that forget to ask it | the budgets bind; the fuse closes again | `LlmFuse` |
| Provider mesh (`llm/provider-mesh`) | circuit, statistics and health of each endpoint | pick, call with failover, health checks | half-open circuits under concurrent calls; the health timer | a sound endpoint serves; an open circuit shields; a call ends | `ProviderMesh` |
| Session catalog (`core/src/session/session-store.ts`, `session-identity.ts`) | sessions, addresses, current session; people | create, resolve, close, reopen, archive, bootstrap; create, link, unlink, merge | several processes between two SQL statements | one Session per address, one person per subject; closed stays closed | `SessionCatalog`, `Identities` |
| Tape, checkpoints, compaction (`tape.ts`, `checkpoint.ts`, `compaction.ts`, `auto-compact.ts`, `context-select.ts`, `repo-file-index.ts`) | transcript, checkpoints, turns on the tape, index of files | append, checkpoint, prune, compact, restore, select | prune against latest; compaction across an await; wrapping counters | the latest checkpoint survives; no old turn dropped unsummarised; the request is bounded | `Transcript`, `Recall` |
| Scheduler (`core/src/runtime/scheduler`) | schedules, last tick | register, tick, start, stop | overlapping and missed firings | each due time fires once | `Scheduler` |
| Hooks, plugins and steering (`runtime/hook`, `infra/plugins`) | implementations, inbox | register, execute, load | a sort under a running execution; errors of one handler | none skipped, in order | `Hooks`, `Turn` |
| Channels (`packages/runtime/src/channels`) | connections, seen mails | poll, receive, send, reconnect, close | lost, repeated and late messages; a bot's own echo | a message leads to one turn and that to an answer | `Mailbox`, `Streams`, `Bots` |
| Gateway (`apps/cli/src/commands/gateway.ts`, `commands/gateway-daemon.ts`, `bridge/lifecycle.ts`) | stage, channels, services, registry of commands; service file | start, signal, shutdown; install, start, stop, uninstall | plugins that register late; steps that fail or are cut off | a shutdown releases everything; none runs that is not installed | `Gateway`, `Service` |
| Evolution, drafts, skills (`core/runtime/evolution`, `core/runtime/skill`, `infra/drafts.ts`, `infra/skills`) | directories, registry, drafts, baselines, trials | discover, write, delete, propose, validate, promote, demote | a trial that moves directories under the registry | a draft becomes a skill only after it was measured better | `SkillLoop` |
| Memory and autonomy (`infra/memory`, `infra/meta`) | the file phus.md, gate | apply, delete, compact, reflect, select | whole-file rewrites of a text that people edit | a write touches only what it names | `Memory` |
| Configuration, profile, safety | file, cache, environment, permission queue | load, interpolate, write, gate | wizards that save late | the agent starts with a key | `Setup`, `Panels` |
| Internal commands and CLI | default registry, CLI queue | init, register | plugins' late registrations | a command reaches the agent | `Gateway` |
| TUI (`packages/tui/src`) | busy flag, queue of messages, permission queue, panels, chat items, wizards | type, submit, abort, answer, events | microtasks and renders between two dispatches; late events of two plans or Sessions | no message lost, each request answered, what is shown is so | `Composer`, `Panels`, `PlanView`, `Chat`, `SessionUse`, `Setup` |

How they interact: channels, the TUI and the CLI hand an envelope to the facade, which selects or
creates the Session's runtime and runs the turn in that Session's lane (`runExclusive`). The turn
may run a plan (`/plan`, the `plan_create` and `plan_run` tools); the TUI resumes plans outside any
lane. Turns and plan steps call models under the fuse; turns append to the tape
and write checkpoints, which a new runtime restores. After a turn the reflector may write to the memory,
after a plan the evolution engine may write drafts.

## Modules

Each component's module stands alone. Three modules put the smaller ones side by side in one state
space (`MCProcess`, `MCTurn`, `MCTui`): a variable `part` is chosen in the initial state, and that
part's actions alone are taken, so that one run checks all of them without multiplying their states.

| Modules | Model | Proofs | Instances |
|---|---|---|---|
| `SessionRegistry`, `SessionLanes` | the registry of runtimes, with what eviction, checkpoints, clearing and restarts do to conversations; abstractly, what callers of `runExclusive` are promised | `SessionRegistryProofs` | `MCSessionRegistry` |
| `PlanRun` | calls of `runPlan` on one plan, its stored row and the user's controls | `PlanRunProofs` | `MCPlanRun` |
| `LlmFuse` | the budgets and the billing fuse shared by the turns of all Sessions | `LlmFuseProofs` | `MCLlmFuse` |
| `SessionCatalog` | the catalog of Sessions, shared by processes, and the way of a turn from its envelope to the tape | `SessionCatalogProofs` | `MCSessionCatalog` |
| `ProviderMesh` | overlapping calls, retries, failover, circuits, health checks | `ProviderMeshProofs` | `MCProviderMesh` |
| `Transcript` | what the agent remembers, sends and restores of one Session | `TurnProofs` | `MCTranscript` |
| `Identities` | the people behind the channels, shared by processes | `ProcessProofs` | `MCProcess` |
| `Scheduler`, `PlanBook` | what fires, and the plans in the home | `ProcessProofs` | `MCProcess` |
| `Mailbox`, `Streams`, `Bots`, together `Channels` | the channels of the gateway | `ProcessProofs` | `MCProcess` |
| `Gateway`, `Service` | the gateway's process and the service that starts it | `ProcessProofs` | `MCProcess` |
| `SkillLoop` | skills, drafts and their validation | `ProcessProofs` | `MCProcess` |
| `Memory` | the file of notes, the reflections that add to it, and what a prompt shows of it | `ProcessProofs` | `MCProcess` |
| `Turn` | the runtime that runs a turn, its timers and its inbox | `TurnProofs` | `MCTurn` |
| `Hooks`, `Tools`, `StepCheck`, `Recall` | what else happens inside a turn | `TurnProofs` | `MCTurn` |
| `SessionUse`, `Setup` | the Session of a user's next message, and the start with its wizards | `TuiProofs` | `MCTui` |
| `Composer`, `Panels`, `PlanView`, `Chat` | the rest of the terminal user interface | `TuiProofs` | `MCTui` |

### SessionRegistry

The table of entries is modelled field by field (`resident`, `lastUsedAt`, `pending`, `tail`),
as values of one record `Table` to which a synchronous segment applies several operations before
it is installed. One action is one such segment: `Enqueue` is `runExclusive` up to its await,
`Start` what follows the await, `Settle` the end of the turn it runs, `Finish` the finally block;
`SetSelected`, `GetOrCreate`, `Subscribe`, `SetToolPermissionHandler`, `DisposeAll` are the other
operations and `Restart` a crash. A promise chain is represented by its owners: `tail[s]` is the
turn whose release resolves the end of the lane, `waitsFor[t]` the turn whose release `t` awaits.

A conversation is the set of turns whose messages it contains. `memory[s]` is what the runtime
holds and `durable[s]` the Session's latest checkpoint; a checkpoint may fail at every call, which
makes the call that wanted it throw, with the effects it has had so far (`Evicts` with `ok =
FALSE`, `SelectThrows`, `Reject`).

Abstracted: what a turn does and returns; the order in which entries last used in the same
millisecond are tried (any order is allowed); `get`, `getSelected` and `list`, which only read. The
initial state has no Session selected; the facade's constructor selects the initial one, which
is the model's first `SetSelected`. A failure of the runtime's constructor (as opposed to a failing
checkpoint) is not modelled.

`SessionLanes` is the promise: a turn is submitted, begins once every turn submitted to its Session
before has ended, and ends. `Lanes` maps the registry to it: a turn's phase is read off its status,
and what it still waits for is the history variable `ahead`, so the refinement shows that the
chain of promises is as good as knowing all turns called earlier.

### PlanRun

Each call of `runPlan` has a stage: `levels` while it is in a synchronous segment, `batch` while it
awaits its steps, `replanning` while it awaits the planner. A segment is made of several small
steps (`OpenLevel`, `LaunchBatch`, `JoinBatch`, `Settle`, ...), and every other action requires that
no call be at `levels` (`Idle`): the steps are small, and still nothing comes between them. A crash
may.

`copy[c]` is the plan object of call `c` and `store` the row; saves write the whole object. The
controls (`Pause`, `Abort`, `Cancel`, `RetryStep`) load, change and save the row only, apart from
`Abort`, which also asks the runner to stop. `running` and `abortRequested` are one per runner and
shared by all its calls. `NextLevel` is `computeLevels` one level at a time, `StepSettles`,
`StepRetries` and `StepGivesUp` are the executor's loop with whatever the verifier may say: the
static rules ask for a retry at most twice and never for a replan, the opt-in model verification
(`LlmVerify`) may say anything.

Abstracted: what a step does; its error texts; the abort controller, whose signal no sub-agent
uses; the order of the steps in a level (a batch is any subset of the right size); the wall-clock
budget, which may run out before any level. `failed` is not a variable: a step is skipped exactly
if a dependency is not completed. Not modelled: steps stored as `blocked`, which nothing in the
code produces; saves that throw; the evolution engine after a plan; other plans on the same runner;
a second runner after an eviction; the choice of the newest active plan among several.

### LlmFuse

`openFor`, `callsThisTurn` and `hourWindow` are the fuse's fields; `sender` says which requests are out
and for whom, `turn` which Sessions have a turn running. Time is what has passed: `openFor` is what is
left of `billingOpenUntil`, `age` how old each call is, and `Tick` advances both; a member of
`Requests` is used again once it is older than an hour, so that the model runs for ever.

`StartTurn` is `resetTurn` and the turn's own `check`, which counts a call although nothing is sent;
`Stream` is the stream function of an agent or sub-agent, `StreamRefused` the same under the open fuse.
A refused call counts, too. `Complete` is `CorePort.complete`, which sends unchecked. `Charge` and `FailTurn`
are the calls of `report`: where a request fails, and where its turn does, which may be later, when
the fuse has closed; the error of the fuse itself speaks of billing, so that it is reported there as well.

Whether an error in a stream ends the turn is up to pi-agent-core, which is not in the repository: it may
or may not. Rate limits are only logged. The configuration is read at every check; it is taken
not to change. Plans resumed outside any turn stream, too: `Stream` and `Complete` need no running turn.

### SessionCatalog

`row` is the table `sessions` reduced to address and status, `lastTurn` its `last_turn_at`, `tape` the time
stamps of the turns on the tape. A request is one call of `PhusAgent.turn`; `stage` is where it is
between two SQL statements, `wants` the address of its envelope and `sid` the Session it has found. Since every
request may be in a process of its own, anything may come between two statements, though in one
process they are synchronous. `FindByAddress`, `Insert`, `Reread` and `Refind` are
`resolveOrCreate`; `EnsureGet`, `EnsureAdopts`, `EnsureGetsAgain` and `EnsureShelters` are `ensure`, which every
turn calls next; `Run` is the start of the turn in its lane and `Record` the transaction that appends it to the
tape and updates the catalog. `Boot` is `bootstrapFromTape`, which every process runs first; `Init` may hold a tape that is
older than the catalog. `CreateSession`, `Close`, `Reopen` and `Archive` are the facade's calls of the same names.
`Dies` is a turn that fails as well as a process that dies.

An address is a tuple: one of `Inbound`, the one that is read off an id (`Home`, which is injective, as
`legacySession` is), or the one `ensure` gives when that is taken (`Refuge`). The model lets turns of
one Session overlap, which the registry forbids within a process (see `SessionLanes`) and nothing forbids between two.

Left out: identities (see `Identities`), kinds, titles, tags, `list`, `created_at` and `updated_at`. `BEGIN` is deferred, so that a
transaction that reads first may fail when another process writes in between; such a failure is `Dies`.
Rows are never deleted, nor are tapes.

### ProviderMesh

Calls overlap on a mesh of endpoints. An attempt's outcome and the choice of the next are one step
(`Succeeds`, `Fails`), as no await lies between; `Pong` and `NoPong` are the outcomes of health
checks, `Interval` the timer's pass, which walks an iterator that is made once (`unchecked`), so that
it checks each endpoint at most once in all. `sound` is what the environment promises: the
endpoints that answer whatever they are sent. The back-off between attempts is any delay; `openFor`
and `age` saturate at the cooldown. The history `late` counts what a call still sends to an endpoint
after its circuit has opened. Weights and latencies decide an order only (`Rank`; a weighted choice is any).

### Transcript

One Session in one process. `live` is the agent's message list, each message a kind and the turns it
speaks of; `StartTurn`, `Ask`, `Reply`, `ToolResult`, `Record` and `TurnFails` take a turn through its
requests, and `Ask` runs `injectContext` as a whole, with the compaction that may fire and the
failures it may meet. A sub-agent's requests pass through the same function (`SubAgentAsks`).
Checkpoints are rows with a time stamp that is a millisecond and a counter modulo `Wrap`; `Save`,
`Prune`, `Restore`, `Clear`, `Rebuild` (eviction and a new runtime) and `Crash` are the operations.
Each message counts as one token.

### Identities

Every call is a sequence of statements, one step each, and a process may be anywhere in its call when
another writes; only the transaction of `create` and that of `merge` are atomic. A call may stop after
any statement, which is the crash. The unique key is the subject, so the loser of a race fails and rereads.

### The process around its turns

`Scheduler`: a tick is `Tick`, then `Skip` or `Fire` and `HookReturns` for each schedule in the order
of registration, and `TickEnds`; several overlap. `Due` gives the times of a cron expression.

`Mailbox`: a poll asks for the mails above `lastUid`, parses them in any order, and awaits one turn
after another; the timer does not wait for it. `Restart` loses everything but the mailbox.

`Streams`: event streams, which a client may open anew before the old one's close event, and WebSocket
connections with their overrides of the Session; a turn answers long after it was asked.

`Bots`: Slack, Telegram and the terminal, one at a time. A handler asks who the bot is (Slack), filters,
awaits the turn, which sends and may throw before or after, and posts the error; `close` comes at any time.

`Gateway`: the two agents a gateway process creates, the registry of internal commands they
initialise, plugins whose command is registered after an import, that is, later, and the shutdown, in
which closes may throw. `Service`: every command as its list of steps, each of which may fail or be the last.

`Memory`: the file is its head, what stands before the first heading, and a block for each heading line with the
entries under it. `splitSections` and `serialize` are what the code does at every write, so a heading that is repeated,
of another level or written within a note (`AppendHeading`) takes its effect. `TurnOver` is the reflection.

`SkillLoop`: the directories of a skill, its backups included, the registry over them, the drafts, and
the validator's trial between its awaits (`StartTrial`, `TrialPlanEnds`, and the outcomes); `PlanOver` is
the engine after a plan, `ApproveRemoves` the second half of an approval.

`PlanBook`: the rows of several plans under several processes, with the controls that look for "the
active plan" and the reconciliation of a process that starts. What happens within a plan is `PlanRun`'s.

### Inside a turn

`Turn`: the way of one runtime through its turns: `BeginTurn`, hooks that may refuse, a prompt or a
plan, `Send`, `EndTurn` or `Fail`; the external loop (`Poll`, `ModelAnswers`, `ModelCallsTool`,
`LoopEnds`); sub-agents with their time-outs; permissions; the watchdog, which fires once; the
user's aborts; and the steering inbox, which a turn drains at its start.

`Hooks`: `execute` walks the live array, so `LoadPlugins` while it awaits moves what is under its index; an
implementation is its plugin's place in the order of names and the load it came with, and a plugin whose import
throws is passed over. `Tools`: the pages of `file_read` and `grep` and the retries of `bash`. `StepCheck`: the
attempts at a step with `staticVerify` and `Matches`, the recursive comparison of values with shapes, as a function
on the depth of the shape, up to `Depth`. `Recall`: the scores of turns and files as integers
(the quotients' common denominators multiplied out), and the index that is scanned once.

### The terminal user interface

`Composer`: `Dispatched(n)` follows the render trigger through the dispatches of one piece of code, so that
what a dispatch defers to a microtask and what it does at once stay apart. `Panels`: the permission queue, the
overlays and the focus. `PlanView` and `Chat`: events as they may arrive, late ones included, and the state they
leave. `SessionUse`: the Session of the next message over commands, awaits and other processes.
`Setup`: what the configuration's readers and writers make of file, cache and environment, and the start that goes
from wizard to wizard; `Forward`, `Back`, `Toggle`, `TypeKey` and `Leave` are keys, `BeginSave` a save that ends later (`Progress`).

## Runs

| Run | Instance | States | Checks | Shows |
|---|---|---|---|---|
| `registry` | 3 Sessions, 2 turns, 1 subscriber, 1 permission handler, cap 1, 1 tick, 1 crash; symmetry | 140 572 | `BusyStaysResident`, `CapRespected`, `WiredUp`, `NothingLost` | evictions, switches, rebuilt runtimes, failing checkpoints and a crash, in any order, keep the table and the conversations as they should be |
| `lanes` | 2 Sessions, 3 turns, cap 1, calls in order, fairness | 25 069 | `ImplementsFairLanes` | the promise chain implements the lanes, and every queued turn runs |
| `plan` | 2 calls that may overlap, 3 steps in a tree, a cycle and a missing dependency, batches of 2, budget 2, 1 retry, 1 replan, 1 user retry, 1 crash; symmetry | 429 395 | `DependenciesFirst`, `CompletedMeansAll`, `StepBudget` | overlapping runs and controls neither run a step early nor leave a row that says what is not so |
| `plan_single` | one call after another, 3 independent steps in batches of 1, budget 2, 1 replan, 1 crash, fairness | 139 542 | `PlanEnds`, `NoRework` | every run ends; a resume continues where the one before stopped |
| `fuse` | 2 Sessions, 2 calls a turn, 1 an hour of 2 ticks, fuse of 3 ticks, fairness | 230 537 | `Budgets`, `FuseCloses` | the hourly budget and that of the newest turn bind, and the billing fuse closes, whatever overlaps |
| `catalog` | an id of the tape, 2 new ids, a chat's address and one that belongs to the old id, 2 requests, 2 times | 272 715 | `CatalogSound` | requests that race for an address or an id find one Session each; catalog and tape agree |
| `mesh` | 2 endpoints, one of them checked, 2 calls, 2 attempts, threshold 2, every set of sound endpoints, 3 strategies, fairness | 677 254 | `OpenShields`, `CallEnds` | an open circuit shields its endpoint, and every call ends |
| `transcript` | 3 turns, a window of 3 messages, 2 milliseconds, counter modulo 2, 2 rows; symmetry | 4 688 594 | `Remembers`, `TranscriptBounded` | the checkpoint restored is a recent one, a compaction forgets no older turn, a request is bounded |
| `process` | ten parts, see below; symmetry | 1 438 051 | `SchedulerInv`, `ChannelsInv`, `DaemonInv`, `MemoryInv`, `SkillInv`, `BookInv`, `IdentityInv`, `ShutdownReleases`, `OthersUntouched`, `BaselineImproves` | each due time fires once and no mail, stream or message is answered twice or not at all; a gateway shuts down whole and its service leaves none behind; notes, skills, plans and people survive whoever else writes |
| `turn` | five parts, see below; fairness | 1 425 179 | `TurnInv`, `HooksInv`, `ToolsInv`, `CheckInv`, `RecallInv`, `PromptEnds` | timers hit their own turn, steering keeps its order, a prompt ends; no hook is skipped, no page leaves a gap, no error passes for a result, nothing better is left out of a prompt |
| `tui` | six parts, see below; fairness | 443 771 | `ComposerInv`, `PanelsInv`, `ViewInv`, `SessionUseInv`, `SetupInv`, `QueueDrains`, `StartEnds` | no message is lost, each request waits its turn, what is shown is so, messages run where they were typed, the start ends and has a key |
| `lost_skill` | as `process` | - | violates `FailedTrialRestores` | a trial that fails does not restore the skill |

The invariants with a component's name are conjunctions, each with its type invariant. What they say beyond it:

| Invariant | Conjuncts |
|---|---|
| `SchedulerInv` | `OncePerDue`: a registration fires at most once for a due time; `NothingMissed`: a due time that has passed was fired, or a tick under way comes to it |
| `ChannelsInv` | `OneTurnEach`, `NoMailSkipped` (mailbox); `NewestStreamServed` (event streams); `EveryTurnAnswers`, `NoEcho` (bots) |
| `DaemonInv` | `CommandsReachAgent` (gateway); `ManagerKnows`, `NothingLeftRunning` (service) |
| `MemoryInv` | `NotesKept`: the latest notes of a section stay as given; `NothingSilentlyDropped`: a compaction leaves a first line of each; `MatchesShown` |
| `SkillInv` | `DraftSurvives`; `UnprovenStaysDraft`: no untried draft is a skill outside a trial |
| `BookInv` | `NothingLooksAlive`: a plan stored as running is run; `EveryPlanOffered`: an unfinished one that is not can be resumed; both while processes do not share the home |
| `IdentityInv` | `OneIdentityPerSubject`, `AnswersHold`, `NoneHalfMade` |
| `TurnInv` | `TimersHitOwnTurn`, `SteeredInOrder` |
| `HooksInv` | `NoHookSkipped` |
| `ToolsInv` | `PagedOnce`: who follows the footers sees every line once |
| `CheckInv` | `AttemptsBounded`, `ErrorsNeverPass`, `ShapeHolds`: every way into the shape that was expected leads, by the same labels, to something of the kind expected in the value that passed |
| `RecallInv` | `LatestOrBetter`, `NoGapInFallback`, `NewerOfEquals`, `FullMatchFirst` |
| `ComposerInv` | `NoMessageLost`, `BusyWhileWorking` |
| `PanelsInv` | `PanelAndFocus`, `WaitInOrder` |
| `ViewInv` | `StepsTrue` (plan panel), `ReplyShown` (chat) |
| `SessionUseInv` | `RunsWhereTyped`, `ChosenOpen`, `ShutRunsNothing` |
| `SetupInv` | `AgentHasKey` |

Some of these hold under a condition that names a weakness of the code: `NoEcho` needs the bot to have learnt who it is,
`UnprovenStaysDraft` that no skill stood in the way of the trial and no crash came, `BusyWhileWorking` that no abort or plan let go of
busy early, `NothingLooksAlive` that processes do not share the home. The condition is a history variable; what happens without it is under Findings.

**Bounds.** A cap of one with three Sessions is the smallest table that holds a selected, a busy
and an idle runtime and is over its cap; two turns meet in one lane or run in two, three make a
chain with a middle. One tick suffices for `lastUsedAt` to differ. One crash comes at any moment. Two calls
of `runPlan` are enough to overlap and to resume; three steps make a level that needs more than one
batch, or a batch that the budget cuts; a second replan repeats the first. An hour of two ticks and a fuse of
three let calls grow old, and errors be reported, halfway; two Sessions are enough for one turn to reset the
count of another; the theorems hold for every budget. Two requests are enough to race for an address or an id;
there are as many new ids as addresses, so that none is ever out of reach for lack of an id. Two times let turns
be recorded out of order. The view of the run `plan` leaves out the history variables, which none of its properties mention.

Two calls on two endpoints overlap on one circuit and fail over; a threshold and a retry count of two
let one call open what the other has begun on. Three turns, a window that three messages fill, two
milliseconds and a counter of two make a compaction, a wrap and a tie of time stamps; `MaxLength` stops
turns from adding messages, not from compacting them. In `MCProcess`: a registration and its
repetition with two ticks; three mails in two polls and a restart; three streams of one client, so that
two late closes meet a third; two chat messages, one of which may be the bot's own; one plugin in two
agents with three channels; two service definitions, the old and the new; three notes in a file of two
sections that people have muddled; one skill with two bodies, two validators and three plans; two plans
of one Session under two processes; two subjects and two callers. In `MCTurn`: two turns, since a timer
may outlive one, two sub-agents, two steering messages; five lines of any of three lengths for pages of
three lines and four bytes; seven turns for a budget of six, the smallest at which recency and relevance
can disagree in either way. In `MCTui`: five typed messages, of which an abort sends one and drops
three; three requests of two tools; two plans with one step id in common; three Sessions, the agent's, the terminal's and another.
Symmetry is used where no definition tells the members apart, and only in runs without liveness.

Deadlock is checked by the runs `mesh` and `transcript`; elsewhere the system really stops: users have done what
they may, calls are used up, clocks are at their bounds.

**Fairness.** `SessionRegistry`: a resolved promise lets its waiter run (`Start`), a turn ends
(`Settle`, which the watchdog of `SessionRuntime.turn` is for), a finally block runs (`Finish`), each
weakly fair for each turn; nothing is assumed of users. `PlanRun`: what a call can do, it does
(`Advance`): synchronous code goes on, a step ends because its sub-agent has a time-out, the
planner's call because the model call has one; one weak fairness condition for each call is enough,
since every step of a call brings it nearer its end. `LlmFuse`: time passes (`Tick`); requests need not be
answered and turns need not end. `ProviderMesh`: an attempt ends, one way or the other (`FairSpec`); health checks need not.
`Turn`: timers fire, code that can go on goes on, an aborted loop ends, a tool that was aborted ends and a plan's
sub-agents time out; the model need not answer nor the user decide. `Composer`: microtasks run,
files are read to an end, turns and plans end, the first of which `PromptEnds` is about. `Setup`: saves end, a wizard
that is done hands over, and the time-out of the wizard fires (`Progress`); the person need not press a key.

## Proofs

All theorems are proved for every value of the constants that the modules' `ASSUME`s allow, with `tlapm` 1.4.5.

| Module | Theorems |
|---|---|
| `SessionRegistryProofs` | `Invariance`; `TypeCorrect`, `LanesAreExclusive`, `BusyRuntimesStay`, `SelectedRuntimeStays`, `ConversationsStayApart`, `RuntimesAreWiredUp` (invariants); `NothingIsLost`, `CheckpointsGrow` (action properties); `Refinement`: `Spec => ImplementsLanes` |
| `PlanRunProofs` | `Invariance`; `TypeCorrect`, `DependenciesFirstHolds`, `CompletedMeansAllHolds`, `RunningIsRunHolds`, `StepBudgetHolds`; `NoReworkHolds` (action property, where calls do not overlap) |
| `LlmFuseProofs` | `Invariance`; `TypeCorrect`, `HourBudgetHolds`, `LatestTurnBudgetHolds`, and both together `BudgetsHold` |
| `SessionCatalogProofs` | `Invariance`; `TypeCorrect`, `OneSessionEachHolds`, `CatalogAgreesHolds`, the last two together `CatalogSoundHolds`; `OnlyReopenOpensHolds` (action property) |
| `ProviderMeshProofs` | `Invariance`; `TypeCorrect`, `SoundServes`, `Shielded` |
| `TurnProofs` | `TranscriptInvariance`; `TranscriptTypeCorrect`, `CheckpointIsRecent`, `Summaries`, the last two together `RemembersAll`; `Bounded` (action property); `TurnIsSound`; `NoHookIsSkipped`; `EachLineOnce`; `StepsEndAsExpected`; `RightRecall` |
| `TuiProofs` | `MessagesRunWhereTyped`; `StartedWithAKey`; `NoTypedMessageIsLost`; `RequestsWaitTheirTurn`; `PanelTrueToPlan` and `RepliesAreShown`, together `ScreenIsTrue` |
| `ProcessProofs` | `EachDueTimeFiresOnce`; `IdentitiesCorrect`; `BookTellsPlansApart`; `MailAnsweredOnce`, `NewestStreamWins` and `EveryoneIsAnswered`, together `ChannelsAnswer`; `CommandsReachTheAgent` and `NoServiceLeftBehind`, together `DaemonIsSound`; `ShutdownIsComplete` (action property); `DraftsAreProven`; `BaselinesImprove` (action property) |

What is proved of every instance is not checked again by a run where the run would only repeat it: `TypeOK` of six
modules, `LaneExclusive`, `ImplementsLanes`, `SelectedIsResident`, `ConversationsNotShared`, `CheckpointsOnlyGrow`,
`RunningIsRun`, `OnlyReopenOpens` and `SoundEndpointServes` are such properties.

**The registry.** For all finite sets of Sessions and turns, every cap, every set of subscribers and any number of
crashes and ticks. The properties are not inductive: that a busy runtime stays, for instance, depends on
`pending` counting exactly the unfinished turns of its Session, and that turns exclude each other
on the shape of the whole chain. The inductive invariant `IInv` is the conjunction of `TypeOK` and

- `LaneInv`: unfinished turns have a Session; each waits for a turn of its own Session; the turns it
  waits for, directly or not, are those in `ahead`; `ahead` orders the turns of a lane; `tail` is the last of them;
- `CountInv`: `pending[s]` is the number of unfinished turns of `s`;
- `TableInv`: the selected runtime and every runtime with pending turns are resident, conversations
  hold turns of their own Session only, and a runtime is wired exactly if it is resident.

The operations on the table are proved one by one to keep `TableInv` and to keep messages (`Keeps`,
`KeepsMessages`), and each action is a composition of them. The lane part is proved for the three
actions that touch it (`Enqueue`, `Finish`, `Restart`). `CapRespected` is inductive given `IInv`: a pass that
completes has room, or only busy and selected runtimes are left over it, and between two passes no runtime
is added and none loses its protection without another pass. It is assumed that the cap is positive, the bounds are naturals,
the null values are no Session and no turn, Sessions and turns are finite, and a subscriber is no permission handler.

**Plans.** For all finite plans the planner may write, any set of calls, overlapping or not, and all limits, whatever
the verifier says; a plan has steps and finitely many, at least one step may run at a time, and
the limits are naturals. `DependenciesFirst` is not inductive: the steps in flight come from `ready`, which was
computed when the level was opened, and between the two other steps of the level end. The invariant
`CallInv` therefore says of ready and flying steps alike that their dependencies are completed and they
are not, that the two sets are disjoint (so a step that completes is not among those left), that the copy of a
call in progress is marked as running (so each of its saves leaves a row that is being run), that
only a batch has steps in flight, and that a call that waits for the planner has an attempt left.
Each marking of a plan is shown once to change step statuses only (`MarkedLemma`) and, unless
it completes something, to keep the completed steps (`CompletedLemma`). `NoReworkHolds` assumes `~Overlap`, the
other value of the constant that says whether a plan being run may be run again; with overlapping calls it is false.
`SoleInv` is what it needs: one call is in progress at most, and its copy has all that the row has as completed, since a
control that loads the row changes no completed step and a resume starts from what is stored.

**The fuse.** For any set of Sessions, finitely many calls an hour, all budgets and any length of the hour and of the
fuse. `HourBudget` speaks of what was sent, the code of the time stamps it keeps. `WindowInv` connects the two: a
stream sent within the hour still has its stamp in the window, because a stamp is dropped only
when it is older than the hour. `LatestInv` says that the newest turn has made one check more than streams
since the last reset: other turns may raise the count, and none can lower it without becoming the newest.

**The catalog.** For any sets of ids and addresses and any number of requests, each possibly in a process of its own;
given and new ids differ and no inbound address is a `Refuge`. Every step leaves each row at its address (`RowsStay`)
and keeps to the unique index (`IndexInv`). `PlaceInv` says what a request knows at each stage: one that has found
the Session of its address is at that address still, and one that is queued or running has a row. Two requests for one
address are then at one row. `OldInv` is for the first process that starts, which finds a tape and no catalog; for each
later one `CatalogAgrees` leaves nothing to insert (`NothingNew`).

**The mesh.** For any endpoints, any policy with at least one attempt and a threshold of one, and any number of calls.
`ShieldInv` strengthens `OpenShields`: while a circuit is open, what a call has tried there since it opened and
the retries it has left there are together fewer than what it may try at a closed one, since
the attempt that was under way is neither. `SoundInv` says that a sound endpoint's circuit is closed, as nothing
ever fails there, and that a call that has come to it is still there; a call that gives up has tried every endpoint.

**The transcript.** For any window, wrap, `keep` and number of turns. `RowsInv`: some checkpoint is the latest, it is of
the millisecond of the latest save, and no other is of a later one; pruning keeps a row that is latest by its stamp. That is
as much as the code gives: within one millisecond the counter may wrap and an older checkpoint win. `Bounded` needs no
invariant but the types: what a compaction leaves is bounded by `MaxMessages` and by the messages it must keep.

**Identities.** For any number of processes. The invariant adds to `IdentityInv` what a call must know between two of
its statements (`CallsKnown`): the identity it acts on is in the table, since none is ever deleted: the one
operation that would, a merge, cannot succeed (see below).

**The scheduler.** For any schedules, periods and number of overlapping ticks. `WindowInv`: each tick answers for a
window of time, the windows of two ticks do not overlap, and none goes beyond the latest tick. `FiredInv`: what has fired is older
than that and, of a window still open, was fired by its own tick. So a due time has one tick that
can fire it, and it cannot be passed without that tick having visited the schedule.

**The plan book.** For any number of plans and processes. The invariant adds to `BookInv` that only a living process
runs plans, that no row is of the future, and that a home that is not shared has one process at most: that is what
makes a start's reconciliation mark exactly the plans nobody runs.

**The channels.** For any number of mails, polls, clients, streams and messages. `MailIInv` adds that the uids
seen are those of the turns, and that below a mail that a poll holds each is dealt with or held by the same
poll: so raising `lastUid` to that mail skips none, whatever the other polls do. `StreamsIInv`: an open stream
is the one its client's answers go to. `BotsIInv`: a handler past its turn has posted, unless posting failed.

**The gateway and its service.** For any command line, configuration and plugins. `GatewayIInv` adds to `GatewayInv` that what
still listens during a shutdown is among the channels still to be closed: so none is left once the last close has returned
or thrown. `ServiceIInv` says what can be left of a command when a step fails, and that the file of a definition is removed
only after the service was stopped or could not be; launchd, which has no reload, knows the definition it runs.

**Skills and drafts.** For any names, bodies and metrics, any number of validators and any crashes. `SkillIInv` says of each name
where it is: while nobody writes skills by hand, one that was tried or measured has its draft, an archived one or its own directory (`Somewhere`); and while no skill
of the name was ever moved aside and nothing crashed, there is one directory, the registry serves it, and a draft in it
is on trial or was promoted (`InTheOpen`).

**The turn.** For any number of turns, sub-agents and posts. `TimerInv` says which timers are armed at each stage and that the
timer of a sub-agent is of the turn that waits for it; `StageInv` which stages know a turn. Steering messages are the sequence
`said \o queue \o inbox`, from which each step moves a part of one into the next (`MovesOver`).

**The choice of a Session and the start.** `UseIInv`, for any Sessions: the TUI takes messages only once it has chosen one, and until
another is chosen the one selected is the one a message was typed in. `SetupIInv`, for any profiles, files and environments: nothing is
cached before the start reads the file, and a save that has still to read it is one of a key. `ReadingsAgree` is the point: a
profile that has a key by the reading that replaces references has one by the agent's own, which replaces none.

**Hooks.** For any plugins, found in any order of names, and any number of loads, some of which throw. `ArrayInv`: the live
array is the sorted sequence of the set registered, so a sort is determined by what it sorts and an insertion moves
entries back, never forward (`MovesBack`). `WalkInv`: an execution has called each entry below its index
that was there when it began, in order; an entry may come under the index a second time, but none passes it unseen.

**Pages, retries, shapes.** For any lines, any page size and any calls. `EachLineOnce` rests on three lemmas: the number of
bytes of a stretch of lines exists as a recursive function (`BytesLemma`, by a least length at which it
would not), a cut leaves whole lines and none only if the first is longer than a page (`CutLemma`), a page
lists a set of lines once and in order (`PageLemma`). `StepsEndAsExpected` is for any values, any keys and any
`Depth`: `MatchesLemma` shows level by level that the comparison exists, `LeadsLemma` by the length of a way
into the shape that a value that passes can be walked along it.

**Recall.** For any words, turns, files and budgets. What is selected are the best of a ranking (`SelectedLemma`: ranks are counts of
what precedes, and the order is total and transitive, for quotients compared crosswise by `Crossed`). Then
what the properties say of any two turns follows from scores that are monotone in what they share with the query and how recent
they are (`LatestScore`, `NewerScore`, `UnrelatedScore`, `FullScores`).

**The terminal.** For any messages, tools, plans and Sessions. `ComposerIInv`: every message typed is in one of five places, once
(`InHand` for the one between two of them), and unless something let go of busy early, busy says that a turn, an
expansion or a plan is under way, and there is one. `PanelsInv` is inductive with the types of the requests. `PlanViewIInv`:
`StepsTrue` over plans that have steps in common, given that an empty panel knows no steps. `ChatIInv` says which items may still be open in which
phase (`NoneOpen`), and that the reply under way is the last of its kind (`LastIsReply`, `NothingAhead`).

**The memory.** For any file, names of headings, number of writes and lengths a compaction keeps. `MemoryIInv` says of each
section whose heading is no summary's three things: only entries before the last `KeepLast` are compacted ones (`UnagedLast`); the
latest notes given to it are its last, as given (`Latest`); and each note given has an entry of its number there, unless `MaxOlder`
compacted ones are (`Traced`). `NothingSilentlyDropped` is not inductive without the first: compacted entries among those a
compaction keeps would count as lines of its summary. `ParseLemma` is the bridge to the code's way of writing: the text that parsing collects under a heading is the
text under it in the file, wherever that stands, and `SerializeLemma` that the file written has each heading once. So `ChangeLemma`,
`DeletedLemma`, `InsertedLemma` and `PackedLemma` say for each way of writing what becomes of every section, the named ones and the others.
The recursive functions of the model, the parse and the pass of a compaction, exist by `Iteration`, from a least number of
steps at which they would not.

**Only model-checked:** liveness (`ImplementsFairLanes`, `PlanEnds`, `FuseCloses`, `CallEnds`, `PromptEnds`, `QueueDrains`,
`StartEnds`), which is beyond the prover. Every invariant and every action property of the runs is a theorem.

## Not modelled

- Rendering, layout and completion in the TUI, and the vendored terminal library: no protocol of their own.
- The configuration's schema and `config/validate.ts`: pure checks of one value. `safety.ts` beyond the gate: lists of commands.
- Metrics, titles, tags and the lists for display: only read and print.
- The tools `file_write`, `edit` and `glob`: single calls of the file system.
- The WhatsApp channel, which throws; `DiffTracker`, the palette's history and `runSetupWizard`, which have no production caller.
- Switching the model, the sub-agent commands and the planner's texts.
- The external parts (the loop of pi-agent-core, SQLite, the mail server, Slack, Telegram, systemd, launchd) are
  modelled from how the code uses them, and marked external where a definition stands for one.

## Plan

Done: everything above, in the order of the module table. What is left, in the order of its use:

1. An abstract life of a plan, with a set of completed steps that only grows, and `PlanRun` shown to implement it.
2. `Turn` and `SessionRegistry` in one module, so that the lane and the watchdog meet; `Composer` over both.

## Findings

`lost_skill` (`MCLostSkill.cfg`) is the violation `PROJECT.json` quotes: `demoteDraft` says that it restores any backup
(`core/src/runtime/skill/validator.ts:165`), but the registry's rediscovery has meanwhile taken the backup, a directory
beside the skill with the same name inside, for the skill; so it is the backup that is deleted, and a trial that fails leaves the draft in its place.

Further facts seen while modelling, each of which the models follow, with no run of its own:

**Turns and Sessions**
- The turns that `clearConversation` cleared come back from the checkpoint, or by a compaction's summary; `setSelected` may throw
  after the selection has moved; a closed Session runs a turn that was queued before.
- The fuse's count per turn is one for all Sessions, so each new turn resets the others'. `complete` (`core-port-impl.ts:126`) calls
  the model without `fuse.check`, though `llm-fuse.ts:7-9` speaks of every call.
- The watchdog fires once; if that is during a slow hook, the prompt is unbounded, against the "hard upper bound" of `pi-agent.ts:1006`.
  The planner's call gets no signal, and a planner that fails is followed by a normal prompt. `subagent/index.ts:117-120` says that
  siblings are aborted; nothing listens to that signal. A sub-agent's time-out aborts the parent's turn, even one that has nothing to do with it.
- A `send` that fails leaves its turn neither recorded nor checkpointed. `collectToolCalls` collects the calls of all turns.
- `phus run --session X` runs in the terminal's default Session, not in X (`channels/cli.ts:88-91`, `pi-agent.ts:2111-2122`);
  `/checkpoint restore <n>` always restores the latest (`checkpoint.ts:53-66`); `/end` leaves the closed Session selected, and the next message runs in it;
  a message's Session is read after its files (`submit-message.ts:54-64`); the constructor selects `initialSessionId` unchecked.
- `new_session` of the WebSocket channel (`websocket.ts:243-248`) creates a Session at an address that is taken from the
  client's first message on: `createSession` throws. `bootstrapFromTape` takes `updated_at` from `MAX(ts)` of all entries
  (`session-store.ts:295`), those of checkpoints among them, whose `ts` is a thousand times a time (`checkpoint.ts:44`).
- Identities have no production caller, though `envelope.ts:73` says that they are stamped by the turn. `merge` gives seven values for four
  columns and cannot succeed (`session-identity.ts:159-163`); `linkSubject` reports success though a race gave the subject to another; two
  overlapping unlinks can leave an identity without a subject.

**Transcript and memory**
- Trimming keeps messages, not turns, and may cut the turn's own prompt or a tool result's call; a summary that says
  "(nothing to compact)" is still prepended; when a compaction fires, `buildContextBlock` is not run for that call; a
  sub-agent's `transformContext` works on the parent's transcript (`pi-agent.ts:533`), against "never bleed" (`pi-agent.ts:1523-1541`);
  restoring and clearing do not wait for the lane; checkpoints are per turn, not after every tool call (`checkpoint.ts:5`).
- `context-select.ts:7` falls back to the last N turns, but `minScore` drops those whose recency is below a sixth: of ten
  turns that do not match only nine come. The index of files is scanned once; an empty query lists in the order of the walk.
- In phus.md a `###` section cannot be addressed; a heading line inside a note opens another section and resets the authority; a
  pinned summary is stale after the first compaction; two processes can lose an update; reflections leave no entry on the tape.

**Plans and skills**
- A step that asks to replan outweighs an abort (`plan-runner.ts:314` looks at `replanRequested` before `stoppedEarly`); runs that overlap share
  `abortRequested`, so an abort misses one; a cancel does not stop the runner. Each `retryStep` raises `retryCount`; past `maxRetries` the step fails
  again without having run. `pi-agent.ts:744-750` takes a single writer for granted. Pause and resume act on the newest unfinished plan only.
- `requireLLMVerify` is never set in production; with it a thrown error may pass as "proceed", contrary to `verifier/index.ts:43-45`. `in` on a
  primitive throws, so that a list with a primitive before the fitting element mismatches, though the comment (line 250) says any element may match.
- After a trial that improves, the registry points to the removed backup until it next discovers; a draft written during a trial is overwritten;
  `skill_write` during a trial is deleted by the demotion; a crash in a trial leaves an untried skill. The header of `drafts.ts` says `.drafts`,
  the agent's drafts are in `drafts`, so `,skill-review` lists nothing.

**Scheduler, channels, gateway**
- A schedule that is unregistered and registered anew during a tick fires again in it; due times that pass in one window fire once; a stop and start loses those between.
- E-mail replies go to the message id (`email.ts:138,179`); Slack replies lose their thread while errors keep it, and the mention test looks for the
  sender's own id (`slack.ts:105`); if `auth.test` throws the bot may answer itself; a turn that throws after it has sent posts both; the terminal's end of
  input exits with turns in flight (`channels/cli.ts:69-72`); a closed mailbox goes on with its batch; after a restart every mail is answered again, and a mail that is
  parsed too late never; Telegram and Slack send nothing, silently, when closed.
- The CLI queue is drained before the plugins are loaded; the throwaway agent is never disposed; a plugin's late command throws when its name is taken; every
  `,command` rebuilds the registry and plugins' commands vanish, against "Idempotent" (`internal-commands/index.ts:92-94`); `setScheduler` is never called, so `,schedule` reaches none.
- Uninstall ignores a failing stop; launchd's restart fails when nothing is loaded, systemd's starts; a failing reload leaves the manager with the old definition.
- A plugin's hooks are registered again by each `/reload` (`pi-agent.ts:1666`), and one that registers during an execution may run an implementation twice.

**Mesh and tools**
- A failure while half-open never opens the circuit again, though `circuit.ts:54` says so; the health check's timer iterates over an iterator that is made once
  (`provider-mesh/index.ts:66-69`); a failed check opens nothing, a good one half-opens before the cooldown. `mesh.call` has no caller but the tests.
- An error of bash whose command contains "timeout" is retried, a real time-out is not; `file_read` skips a line that is longer than a page; `include_ignored` of grep
  is inverted (`tools.ts:272`), and its pages are cut before they are filtered.

**Terminal and configuration**
- `memory_write` fails in the TUI unless it was granted (`App.ts:656` reads `req.args` for `req.args.action`). An answer goes to the head of the queue while the panel shows
  the request that was first (`App.ts:775`); closing the resume prompt beside a panel leaves that unanswerable. An abort lets one queued message run, though
  `App.ts:546-552` says that everything stops; plan commands pass whether busy or not; a stale timer clears a newer plan's panel; a notice between deltas and the sending
  shows the reply twice (`channel.ts:35-40`).
- The agent's own loader never interpolates, so that `${VAR}` reaches the provider as it stands, against `interpolate.ts:4-6`; an unset variable counts as a key; an
  unknown `PHUS_PROFILE` makes the cancelled branch of `startTui` throw; the wizard for keys writes to the default profile whichever is active; a second `y` or Enter
  begins a second save, and a late one overrides the step; the time-out may report "bootstrap cancelled" with a file written.
