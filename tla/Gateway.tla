--------------------------------- MODULE Gateway ---------------------------------
(***************************************************************************)
(* One `phus gateway` process, from its start to its exit: the CLI         *)
(* registers the commands of plugins with a throwaway agent                *)
(* (apps/cli/src/program.ts), the gateway creates its own agent, collects  *)
(* the channels and lets them listen (apps/cli/src/commands/gateway.ts,    *)
(* packages/runtime/src/commands/channels.ts), and a signal shuts it down  *)
(* (bridge/lifecycle.ts).                                                  *)
(*                                                                         *)
(* Plugins are loaded with each agent (infra/plugins/loader.ts).  The      *)
(* internal command of a plugin is registered after an import, that is, at *)
(* some later moment, in the default registry of the moment                *)
(* (runtime/internal-commands).                                            *)
(***************************************************************************)
EXTENDS Naturals, Sequences, FiniteSets, SequencesExt

CONSTANTS
  Names,      \* the names of channels
  Plugins     \* bound: the plugins that register an internal command and a CLI command

Agents == {"throwaway", "gateway"}

\* A channel adapter: its name and where it comes from.
Channel == [name : Names, from : {"cli", "config", "plugin"}]

Stages == {"start", "drained", "throwaway", "parsed", "created", "opening", "running",
           "closing", "exited", "dead"}

ASSUME NamesAssumption == IsFiniteSet(Names)

VARIABLES
  stage,      \* how far the process is
  services,   \* the agent whose services internal commands were initialised with last
  registry,   \* the default registry of internal commands
  queue,      \* the plugins that have queued a CLI command
  late,       \* <<agent, plugin>> whose internal command is still to be registered
  live,       \* the agents that have been created and not disposed
  channels,   \* the channels of the gateway, in the order in which they listen
  listening,  \* those that listen and that no close has been called of
  left,       \* how many of them the process has still to let listen, or to close
  ticking     \* whether the scheduler runs

gatewayVars ==
  <<stage, services, registry, queue, late, live, channels, listening, left, ticking>>

NoRegistry == [agent |-> "none", commands |-> {}]

\* The built-in commands over the services of an agent.
Builtins(a) == [agent |-> a, commands |-> {"builtin"}]

\* initInternalCommands: every caller passes a new function for the home directory, so
\* that the services never equal those before and the registry is built anew.
Initialised(a) == Builtins(a)

\* The elements of a sequence at certain places, in their order.
Nth(S, k) == CHOOSE i \in S : Cardinality({j \in S : j < i}) = k - 1
At(s, S) == [k \in 1 .. Cardinality(S) |-> s[Nth(S, k)]]

\* collectChannels before it removes duplicates.
InOrder(cli, config, plugin) ==
  LET others == {i \in DOMAIN config : \A k \in DOMAIN cli : cli[k].name # config[i].name}
  IN  cli \o At(config, others) \o plugin

\* The first of each name wins.
FirstOfName(s) ==
  At(s, {i \in DOMAIN s : \A j \in 1 .. i - 1 : s[j].name # s[i].name})

\* Adapters from one source, in the order of their names.
From(source, names) == {[k \in DOMAIN q |-> [name |-> q[k], from |-> source]] : q \in names}

\* The sequences of at most two names.
Lists == {<<>>} \cup {<<n>> : n \in Names} \cup (Names \X Names)
-----------------------------------------------------------------------------
GatewayInit ==
  /\ stage = "start"
  /\ services = "none" /\ registry = NoRegistry
  /\ queue = {} /\ late = {} /\ live = {}
  /\ channels = <<>> /\ listening = {} /\ left = 0
  /\ ticking = FALSE

\* PhusAgent.create: loadPlugins runs the register functions of the plugins.
Created(a) ==
  /\ live' = live \cup {a}
  /\ queue' = queue \cup Plugins
  /\ late' = late \cup {<<a, p>> : p \in Plugins}

\* registerPluginCliCommands: the queue is drained before any plugin is loaded.
DrainQueue ==
  /\ stage = "start"
  /\ stage' = "drained"
  /\ queue' = {}
  /\ UNCHANGED <<services, registry, late, live, channels, listening, left, ticking>>

\* It creates an agent, which it never disposes.
CreateThrowaway ==
  /\ stage = "drained"
  /\ stage' = "throwaway"
  /\ Created("throwaway")
  /\ UNCHANGED <<services, registry, channels, listening, left, ticking>>

\* No agent can be created: the gateway goes on, and will not be able to either.
SkipThrowaway ==
  /\ stage = "drained"
  /\ stage' = "parsed"
  /\ UNCHANGED <<services, registry, queue, late, live, channels, listening, left, ticking>>

InitThrowaway ==
  /\ stage = "throwaway"
  /\ stage' = "parsed"
  /\ services' = "throwaway" /\ registry' = Initialised("throwaway")
  /\ UNCHANGED <<queue, late, live, channels, listening, left, ticking>>

\* The import of a plugin's registerInternalCommand is done.  Without a registry, and
\* when the name is taken, register throws in a promise nobody awaits: the process dies.
RegisterLate(a, p) ==
  /\ <<a, p>> \in late /\ stage \notin {"dead", "exited"}
  /\ late' = late \ {<<a, p>>}
  /\ IF services = "none" \/ p \in registry.commands
     THEN /\ stage' = "dead" /\ UNCHANGED registry
     ELSE /\ registry' = [registry EXCEPT !.commands = @ \cup {p}] /\ UNCHANGED stage
  /\ UNCHANGED <<services, queue, live, channels, listening, left, ticking>>

\* The gateway command without an API key, or unable to create its agent.
NoAgent ==
  /\ stage = "parsed"
  /\ stage' = "dead"
  /\ UNCHANGED <<services, registry, queue, late, live, channels, listening, left, ticking>>

CreateAgent ==
  /\ stage = "parsed"
  /\ stage' = "created"
  /\ Created("gateway")
  /\ UNCHANGED <<services, registry, channels, listening, left, ticking>>

\* collectChannels: flags name a channel once, the configuration and plugins may repeat it.
\* A flag without its credentials, and no channel at all, end the process.
Collect ==
  /\ stage = "created"
  /\ \E cli \in From("cli", {q \in Lists : \A i, j \in DOMAIN q : q[i] = q[j] => i = j}),
        config \in From("config", Lists), plugin \in From("plugin", Lists) :
       /\ channels' = FirstOfName(InOrder(cli, config, plugin))
       /\ left' = Len(channels')
       /\ stage' = IF channels' = <<>> THEN "dead" ELSE "opening"
  /\ UNCHANGED <<services, registry, queue, late, live, listening, ticking>>

\* The next channel listens.
Listen ==
  /\ stage = "opening" /\ left > 0
  /\ listening' = listening \cup {channels[Len(channels) - left + 1]}
  /\ left' = left - 1
  /\ UNCHANGED <<stage, services, registry, queue, late, live, channels, ticking>>

\* It cannot, which ends the process.
ListenFails ==
  /\ stage = "opening" /\ left > 0
  /\ stage' = "dead"
  /\ UNCHANGED <<services, registry, queue, late, live, channels, listening, left, ticking>>

\* All of them listen: services, schedules and signal handlers follow.
GoLive ==
  /\ stage = "opening" /\ left = 0
  /\ stage' = "running"
  /\ services' = "gateway" /\ registry' = Initialised("gateway")
  /\ ticking' = TRUE
  /\ UNCHANGED <<queue, late, live, channels, listening, left>>

\* A signal while the process starts: there is no handler yet.
KilledEarly ==
  /\ stage \in Stages \ {"running", "closing", "exited", "dead"}
  /\ stage' = "dead"
  /\ UNCHANGED <<services, registry, queue, late, live, channels, listening, left, ticking>>

\* How many channels the loop of shutdown closes.
AllOf(s) == Len(s)

\* The first signal: later ones find shuttingDown set.
Signal ==
  /\ stage = "running"
  /\ stage' = "closing"
  /\ ticking' = FALSE
  /\ left' = AllOf(channels)
  /\ UNCHANGED <<services, registry, queue, late, live, channels, listening>>

\* Mutant: a close that throws is not caught.
CloseThrows(ok) == ok

\* A close that throws is ignored.
GoesOn(ok) == TRUE

\* The loop of shutdown closes its next channel, which may throw.
CloseNext(ok) ==
  /\ stage = "closing" /\ left > 0
  /\ listening' = listening \ {channels[Len(channels) - left + 1]}
  /\ left' = left - 1
  /\ stage' = IF GoesOn(ok) THEN stage ELSE "dead"
  /\ UNCHANGED <<services, registry, queue, late, live, channels, ticking>>

\* dispose, which reports what fails and goes on, and exit.
Exit ==
  /\ stage = "closing" /\ left = 0
  /\ stage' = "exited"
  /\ live' = live \ {"gateway"}
  /\ UNCHANGED <<services, registry, queue, late, channels, listening, left, ticking>>

GatewayNext ==
  \/ DrainQueue \/ CreateThrowaway \/ SkipThrowaway \/ InitThrowaway
  \/ NoAgent \/ CreateAgent \/ Collect \/ Listen \/ ListenFails \/ GoLive
  \/ KilledEarly \/ Signal \/ Exit
  \/ \E ok \in BOOLEAN : CloseNext(ok)
  \/ \E a \in Agents, p \in Plugins : RegisterLate(a, p)

GatewaySpec == GatewayInit /\ [][GatewayNext]_gatewayVars
-----------------------------------------------------------------------------
\* Every variable has its type.
GatewayTypeOK ==
  /\ stage \in Stages
  /\ services \in Agents \cup {"none"}
  /\ registry \in [agent : Agents \cup {"none"}, commands : SUBSET ({"builtin"} \cup Plugins)]
  /\ queue \subseteq Plugins /\ late \subseteq Agents \X Plugins
  /\ live \subseteq Agents
  /\ channels \in Seq(Channel) /\ listening \subseteq Range(channels)
  /\ left \in 0 .. Len(channels)
  /\ ticking \in BOOLEAN

\* An internal command acts on the agent of the latest initialisation, whichever agents,
\* plugins and registries there have been (defaultRegistry and initInternalCommands).
CommandsReachAgent ==
  /\ registry.agent = services
  /\ services # "none" => "builtin" \in registry.commands

\* Once a signal is handled the process exits only with each channel closed, whether or
\* not a close throws, the scheduler stopped and its agent disposed; a plugin's command
\* registered meanwhile may still kill it (shutdown, dispose).
ShutdownReleases ==
  [][stage = "closing" /\ stage' # "closing" /\ late' = late =>
       stage' = "exited" /\ listening = {} /\ ~ticking /\ "gateway" \notin live']_gatewayVars

\* The process's state is well formed and commands reach the agent initialised last
\* (initInternalCommands).
GatewayInv == GatewayTypeOK /\ CommandsReachAgent
=============================================================================
