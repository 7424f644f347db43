--------------------------------- MODULE MCProcess ---------------------------------
(***************************************************************************)
(* The process around its turns: the gateway with its scheduler, its       *)
(* channels and the service that keeps it up, and the stores the turns     *)
(* share: memory, skills, plans and identities.  The ten share no state,   *)
(* so that interleaving their steps would add no behaviour of any: a run   *)
(* is of one of them, chosen by part, and the others keep their initial    *)
(* states.                                                                 *)
(***************************************************************************)
EXTENDS
  Scheduler, Channels, Service, Memory, SkillLoop, PlanBook, Identities,
  TLC

CONSTANTS sk, b1, b2, v1, v2

VARIABLE part

DueDef == [n \in Scheduled |-> IF n = CHOOSE m \in Scheduled : TRUE THEN {0, 1, 2} ELSE {1}]

Symm == Permutations(Ticks) \cup Permutations(Polls) \cup Permutations(Inbound)

\* A file that is not there yet, and one a person wrote, with a section in two places,
\* lines before the first heading, and a heading of the third level.
NoFile == [head |-> <<>>, blocks |-> <<>>]
InitialFilesDef ==
  {NoFile,
   [head |-> <<Entry(101, 0)>>,
    blocks |-> <<Block(Heading(2, "Notes", 0), "user", <<Entry(102, 0)>>),
                 Block(Heading(2, "Style", 0), "agent", <<Entry(103, 0)>>),
                 Block(Heading(2, "Notes", 0), "tape", <<Entry(104, 0)>>),
                 Block(Heading(3, "Style", 0), "system", <<>>)>>]}

\* A gate that lets an append pass, and nothing else.
MemoryBlocksDef ==
  {[mode |-> "approval-list", autoApprove |-> {"append"}, requireApproval |-> {},
    reflect |-> "true"]}

\* A plan that went well, one with a failure, and one that was not completed.
Measured(completed, failures, steps) ==
  [completed |-> completed, failures |-> failures, steps |-> steps]
MetricsDef == {Measured(TRUE, 0, 1), Measured(TRUE, 1, 2), Measured(FALSE, 1, 1)}

\* Two plans of one Session: its controls have to choose.
BookDef == {<<1, 1>>, <<1, 2>>}

processVars ==
  <<schedulerVars, mailboxVars, streamVars, botVars, gatewayVars, serviceVars,
    memoryVars, skillVars, bookVars, identityVars, part>>

ProcessInit ==
  /\ part \in {"scheduler", "mailbox", "streams", "bots", "gateway", "service", "memory",
               "skills", "plans", "identities"}
  /\ SchedulerInit /\ MailboxInit /\ StreamsInit /\ BotsInit /\ GatewayInit /\ ServiceInit
  /\ MemoryInit /\ SkillInit /\ BookInit /\ IdentitiesInit
  \* The parts that do not run start from one state only.
  /\ part # "memory" => file = NoFile
  /\ part # "bots" => kind = "cli"
  /\ part # "service" => supervisor = "launchd"

\* Only the part p moves.
Only(p) ==
  /\ part = p /\ UNCHANGED part
  /\ IF p = "scheduler" THEN TRUE ELSE UNCHANGED schedulerVars
  /\ IF p = "mailbox" THEN TRUE ELSE UNCHANGED mailboxVars
  /\ IF p = "streams" THEN TRUE ELSE UNCHANGED streamVars
  /\ IF p = "bots" THEN TRUE ELSE UNCHANGED botVars
  /\ IF p = "gateway" THEN TRUE ELSE UNCHANGED gatewayVars
  /\ IF p = "service" THEN TRUE ELSE UNCHANGED serviceVars
  /\ IF p = "memory" THEN TRUE ELSE UNCHANGED memoryVars
  /\ IF p = "skills" THEN TRUE ELSE UNCHANGED skillVars
  /\ IF p = "plans" THEN TRUE ELSE UNCHANGED bookVars
  /\ IF p = "identities" THEN TRUE ELSE UNCHANGED identityVars

ProcessNext ==
  \/ Only("scheduler") /\ SchedulerNext
  \/ Only("mailbox") /\ MailboxNext
  \/ Only("streams") /\ StreamsNext
  \/ Only("bots") /\ BotsNext
  \/ Only("gateway") /\ GatewayNext
  \/ Only("service") /\ ServiceNext
  \/ Only("memory") /\ MemoryNext
  \/ Only("skills") /\ SkillNext
  \/ Only("plans") /\ BookNext
  \/ Only("identities") /\ IdentitiesNext

ProcessSpec == ProcessInit /\ [][ProcessNext]_processVars
=============================================================================
