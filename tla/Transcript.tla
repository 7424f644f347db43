------------------------------- MODULE Transcript -------------------------------
(***************************************************************************)
(* The transcript of one Session: what its agent keeps in memory and sends *)
(* to the model (bridge/pi-agent.ts), what automatic compaction makes of   *)
(* it before each request (packages/core/src/session/auto-compact.ts,      *)
(* compaction.ts, context-budget.ts), and what the tape holds of it        *)
(* (tape.ts, checkpoint.ts).                                               *)
(*                                                                         *)
(* One process: its turns come one after another, commands of the user at  *)
(* any time.  Of a message the model keeps its kind and the turns it       *)
(* speaks of; each counts as one token.  The agent loop that answers       *)
(* requests is a library (pi-agent-core).                                  *)
(***************************************************************************)
EXTENDS Integers, Sequences, FiniteSets

CONSTANTS
  Turns,        \* bound: the turns
  NoTurn,       \* no turn
  KeepRecent,   \* keepRecent
  MaxMessages,  \* maxMessages
  Percent,      \* maxContextFraction, in percent
  Window,       \* contextWindow of the model, 0 where it is missing
  MaxOutput,    \* maxOutputTokens
  Overhead,     \* the tokens of system prompt and tools
  Keep,         \* keep of pruneCheckpoints
  Wrap,         \* 1000: the checkpoints of a millisecond that are told apart
  MaxTime,      \* bound: the clock, in milliseconds
  MaxRows,      \* bound: the checkpoints on the tape
  MaxLength     \* bound: the messages of the transcript

ASSUME NumberAssumption ==
  /\ {KeepRecent, Keep, Wrap} \subseteq Nat \ {0}
  /\ {MaxMessages, Percent, Window, MaxOutput, Overhead} \subseteq Nat
  /\ {MaxRows, MaxLength} \subseteq Nat
  /\ MaxTime \in Nat \ {0}
ASSUME NoTurnAssumption == NoTurn \notin Turns

VARIABLES
  live,      \* piAgent.state.messages
  phase,     \* what the agent loop does
  cur,       \* its turn
  begun,     \* the turns there have been
  reported,  \* lastReportedInput, -1 for undefined
  sent,      \* what injectContext returned for the request under way, if it compacted
  outcome,   \* what injectContext did: "fits", "trimmed" or "failed"
  tape,      \* the turns on the tape, in the order of their time stamps
  rows,      \* the checkpoints on the tape
  counter,   \* checkpointCounter, modulo Wrap
  burst,     \* how many checkpoints there have been in this millisecond
  lastSave,  \* history: the millisecond of the latest checkpoint, 0 before the first
  now        \* Date.now()

phaseVars == <<phase, cur, begun, reported>>
requestVars == <<sent, outcome>>
checkpointVars == <<rows, counter, burst, lastSave>>
vars == <<live, phaseVars, requestVars, tape, checkpointVars, now>>

Larger(m, n) == IF m < n THEN n ELSE m

Elements(s) == {s[i] : i \in 1 .. Len(s)}

\* slice(-n), of a positive n.
LastOf(s, n) == SubSeq(s, Larger(1, Len(s) - n + 1), Len(s))

\* slice(0, length - n), which is empty where that is negative.
AllBut(s, n) == {s[i] : i \in 1 .. Len(s) - n}

\* A summary of turns, or a prompt, a reply or a tool's result of one.
Message(summary, S) == [summary |-> summary, of |-> S]

Messages == [summary : BOOLEAN, of : SUBSET Turns]

Fits(n) == Len(live) + n <= MaxLength
-----------------------------------------------------------------------------
\* saveCheckpoint's ts.
Stamp(t, n) == t * Wrap + n

\* The counter of the next checkpoint.
Following(n) == (n + 1) % Wrap

Checkpoint(t, n) == [ts |-> Stamp(t, n), messages |-> live]

\* The checkpoint that is loaded: the last in the order of time stamps.
NewestOf(R) == CHOOSE r \in R : \A q \in R : q.ts <= r.ts

\* bound: in one millisecond no more checkpoints than the counter tells apart.
CanSave == burst < Wrap /\ Cardinality(rows) < MaxRows

Saves ==
  /\ rows' = rows \cup {Checkpoint(now, counter)}
  /\ counter' = Following(counter)
  /\ burst' = burst + 1
  /\ lastSave' = now

\* Mutant: the oldest are kept.
KeptOldest == {r \in rows : Cardinality({q \in rows : q.ts < r.ts}) < Keep}

\* What pruneCheckpoints keeps; no two time stamps of a process are the same.
Kept == {r \in rows : Cardinality({q \in rows : r.ts < q.ts}) < Keep}

-----------------------------------------------------------------------------
\* buildSnapshot: a model that claims to write more than it can read is given half.
InputBudget ==
  IF MaxOutput > Window THEN Larger(1, Window \div 2) ELSE Larger(1, Window - MaxOutput)

\* estimateMessagesTokens and the like, in messages.
Estimate == Overhead + Len(live)

Tokens == IF reported # -1 THEN reported ELSE Estimate

\* classifyTier, whose other tiers only warn.
OverBudget == Window > 0 /\ Tokens * 100 >= Percent * InputBudget

TooMany == Len(live) > MaxMessages

\* maybeCompact.
Compacts == OverBudget \/ TooMany

\* compactSession: every turn of the tape but the last few, from the beginning.
Summarized == AllBut(tape, KeepRecent)

\* Mutant: everything is kept.
TrimmedNot == live

\* runCompact: messages are kept, not turns.
Trimmed == LastOf(live, KeepRecent)

\* injectContext: the messages that go to the model.  A compaction that fails, with an
\* error of the tape, leaves them as they are.
Inject ==
  \/ /\ Compacts
     /\ live' = <<Message(TRUE, Summarized)>> \o Trimmed
     /\ outcome' = "trimmed"
  \/ /\ Compacts
     /\ outcome' = "failed"
     /\ UNCHANGED live
  \/ /\ ~Compacts
     /\ outcome' = "fits"
     /\ UNCHANGED live

Closed == sent' = <<>> /\ outcome' = "fits"
-----------------------------------------------------------------------------
Init ==
  /\ live = <<>>
  /\ phase = "idle"
  /\ cur = NoTurn
  /\ begun = {}
  /\ reported = -1
  /\ sent = <<>>
  /\ outcome = "fits"
  /\ tape = <<>>
  /\ rows = {}
  /\ counter = 0
  /\ burst = 0
  /\ lastSave = 0
  /\ now = 1

\* SessionRuntime.turn, up to the agent loop's first request.
StartTurn(t) ==
  /\ phase = "idle" /\ t \notin begun /\ Fits(1)
  /\ phase' = "asking"
  /\ cur' = t
  /\ begun' = begun \cup {t}
  /\ reported' = -1
  /\ live' = Append(live, Message(FALSE, {t}))
  /\ UNCHANGED <<requestVars, tape, checkpointVars, now>>

\* A request: after a compaction it sends the transcript, otherwise the agent loop's own
\* copy of it.
Ask ==
  /\ phase = "asking"
  /\ Inject
  /\ sent' = IF outcome' = "trimmed" THEN live' ELSE <<>>
  /\ phase' = "asked"
  /\ UNCHANGED <<cur, begun, reported, tape, checkpointVars, now>>

\* The tokens of the request, as the model reports them.
Reports ==
  IF outcome = "trimmed" THEN {Overhead + Len(sent)} ELSE {Overhead + n : n \in 1 .. MaxLength}

\* A reply, with the tokens of the request or without, which calls a tool or does not.
Reply ==
  /\ phase = "asked" /\ Fits(1)
  /\ live' = Append(live, Message(FALSE, {cur}))
  /\ reported' \in {reported} \cup Reports
  /\ phase' \in {"working", "answered"}
  /\ Closed
  /\ UNCHANGED <<cur, begun, tape, checkpointVars, now>>

\* While a tool works, a sub-agent asks on its own behalf: transformContext is that of
\* the parent, on whose transcript it works.
SubAgentAsks ==
  /\ phase = "working"
  /\ Inject
  /\ UNCHANGED <<phaseVars, sent, tape, checkpointVars, now>>

ToolResult ==
  /\ phase = "working" /\ Fits(1)
  /\ live' = Append(live, Message(FALSE, {cur}))
  /\ phase' = "asking"
  /\ outcome' = "fits"
  /\ UNCHANGED <<cur, begun, reported, sent, tape, checkpointVars, now>>

\* The turn is recorded, and a checkpoint saved, whose failure is only logged.
Record ==
  /\ phase = "answered"
  /\ tape' = Append(tape, cur)
  /\ phase' = "idle"
  /\ cur' = NoTurn
  /\ \/ CanSave /\ Saves
     \/ UNCHANGED checkpointVars
  /\ UNCHANGED <<live, begun, reported, requestVars, now>>

\* A turn that is aborted, refused or not delivered leaves its messages behind.
TurnFails ==
  /\ phase # "idle"
  /\ phase' = "idle"
  /\ cur' = NoTurn
  /\ Closed
  /\ UNCHANGED <<live, begun, reported, tape, checkpointVars, now>>

\* The commands of the user, none of which waits for the turn.
Clear ==
  /\ live' = <<>>
  /\ UNCHANGED <<phaseVars, requestVars, tape, checkpointVars, now>>

Restore ==
  /\ rows # {}
  /\ live' = NewestOf(rows).messages
  /\ UNCHANGED <<phaseVars, requestVars, tape, checkpointVars, now>>

Save ==
  /\ CanSave
  /\ Saves
  /\ UNCHANGED <<live, phaseVars, requestVars, tape, now>>

\* A hook prunes the checkpoints.
Prune ==
  /\ rows' = Kept
  /\ UNCHANGED <<live, phaseVars, requestVars, tape, counter, burst, lastSave, now>>

\* The runtime is evicted, with a checkpoint of what it holds, and built again.
Rebuild ==
  /\ phase = "idle" /\ live # <<>> /\ CanSave
  /\ Saves
  /\ live' = NewestOf(rows').messages
  /\ reported' = -1
  /\ UNCHANGED <<phase, cur, begun, sent, outcome, tape, now>>

\* The process dies and starts again, which takes its time.
Crash ==
  /\ now < MaxTime
  /\ now' = now + 1
  /\ counter' = 0
  /\ burst' = 0
  /\ live' = IF rows = {} THEN <<>> ELSE NewestOf(rows).messages
  /\ phase' = "idle"
  /\ cur' = NoTurn
  /\ reported' = -1
  /\ Closed
  /\ UNCHANGED <<begun, tape, rows, lastSave>>

Tick ==
  /\ now < MaxTime
  /\ now' = now + 1
  /\ burst' = 0
  /\ UNCHANGED <<live, phaseVars, requestVars, tape, rows, counter, lastSave>>

Next ==
  \/ \E t \in Turns : StartTurn(t)
  \/ Ask \/ Reply \/ SubAgentAsks \/ ToolResult \/ Record \/ TurnFails
  \/ Clear \/ Restore \/ Save \/ Prune \/ Rebuild \/ Crash \/ Tick

Spec == Init /\ [][Next]_vars
-----------------------------------------------------------------------------
\* Every variable has its type.
TypeOK ==
  /\ {live, sent} \subseteq Seq(Messages)
  /\ phase \in {"idle", "asking", "asked", "working", "answered"}
  /\ cur \in Turns \cup {NoTurn}
  /\ (cur = NoTurn) <=> (phase = "idle")
  /\ begun \in SUBSET Turns
  /\ reported \in Int
  /\ outcome \in {"fits", "trimmed", "failed"}
  /\ tape \in Seq(Turns)
  /\ rows \subseteq [ts : Nat, messages : Seq(Messages)]
  /\ counter \in 0 .. Wrap - 1
  /\ burst \in 0 .. Wrap
  /\ {lastSave, now} \subseteq 0 .. MaxTime

\* The checkpoint that is restored is of the millisecond of the latest one, however the
\* counter stands and wraps, whatever has been pruned and whichever process saved it.
RestoresRecent ==
  lastSave > 0 =>
    /\ rows # {}
    /\ NewestOf(rows).ts \in lastSave * Wrap .. lastSave * Wrap + Wrap - 1

\* auto-compact.ts:6-9: compaction shortens the transcript in memory.  A request leaves it
\* bounded, however many turns, tool calls, restored checkpoints and requests of
\* sub-agents have gone before, unless its compaction failed.
TranscriptBounded ==
  [][(Ask \/ SubAgentAsks) /\ outcome' # "failed"
      => Len(live') <= Larger(MaxMessages, KeepRecent + 1)]_vars

\* A request that was compacted forgets no turn but some of the last few: an older one
\* is in its summary, even if the transcript had been cleared or restored.
OldTurnsSummarized ==
  phase = "asked" /\ outcome = "trimmed" =>
    /\ sent[1].summary
    /\ \A i \in 1 .. Len(tape) : i + KeepRecent <= Len(tape) => tape[i] \in sent[1].of

\* What has been is not lost: a restart finds the latest checkpoint (loadLatestCheckpoint),
\* and a request the turns that were cut off the transcript (injectContext).
Remembers == RestoresRecent /\ OldTurnsSummarized
=============================================================================
