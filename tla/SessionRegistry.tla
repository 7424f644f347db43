--------------------------- MODULE SessionRegistry ---------------------------
(***************************************************************************)
(* The registry of Session runtimes                                        *)
(* (packages/runtime/src/bridge/session-runtime-registry.ts): one runtime  *)
(* per resident Session, a promise chain per Session that runs its turns   *)
(* one at a time, a bounded table with least-recently-used eviction, one   *)
(* selected Session, and the fan-out of subscribers to every runtime.      *)
(* The conversation a runtime holds and its latest checkpoint              *)
(* (packages/runtime/src/bridge/pi-agent.ts) are modelled by the set of    *)
(* the turns whose messages they contain.                                  *)
(*                                                                         *)
(* A step is one synchronous segment of the JavaScript program: what runs  *)
(* between two awaits cannot be interleaved.  A checkpoint is a synchronous*)
(* SQLite write that may throw at every call.                              *)
(***************************************************************************)
EXTENDS Naturals, FiniteSets

CONSTANTS
  Sessions,      \* the Session ids
  Turns,         \* the calls of runExclusive, each made at most once
  Subscribers,   \* subscriber records: agent, plan and compact events
  Handlers,      \* tool permission handlers, of which the last one set counts
  MaxRuntimes,   \* the cap on resident runtimes
  NoSession,     \* selectedSessionId === undefined
  NoTurn,        \* an already resolved promise at the end of a lane
  MaxClock,      \* bound: how many times Date.now() is seen to advance
  MaxCrashes     \* bound: how many times the process dies and is started again

ASSUME CapAssumption == MaxRuntimes \in Nat \ {0}
ASSUME BoundAssumption == MaxClock \in Nat /\ MaxCrashes \in Nat
ASSUME NullAssumption == NoSession \notin Sessions /\ NoTurn \notin Turns
ASSUME FiniteAssumption == IsFiniteSet(Turns) /\ IsFiniteSet(Sessions)
ASSUME WiringAssumption == Subscribers \cap Handlers = {}

VARIABLES
  disposed,    \* disposeAll has run
  resident,    \* the keys of entries
  lastUsedAt,  \* entry.lastUsedAt
  pending,     \* entry.pending, kept by the turns that hold the entry
  tail,        \* entry.tail: the turn whose release resolves it
  selected,    \* selectedSessionId
  wiring,      \* the live subscriber records and the permission handler
  attached,    \* what of it each runtime has been given
  memory,      \* the turns in the runtime's messages
  durable,     \* the turns in the Session's latest checkpoint
  cleared,     \* history: turns in a conversation the user cleared
  status,      \* where each call of runExclusive is
  session,     \* the Session it was made for
  waitsFor,    \* the turn whose release it awaits (previous)
  ahead,       \* history: unfinished turns of its Session called before it
  room,        \* how the latest pass of evictIfNeeded ended
  clock,       \* Date.now(), advancing only when it is seen to
  crashes      \* how many times the process has died

tableVars == <<resident, lastUsedAt, pending, tail, memory, durable, attached>>
callVars == <<status, session, waitsFor, ahead>>
boundVars == <<clock, crashes>>
vars == <<disposed, tableVars, callVars, selected, wiring, cleared, room, boundVars>>

Status == {"new", "queued", "running", "settled", "done", "rejected", "lost"}

Unfinished == {"queued", "running", "settled"}

\* The turns of Session s between the call of runExclusive and its finally block.
Active(s) == {t \in Turns : session[t] = s /\ status[t] \in Unfinished}

\* The callback given to runExclusive runs, or has run and its lane is still held.
Executing(t) == status[t] \in {"running", "settled"}

(***************************************************************************)
(* The table of entries as a value, so that one synchronous segment can    *)
(* apply several operations to it before it is installed.                  *)
(***************************************************************************)
Table == [resident |-> resident, lastUsedAt |-> lastUsedAt, pending |-> pending,
          tail |-> tail, memory |-> memory, durable |-> durable, attached |-> attached]

Install(T) ==
  /\ resident' = T.resident
  /\ lastUsedAt' = T.lastUsedAt
  /\ pending' = T.pending
  /\ tail' = T.tail
  /\ memory' = T.memory
  /\ durable' = T.durable
  /\ attached' = T.attached

\* entry.lastUsedAt = now(), when the table still holds the entry.
Touched(T, s) ==
  [T EXCEPT !.lastUsedAt =
     [x \in Sessions |-> IF x = s /\ s \in T.resident THEN clock ELSE T.lastUsedAt[x]]]

\* Mutant: the new runtime is not subscribed to.
CreatedUnwired(T, s) ==
  [T EXCEPT !.resident = T.resident \cup {s},
            !.lastUsedAt = [T.lastUsedAt EXCEPT ![s] = clock],
            !.tail = [T.tail EXCEPT ![s] = NoTurn],
            !.memory = [T.memory EXCEPT ![s] = T.durable[s]]]

\* createRuntime, whose constructor restores the latest checkpoint, the new
\* entry with its resolved tail, and attachSubscribers.
Created(T, s) ==
  [T EXCEPT !.resident = T.resident \cup {s},
            !.lastUsedAt = [T.lastUsedAt EXCEPT ![s] = clock],
            !.tail = [T.tail EXCEPT ![s] = NoTurn],
            !.memory = [T.memory EXCEPT ![s] = T.durable[s]],
            !.attached = [T.attached EXCEPT ![s] = wiring]]

\* entry.pending++ and entry.tail = the promise that turn t releases.
Joined(T, s, t) ==
  [T EXCEPT !.pending = [T.pending EXCEPT ![s] = T.pending[s] + 1],
            !.tail = [T.tail EXCEPT ![s] = t]]

\* entry.pending--.
Left(T, s) == [T EXCEPT !.pending = [T.pending EXCEPT ![s] = @ - 1]]

\* The runtimes in S save a checkpoint of their messages, if they have any.
Saved(T, S) ==
  [T EXCEPT !.durable =
     [x \in Sessions |-> IF x \in S /\ T.memory[x] # {} THEN T.memory[x] ELSE T.durable[x]]]

\* disposeEntry for each Session in S.
Dropped(T, S) ==
  [T EXCEPT !.resident = T.resident \ S,
            !.lastUsedAt = [x \in Sessions |-> IF x \in S THEN 0 ELSE T.lastUsedAt[x]],
            !.memory = [x \in Sessions |-> IF x \in S THEN {} ELSE T.memory[x]],
            !.attached = [x \in Sessions |-> IF x \in S THEN {} ELSE T.attached[x]]]

\* Mutant: the filter lets busy runtimes through.
CandidatesBusy(T, keep, sel) == T.resident \ {keep, sel}

\* The entries the filter of evictIfNeeded lets through: neither protected nor
\* selected, and with no turn queued or running.
Candidates(T, keep, sel) == {s \in T.resident \ {keep, sel} : T.pending[s] = 0}

OldestOf(S, C, used) == \A s \in S, c \in C \ S : used[s] <= used[c]

\* Mutant: one entry at most is evicted, an if in place of the while.
EvictsOne(T, keep, sel, V, ok) ==
  LET C == Candidates(T, keep, sel)
  IN /\ V \subseteq C
     /\ OldestOf(V, C, T.lastUsedAt)
     /\ \/ ok /\ Cardinality(V) =
             IF Cardinality(T.resident) > MaxRuntimes /\ C # {} THEN 1 ELSE 0
        \/ /\ ~ok
           /\ V = {}
           /\ Cardinality(T.resident) > MaxRuntimes
           /\ \E s \in C : OldestOf({s}, C, T.lastUsedAt) /\ T.memory[s] # {}

(***************************************************************************)
(* evictIfNeeded(keep): while the table is over the cap, the candidate     *)
(* least recently used saves its checkpoint and goes.  V is what one pass  *)
(* of the loop removes: all it has to, or, when a checkpoint throws, what  *)
(* went before.  Entries last used in the same millisecond are tried in    *)
(* insertion order, which the model leaves open.                           *)
(***************************************************************************)
Evicts(T, keep, sel, V, ok) ==
  LET C == Candidates(T, keep, sel)
      left == Cardinality(T.resident \ V)
  IN /\ V \subseteq C
     /\ OldestOf(V, C, T.lastUsedAt)
     /\ \/ /\ ok
           /\ V = {} \/ left >= MaxRuntimes
           /\ V = C \/ left <= MaxRuntimes
        \/ /\ ~ok
           /\ left > MaxRuntimes
           /\ \E s \in C \ V : OldestOf(V \cup {s}, C, T.lastUsedAt) /\ T.memory[s] # {}

\* Mutant: the runtime is disposed without a checkpoint.
EvictedUnsaved(T, V) == Dropped(T, V)

Evicted(T, V) == Dropped(Saved(T, V), V)

\* getOrCreate(s) evicts V and returns (ok) or throws.
Opens(s, V, ok) ==
  IF s \in resident THEN V = {} /\ ok
                    ELSE Evicts(Created(Table, s), s, selected, V, ok)

\* The table getOrCreate(s) leaves.
Opened(s, V) ==
  IF s \in resident THEN Touched(Table, s) ELSE Evicted(Created(Table, s), V)

\* The pass of evictIfNeeded completes, or throws out of the call that made it.
Passed(ok) == room' = IF ok THEN "ok" ELSE "threw"

\* getOrCreate makes a pass only when it creates a runtime.
PassedOpening(s, ok) == IF s \in resident THEN UNCHANGED room ELSE Passed(ok)
-----------------------------------------------------------------------------
Init ==
  /\ disposed = FALSE
  /\ resident = {}
  /\ lastUsedAt = [s \in Sessions |-> 0]
  /\ pending = [s \in Sessions |-> 0]
  /\ tail = [s \in Sessions |-> NoTurn]
  /\ selected = NoSession
  /\ wiring = {}
  /\ attached = [s \in Sessions |-> {}]
  /\ memory = [s \in Sessions |-> {}]
  /\ durable = [s \in Sessions |-> {}]
  /\ cleared = {}
  /\ status = [t \in Turns |-> "new"]
  /\ session = [t \in Turns |-> NoSession]
  /\ waitsFor = [t \in Turns |-> NoTurn]
  /\ ahead = [t \in Turns |-> {}]
  /\ room = "ok"
  /\ clock = 0
  /\ crashes = 0

(***************************************************************************)
(* runExclusive(s, run), up to its await: it opens the runtime, counts     *)
(* itself in and takes the end of the lane.                                *)
(***************************************************************************)
Enqueue(t, s) ==
  /\ status[t] = "new"
  /\ ~disposed
  /\ \E V \in SUBSET resident :
       LET T == Opened(s, V)
       IN /\ Opens(s, V, TRUE)
          /\ Install(Joined(T, s, t))
          /\ waitsFor' = [waitsFor EXCEPT ![t] = T.tail[s]]
  /\ status' = [status EXCEPT ![t] = "queued"]
  /\ session' = [session EXCEPT ![t] = s]
  /\ ahead' = [ahead EXCEPT ![t] = Active(s)]
  /\ PassedOpening(s, TRUE)
  /\ UNCHANGED <<disposed, selected, wiring, cleared, boundVars>>

\* runExclusive(s, run) that throws before its await: the registry is disposed,
\* or a checkpoint fails while getOrCreate makes room.
Reject(t, s) ==
  /\ status[t] = "new"
  /\ \/ disposed /\ UNCHANGED <<tableVars, room>>
     \/ /\ ~disposed
        /\ \E V \in SUBSET resident : Opens(s, V, FALSE) /\ Install(Opened(s, V))
        /\ PassedOpening(s, FALSE)
  /\ status' = [status EXCEPT ![t] = "rejected"]
  /\ UNCHANGED <<disposed, selected, wiring, cleared, boundVars, session, waitsFor, ahead>>

\* Mutant: the finally block does not call release.
ReleasedNever(t) == t = NoTurn

\* The promise a turn awaits: resolved from the start, or by its turn's release.
Released(t) == t \notin {u \in Turns : status[u] \in Unfinished}

\* After the await the callback starts; whether the registry is still open is
\* not asked again.
Start(t) ==
  /\ status[t] = "queued"
  /\ Released(waitsFor[t])
  /\ status' = [status EXCEPT ![t] = "running"]
  /\ Install(Touched(Table, session[t]))
  /\ UNCHANGED <<disposed, selected, wiring, cleared, room, boundVars,
                 session, waitsFor, ahead>>

(***************************************************************************)
(* SessionRuntime.turn ends.  The turn's messages are in the runtime unless*)
(* it failed before it prompted the model; one that succeeded has tried to *)
(* save a checkpoint, and a failure to do so is only logged.  A runtime    *)
(* disposed under the turn has nothing left to keep messages in.           *)
(***************************************************************************)
Settle(t) ==
  LET s == session[t]
  IN /\ status[t] = "running"
     /\ status' = [status EXCEPT ![t] = "settled"]
     /\ \/ UNCHANGED <<memory, durable>>
        \/ /\ s \in resident
           /\ memory' = [memory EXCEPT ![s] = @ \cup {t}]
           /\ \/ UNCHANGED durable
              \/ durable' = [durable EXCEPT ![s] = memory[s] \cup {t}]
     /\ UNCHANGED <<disposed, resident, lastUsedAt, pending, tail, attached, selected,
                    wiring, cleared, room, boundVars, session, waitsFor, ahead>>

\* The finally block of runExclusive: it releases the lane, then makes room; a
\* checkpoint that throws there replaces the turn's own outcome.
Finish(t) ==
  /\ status[t] = "settled"
  /\ \E V \in SUBSET resident, ok \in BOOLEAN :
       LET T == Left(Touched(Table, session[t]), session[t])
       IN /\ Evicts(T, NoSession, selected, V, ok)
          /\ Install(Evicted(T, V))
          /\ Passed(ok)
  /\ status' = [status EXCEPT ![t] = "done"]
  /\ ahead' = [u \in Turns |-> ahead[u] \ {t}]
  /\ UNCHANGED <<disposed, selected, wiring, cleared, boundVars, session, waitsFor>>
-----------------------------------------------------------------------------
\* getOrCreate(s) called outside a turn: reflect, listCheckpoints, retryStep,
\* notifySubagentStarted.
GetOrCreate(s) ==
  /\ ~disposed
  /\ \E V \in SUBSET resident, ok \in BOOLEAN :
       /\ Opens(s, V, ok)
       /\ Install(Opened(s, V))
       /\ PassedOpening(s, ok)
  /\ UNCHANGED <<disposed, callVars, selected, wiring, cleared, boundVars>>

\* The runtime setSelected(s) has to checkpoint before it switches away.
Departing(T, s) == {p \in T.resident \ {s} : p = selected /\ T.memory[p] # {}}

\* setSelected(s) that throws before the assignment: opening the target fails,
\* or the checkpoint of the runtime selected so far does.
SelectThrows(s) ==
  \E V \in SUBSET resident, ok \in BOOLEAN :
    /\ Opens(s, V, ok)
    /\ ok => Departing(Opened(s, V), s) # {}
    /\ Install(Opened(s, V))
    /\ PassedOpening(s, ok)
    /\ UNCHANGED selected

\* setSelected(s) from the assignment on: the target is touched, then
\* evictIfNeeded(s) completes or throws.
SelectSwitches(s) ==
  \E V, W \in SUBSET Sessions, ok \in BOOLEAN :
    LET T == Opened(s, V)
        U == Touched(Saved(T, Departing(T, s)), s)
    IN /\ Opens(s, V, TRUE)
       /\ Evicts(U, s, s, W, ok)
       /\ Install(Evicted(U, W))
       /\ Passed(ok)
       /\ selected' = s

SetSelected(s) ==
  /\ ~disposed
  /\ SelectThrows(s) \/ SelectSwitches(s)
  /\ UNCHANGED <<disposed, callVars, wiring, cleared, boundVars>>

\* clearConversation of the selected runtime (/new, /forget, /end): its messages
\* go; no checkpoint is written, and a turn in progress is not waited for.
ClearConversation ==
  /\ selected \in resident
  /\ memory' = [memory EXCEPT ![selected] = {}]
  /\ cleared' = cleared \cup memory[selected]
  /\ UNCHANGED <<disposed, resident, lastUsedAt, pending, tail, durable, attached,
                 callVars, selected, wiring, room, boundVars>>

\* saveCheckpoint(s) of the facade (/checkpoint create): unlike eviction it also
\* writes a conversation that is empty.
SaveCheckpoint(s) ==
  /\ ~disposed
  /\ \E V \in SUBSET resident, ok, written \in BOOLEAN :
       LET T == Opened(s, V)
       IN /\ Opens(s, V, ok)
          /\ written => ok
          /\ Install(IF written THEN [T EXCEPT !.durable[s] = T.memory[s]] ELSE T)
          /\ PassedOpening(s, ok)
  /\ UNCHANGED <<disposed, callVars, selected, wiring, cleared, boundVars>>

\* restoreCheckpoint of the selected Session (/undo): setSelected once more, then
\* the latest checkpoint, if there is one, replaces the messages.
RestoreCheckpoint ==
  /\ ~disposed
  /\ selected \in resident
  /\ \E V \in SUBSET resident, ok, restored \in BOOLEAN :
       LET T == Evicted(Touched(Table, selected), V)
       IN /\ Evicts(Touched(Table, selected), selected, selected, V, ok)
          /\ restored => ok
          /\ durable[selected] # {} /\ ok => restored
          /\ Install(IF restored
                     THEN [T EXCEPT !.memory[selected] = durable[selected]] ELSE T)
          /\ cleared' = IF restored THEN cleared \ durable[selected] ELSE cleared
          /\ Passed(ok)
  /\ UNCHANGED <<disposed, callVars, selected, wiring, boundVars>>

\* addSubscriber: the new record is subscribed on every runtime there is.
Subscribe(h) ==
  /\ ~disposed
  /\ h \in Subscribers \ wiring
  /\ wiring' = wiring \cup {h}
  /\ attached' = [s \in Sessions |-> IF s \in resident THEN attached[s] \cup {h}
                                                        ELSE attached[s]]
  /\ UNCHANGED <<disposed, resident, lastUsedAt, pending, tail, memory, durable,
                 callVars, selected, cleared, room, boundVars>>

\* The function addSubscriber returned.
Unsubscribe(h) ==
  /\ h \in Subscribers \cap wiring
  /\ wiring' = wiring \ {h}
  /\ attached' = [s \in Sessions |-> attached[s] \ {h}]
  /\ UNCHANGED <<disposed, resident, lastUsedAt, pending, tail, memory, durable,
                 callVars, selected, cleared, room, boundVars>>

\* setToolPermissionHandler: h takes the place of the handler set before.  It
\* does not ask whether the registry is open.
SetToolPermissionHandler(h) ==
  /\ wiring' = (wiring \ Handlers) \cup {h}
  /\ attached' = [s \in Sessions |->
                    IF s \in resident THEN (attached[s] \ Handlers) \cup {h} ELSE attached[s]]
  /\ UNCHANGED <<disposed, resident, lastUsedAt, pending, tail, memory, durable,
                 callVars, selected, cleared, room, boundVars>>

\* disposeAll: every runtime goes, without a checkpoint.  The turns queued on
\* their lanes still hold them.
DisposeAll ==
  /\ ~disposed
  /\ disposed' = TRUE
  /\ Install(Dropped(Table, resident))
  /\ wiring' = wiring \cap Handlers
  /\ selected' = NoSession
  /\ UNCHANGED <<callVars, cleared, room, boundVars>>
-----------------------------------------------------------------------------
\* The process dies, at any moment, and is started again: what was in memory is
\* gone, and the calls in progress with it.
Restart ==
  /\ crashes < MaxCrashes
  /\ crashes' = crashes + 1
  /\ disposed' = FALSE
  /\ Install([Dropped(Table, resident) EXCEPT !.pending = [s \in Sessions |-> 0],
                                              !.tail = [s \in Sessions |-> NoTurn]])
  /\ selected' = NoSession
  /\ wiring' = {}
  /\ status' = [t \in Turns |-> IF status[t] \in Unfinished THEN "lost" ELSE status[t]]
  /\ ahead' = [t \in Turns |-> {}]
  /\ room' = "ok"
  /\ UNCHANGED <<cleared, session, waitsFor, clock>>

\* Date.now() is seen to advance.
Tick ==
  /\ clock < MaxClock
  /\ clock' = clock + 1
  /\ UNCHANGED <<disposed, tableVars, callVars, selected, wiring, cleared, room, crashes>>

Next ==
  \/ \E t \in Turns, s \in Sessions : Enqueue(t, s) \/ Reject(t, s)
  \/ \E t \in Turns : Start(t) \/ Settle(t) \/ Finish(t)
  \/ \E s \in Sessions : GetOrCreate(s) \/ SetSelected(s) \/ SaveCheckpoint(s)
  \/ ClearConversation
  \/ RestoreCheckpoint
  \/ \E h \in Subscribers : Subscribe(h) \/ Unsubscribe(h)
  \/ \E h \in Handlers : SetToolPermissionHandler(h)
  \/ DisposeAll
  \/ Restart
  \/ Tick

\* A released promise lets its waiter run; every turn ends, which the watchdog
\* of SessionRuntime.turn is for; a finally block always runs.
Fairness == \A t \in Turns : WF_vars(Start(t)) /\ WF_vars(Settle(t)) /\ WF_vars(Finish(t))

Spec == Init /\ [][Next]_vars

FairSpec == Spec /\ Fairness
-----------------------------------------------------------------------------
\* A Session's conversation: what its runtime holds, or what a new one would.
Conversation(s) == IF s \in resident THEN memory[s] ELSE durable[s]

\* Every variable has its type.
TypeOK ==
  /\ disposed \in BOOLEAN
  /\ resident \subseteq Sessions
  /\ lastUsedAt \in [Sessions -> Nat]
  /\ pending \in [Sessions -> Nat]
  /\ tail \in [Sessions -> Turns \cup {NoTurn}]
  /\ selected \in Sessions \cup {NoSession}
  /\ wiring \subseteq Subscribers \cup Handlers
  /\ attached \in [Sessions -> SUBSET (Subscribers \cup Handlers)]
  /\ memory \in [Sessions -> SUBSET Turns]
  /\ durable \in [Sessions -> SUBSET Turns]
  /\ cleared \subseteq Turns
  /\ status \in [Turns -> Status]
  /\ session \in [Turns -> Sessions \cup {NoSession}]
  /\ waitsFor \in [Turns -> Turns \cup {NoTurn}]
  /\ ahead \in [Turns -> SUBSET Turns]
  /\ room \in {"ok", "threw"}
  /\ clock \in Nat
  /\ crashes \in Nat

\* Turns of one Session run one at a time, in the order of their calls: while
\* one executes, every turn called before it has ended.  The promise chain of
\* runExclusive has to achieve this across evictions, failed calls and restarts.
LaneExclusive ==
  /\ \A t, u \in Turns : Executing(t) /\ Executing(u) /\ session[t] = session[u] => t = u
  /\ \A t \in Turns : Executing(t) => ahead[t] = {}

\* No runtime is evicted while a turn runs on it or waits for it, so the runtime
\* a turn was given at its call is the one the table still holds when it runs.
BusyStaysResident ==
  ~disposed => \A t \in Turns : status[t] \in Unfinished => session[t] \in resident

\* The selected Session always has a runtime: selection survives every eviction.
SelectedIsResident == selected # NoSession => selected \in resident

\* A conversation holds only turns of its own Session, in memory and on disk,
\* whichever Sessions were evicted and rebuilt in between.
ConversationsNotShared ==
  \A s \in Sessions : \A t \in memory[s] \cup durable[s] : session[t] = s

\* Unless the latest pass of evictIfNeeded threw, the table is over its cap by
\* no more than what turns and the selection keep: of the others at most one,
\* the runtime which that pass protected, is still there.
CapRespected ==
  room = "ok" /\ Cardinality(resident) > MaxRuntimes
    => Cardinality(Candidates(Table, NoSession, selected)) <= 1

\* Every resident runtime has been given exactly the live subscribers and the
\* current permission handler, whenever it was created; a dropped one has none.
WiredUp ==
  \A s \in Sessions : attached[s] = IF s \in resident THEN wiring ELSE {}

\* Eviction, switching and rebuilding lose nothing: a conversation shrinks only
\* when the user clears or rewinds it, at disposal, or when the process dies.
NothingLost ==
  [][\/ \A s \in Sessions : Conversation(s) \subseteq Conversation(s)'
     \/ ClearConversation \/ RestoreCheckpoint \/ DisposeAll \/ Restart]_vars

\* A checkpoint never takes the place of one that holds more, but for turns the
\* user cleared.
CheckpointsOnlyGrow ==
  [][\A s \in Sessions : durable[s] \subseteq durable'[s] \cup cleared']_vars

-----------------------------------------------------------------------------
\* What a caller sees of a turn.
Phase(t) ==
  CASE status[t] = "new" -> "idle"
    [] status[t] = "queued" -> "waiting"
    [] Executing(t) -> "executing"
    [] OTHER -> "ended"

Lanes == INSTANCE SessionLanes
  WITH phase <- [t \in Turns |-> Phase(t)], lane <- session, before <- ahead

\* The promise chain, the table and its evictions implement the lanes callers are
\* promised: every step of the registry is a step of a lane or none at all.
ImplementsLanes == Lanes!Spec

\* And, turns ending and promises resolving, each turn submitted does execute.
ImplementsFairLanes == Lanes!FairSpec
=============================================================================
