----------------------------- MODULE SessionCatalog -----------------------------
(***************************************************************************)
(* The catalog of Sessions (packages/core/src/session/session-store.ts),   *)
(* the turns on the tape (session-tape.ts) and the way of a turn from its  *)
(* envelope to the tape (PhusAgent.turn in bridge/pi-agent.ts).            *)
(*                                                                         *)
(* Several processes share the database, a daemon and a terminal say.  An  *)
(* SQL statement or a transaction is one step, so every request of the     *)
(* model may be in a process of its own.  Rows are never deleted.          *)
(***************************************************************************)
EXTENDS Naturals, FiniteSets

CONSTANTS
  Named,      \* ids that envelopes, the command line and old tapes name
  Fresh,      \* bound: the ids randomUUID returns
  Inbound,    \* the addresses that channels and createSession give
  Requests,   \* bound: the turns that are asked for
  Nobody,     \* no Session
  MaxTime     \* bound: the clock

ASSUME TimeAssumption == MaxTime \in Nat \ {0}
ASSUME SessionsAssumption == Named \cap Fresh = {} /\ Nobody \notin Named \cup Fresh

Sessions == Named \cup Fresh

\* legacySession: the address that is read off an id.
Home(s) == <<"legacy", s>>

\* The address ensure gives when that one belongs to another Session.
Refuge(s) == <<"runtime-compat", s>>

Addresses == Inbound \cup {Home(s) : s \in Sessions} \cup {Refuge(s) : s \in Sessions}

ASSUME InboundAssumption ==
  <<>> \notin Inbound /\ Inbound \cap {Refuge(s) : s \in Sessions} = {}

Statuses == {"open", "closed", "archived"}

\* What is left to do of PhusAgent.turn before runExclusive.
Resolving == {"find", "insert", "refind", "reread", "get", "adopt", "again", "shelter"}

Stages == {"idle", "queued", "running", "done", "refused", "dead"} \cup Resolving

Times == 0 .. MaxTime

VARIABLES
  row,        \* the catalog: the address and status of each Session, if it has a row
  lastTurn,   \* last_turn_at, 0 for null
  tape,       \* the time stamps of each Session's turns on the tape
  booted,     \* has bootstrapFromTape run
  stage,      \* how far each request is
  wants,      \* the address of its envelope, if it resolves one
  sid,        \* the Session it is for, as far as it is known
  startedAt,  \* when its turn started
  now         \* Date.now()

catalogVars == <<row, lastTurn>>
requestVars == <<stage, wants, sid, startedAt>>
vars == <<catalogVars, tape, booted, requestVars, now>>

NoRow == [address |-> <<>>, status |-> "none"]

Rows == [address : Addresses, status : Statuses]

Known == {s \in Sessions : row[s] # NoRow}

\* Mutant: no unique index.
UntakenAnyway(a) == FALSE

\* The unique index over the addresses.
Taken(a) == \E s \in Known : row[s].address = a

Row(a) == [address |-> a, status |-> "open"]

Goes(r, st) == stage' = [stage EXCEPT ![r] = st]

\* Turns begin only in a process that has built its dependencies.
Asked(r, st) ==
  /\ booted
  /\ stage[r] = "idle"
  /\ Goes(r, st)

\* recordTurn: last_turn_at only grows.
Latest(old, t) == IF old < t THEN t ELSE old

\* The Sessions of the tape for which bootstrapFromTape inserts a row: ON CONFLICT DO
\* NOTHING is about the id and the address.
Unlisted == {s \in Sessions \ Known : tape[s] # {} /\ ~Taken(Home(s))}

NewestOn(T) == CHOOSE t \in T : \A u \in T : u <= t
-----------------------------------------------------------------------------
\* The tape may be older than the catalog.
Init ==
  /\ row = [s \in Sessions |-> NoRow]
  /\ lastTurn = [s \in Sessions |-> 0]
  /\ tape \in [Sessions -> {{}, {1}}]
  /\ \A s \in Fresh : tape[s] = {}
  /\ booted = FALSE
  /\ stage = [r \in Requests |-> "idle"]
  /\ wants = [r \in Requests |-> <<>>]
  /\ sid = [r \in Requests |-> Nobody]
  /\ startedAt = [r \in Requests |-> 0]
  /\ now = 1

\* A process starts: bootstrapFromTape, in one transaction.
Boot ==
  /\ booted' = TRUE
  /\ row' = [s \in Sessions |-> IF s \in Unlisted THEN Row(Home(s)) ELSE row[s]]
  /\ lastTurn' = [s \in Sessions |-> IF s \in Unlisted THEN NewestOn(tape[s]) ELSE lastTurn[s]]
  /\ UNCHANGED <<tape, requestVars, now>>

\* An envelope with an address.
AskByAddress(r) ==
  /\ Asked(r, "find")
  /\ \E a \in Inbound : wants' = [wants EXCEPT ![r] = a]
  /\ UNCHANGED <<catalogVars, tape, booted, sid, startedAt, now>>

\* An envelope with a Session, or one that the selection, the hooks or the fallback
\* give a Session: its status is not looked at.
AskBySession(r) ==
  /\ Asked(r, "get")
  /\ \E s \in Named \cup Known : sid' = [sid EXCEPT ![r] = s]
  /\ UNCHANGED <<catalogVars, tape, booted, wants, startedAt, now>>

\* A row is read; PhusAgent.turn looks at its status.
Reads(r, s) ==
  /\ sid' = [sid EXCEPT ![r] = s]
  /\ Goes(r, IF row[s].status = "open" THEN "get" ELSE "refused")

FindByAddress(r) ==
  /\ stage[r] = "find"
  /\ \/ \E s \in Known : row[s].address = wants[r] /\ Reads(r, s)
     \/ ~Taken(wants[r]) /\ Goes(r, "insert") /\ UNCHANGED sid
  /\ UNCHANGED <<catalogVars, tape, booted, wants, startedAt, now>>

\* INSERT, with a new id or the index against it.
Insert(r) ==
  /\ stage[r] = "insert"
  /\ \/ /\ ~Taken(wants[r])
        /\ \E s \in Fresh \ Known :
             /\ row' = [row EXCEPT ![s] = Row(wants[r])]
             /\ sid' = [sid EXCEPT ![r] = s]
        /\ Goes(r, "reread")
     \/ /\ Taken(wants[r])
        /\ Goes(r, "refind")
        /\ UNCHANGED <<row, sid>>
  /\ UNCHANGED <<lastTurn, tape, booted, wants, startedAt, now>>

\* create returns the row as it is by now.
Reread(r) ==
  /\ stage[r] = "reread"
  /\ Reads(r, sid[r])
  /\ UNCHANGED <<catalogVars, tape, booted, wants, startedAt, now>>

\* The error is answered by looking again: another process was faster.
Refind(r) ==
  /\ stage[r] = "refind"
  /\ \E s \in Known : row[s].address = wants[r] /\ Reads(r, s)
  /\ UNCHANGED <<catalogVars, tape, booted, wants, startedAt, now>>

\* ensure, of the Session the turn is for.
EnsureGet(r) ==
  /\ stage[r] = "get"
  /\ Goes(r, IF sid[r] \in Known THEN "queued" ELSE "adopt")
  /\ UNCHANGED <<catalogVars, tape, booted, wants, sid, startedAt, now>>

\* INSERT at an address; what comes next if the id or the address is there already.
Inserts(r, a, otherwise) ==
  /\ \/ /\ sid[r] \notin Known
        /\ ~Taken(a)
        /\ row' = [row EXCEPT ![sid[r]] = Row(a)]
        /\ Goes(r, "queued")
     \/ /\ sid[r] \in Known \/ Taken(a)
        /\ Goes(r, otherwise)
        /\ UNCHANGED row
  /\ UNCHANGED <<lastTurn, tape, booted, wants, sid, startedAt, now>>

EnsureAdopts(r) ==
  /\ stage[r] = "adopt"
  /\ Inserts(r, Home(sid[r]), "again")

\* The same after either INSERT has failed; after the second it finds the row.
EnsureGetsAgain(r) ==
  /\ stage[r] = "again"
  /\ Goes(r, IF sid[r] \in Known THEN "queued" ELSE "shelter")
  /\ UNCHANGED <<catalogVars, tape, booted, wants, sid, startedAt, now>>

EnsureShelters(r) ==
  /\ stage[r] = "shelter"
  /\ Inserts(r, Refuge(sid[r]), "again")

Resolve(r) ==
  \/ FindByAddress(r) \/ Insert(r) \/ Reread(r) \/ Refind(r)
  \/ EnsureGet(r) \/ EnsureAdopts(r) \/ EnsureGetsAgain(r) \/ EnsureShelters(r)

\* Its lane is free: the turn starts.
Run(r) ==
  /\ stage[r] = "queued"
  /\ Goes(r, "running")
  /\ startedAt' = [startedAt EXCEPT ![r] = now]
  /\ UNCHANGED <<catalogVars, tape, booted, wants, sid, now>>

\* SessionTape.append of the turn, in one transaction; its ensure finds the row.
Record(r) ==
  /\ stage[r] = "running"
  /\ Goes(r, "done")
  /\ tape' = [tape EXCEPT ![sid[r]] = @ \cup {startedAt[r]}]
  /\ lastTurn' = [lastTurn EXCEPT ![sid[r]] = Latest(@, startedAt[r])]
  /\ UNCHANGED <<row, booted, wants, sid, startedAt, now>>

\* The turn fails, or its process dies.
Dies(r) ==
  /\ stage[r] \in Resolving \cup {"queued", "running"}
  /\ Goes(r, "dead")
  /\ UNCHANGED <<catalogVars, tape, booted, wants, sid, startedAt, now>>

\* createSession, which throws when the address is taken.
CreateSession ==
  /\ booted
  /\ \E s \in Fresh \ Known, a \in Inbound :
       ~Taken(a) /\ row' = [row EXCEPT ![s] = Row(a)]
  /\ UNCHANGED <<lastTurn, tape, booted, requestVars, now>>

UpdateStatus(s, status) ==
  /\ s \in Known
  /\ row' = [row EXCEPT ![s].status = status]
  /\ UNCHANGED <<lastTurn, tape, booted, requestVars, now>>

Close(s) == UpdateStatus(s, "closed")

Reopen(s) == UpdateStatus(s, "open")

Archive(s) == UpdateStatus(s, "archived")

Tick ==
  /\ now < MaxTime
  /\ now' = now + 1
  /\ UNCHANGED <<catalogVars, tape, booted, requestVars>>

Next ==
  \/ \E r \in Requests :
       \/ AskByAddress(r) \/ AskBySession(r) \/ Resolve(r)
       \/ Run(r) \/ Record(r) \/ Dies(r)
  \/ \E s \in Sessions : Close(s) \/ Reopen(s) \/ Archive(s)
  \/ Boot \/ CreateSession \/ Tick

Spec == Init /\ [][Next]_vars

\* What is synchronous goes on.
FairSpec == Spec /\ \A r \in Requests : WF_vars(Resolve(r))
-----------------------------------------------------------------------------
\* Every variable has its type.
TypeOK ==
  /\ row \in [Sessions -> Rows \cup {NoRow}]
  /\ lastTurn \in [Sessions -> Times]
  /\ tape \in [Sessions -> SUBSET Times]
  /\ booted \in BOOLEAN
  /\ stage \in [Requests -> Stages]
  /\ wants \in [Requests -> Inbound \cup {<<>>}]
  /\ sid \in [Requests -> Sessions \cup {Nobody}]
  /\ startedAt \in [Requests -> Times]
  /\ now \in Times

\* Whatever process resolves an address, and however their statements interleave, all
\* requests for it meet in one Session.
OneSessionEach ==
  \A r, q \in Requests :
    /\ wants[r] = wants[q] /\ wants[r] # <<>>
    /\ sid[r] # Nobody /\ sid[q] # Nobody
    => sid[r] = sid[q]

\* Catalog and tape agree: a Session with turns has a row, whose last_turn_at is the
\* latest of them, whoever created the row and in whatever order turns are recorded.
CatalogAgrees ==
  booted => \A s \in Sessions :
    /\ tape[s] # {} => s \in Known
    /\ lastTurn[s] \in tape[s] \cup {0}
    /\ \A t \in tape[s] : t <= lastTurn[s]

\* The catalog that processes share has one Session for an address (resolveOrCreate) and
\* knows the turns of each Session (bootstrapFromTape, recordTurn).
CatalogSound == OneSessionEach /\ CatalogAgrees

\* No turn, no other process that starts and no race opens a Session that was closed:
\* only reopen does.
OnlyReopenOpens ==
  [][\A s \in Known : row[s].status # "open" /\ row'[s].status = "open" => Reopen(s)]_vars

=============================================================================
