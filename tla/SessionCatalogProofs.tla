-------------------------- MODULE SessionCatalogProofs --------------------------
(***************************************************************************)
(* Theorems about SessionCatalog: any number of processes, requests and    *)
(* addresses.                                                              *)
(***************************************************************************)
EXTENDS SessionCatalog, TLAPS

\* The unique index has been kept.
IndexInv == \A s, t \in Known : row[s].address = row[t].address => s = t

\* What is known of a request at each stage: above all, one that has found the Session
\* of its address is at that address.
Place(r) ==
  /\ wants[r] # <<>> /\ sid[r] # Nobody => sid[r] \in Known /\ row[sid[r]].address = wants[r]
  /\ stage[r] \in {"find", "insert", "refind"} => wants[r] # <<>> /\ sid[r] = Nobody
  /\ stage[r] \in {"get", "adopt", "again", "shelter", "reread"} => sid[r] \in Sessions
  /\ stage[r] \in {"queued", "running"} => sid[r] \in Known
  /\ stage[r] = "idle" => wants[r] = <<>> /\ sid[r] = Nobody
  /\ stage[r] # "idle" => booted

PlaceInv == \A r \in Requests : Place(r)

\* Before the first process starts there is a tape only.
OldInv ==
  ~booted => \A s \in Sessions :
    s \notin Known /\ lastTurn[s] = 0 /\ tape[s] \in {{}, {1}}

IInv == TypeOK /\ IndexInv /\ PlaceInv /\ CatalogAgrees /\ OldInv

\* Rows stay, at their address.
RowsStay == \A s \in Known : s \in Known' /\ row'[s].address = row[s].address

LEMMA NoRowIsNoRow == NoRow \notin Rows
BY DEF NoRow, Rows, Statuses

LEMMA RowsAreRows == ASSUME NEW a \in Addresses PROVE Row(a) \in Rows /\ Row(a).address = a
BY DEF Row, Rows, Statuses

\* Initially.
LEMMA InitInv == ASSUME Init PROVE IInv
<1>1. 0 \in Times /\ 1 \in Times
  BY TimeAssumption DEF Times
<1>2. TypeOK
  BY <1>1 DEF Init, TypeOK, Stages
<1>3. Known = {}
  BY DEF Init, Known
<1>4. IndexInv /\ OldInv
  BY <1>3 DEF Init, IndexInv, OldInv
<1>5. PlaceInv
  BY DEF Init, PlaceInv, Place
<1>6. CatalogAgrees
  BY DEF Init, CatalogAgrees
<1>7. QED
  BY <1>2, <1>4, <1>5, <1>6 DEF IInv

\* A row that keeps to the index is inserted.
LEMMA InsertLemma ==
  ASSUME IInv, NEW s \in Sessions, s \notin Known, NEW a \in Addresses, ~Taken(a),
         row' = [row EXCEPT ![s] = Row(a)]
  PROVE  /\ row' \in [Sessions -> Rows \cup {NoRow}]
         /\ IndexInv'
         /\ RowsStay
         /\ s \in Known' /\ row'[s].address = a
<1>1. row \in [Sessions -> Rows \cup {NoRow}]
  BY DEF IInv, TypeOK
<1>2. row' \in [Sessions -> Rows \cup {NoRow}] /\ row'[s] = Row(a)
  BY <1>1, RowsAreRows
<1>3. s \in Known' /\ row'[s].address = a
  BY <1>2, RowsAreRows, NoRowIsNoRow DEF Known
<1>4. \A t \in Sessions \ {s} : row'[t] = row[t]
  BY <1>1
<1>5. \A t \in Sessions \ {s} : t \in Known' <=> t \in Known
  BY <1>4 DEF Known
<1>6. RowsStay
  BY <1>4, <1>5 DEF RowsStay, Known
<1>7. \A t \in Known' \ {s} : t \in Known /\ row'[t].address = row[t].address /\ row[t].address # a
  BY <1>4, <1>5 DEF Known, Taken
<1>8. IndexInv'
  BY <1>3, <1>7 DEF IInv, IndexInv
<1>9. QED
  BY <1>2, <1>3, <1>6, <1>8

\* The catalog does not change.
LEMMA SameRows ==
  ASSUME IInv, row' = row
  PROVE  row' \in [Sessions -> Rows \cup {NoRow}] /\ IndexInv' /\ RowsStay /\ Known' = Known
BY DEF IInv, TypeOK, IndexInv, RowsStay, Known

\* Turns and their time stamps are left alone.
LEMMA AgreesLemma ==
  ASSUME IInv, RowsStay, UNCHANGED <<lastTurn, tape, booted>>
  PROVE  CatalogAgrees'
<1>1. ASSUME booted', NEW s \in Sessions
      PROVE  /\ tape'[s] # {} => s \in Known'
             /\ lastTurn'[s] \in tape'[s] \cup {0}
             /\ \A t \in tape'[s] : t <= lastTurn'[s]
  BY <1>1 DEF IInv, CatalogAgrees, RowsStay
<1>2. QED
  BY <1>1 DEF CatalogAgrees

\* A step of one request, that writes no turn.
LEMMA RequestLemma ==
  ASSUME IInv, NEW r \in Requests, NEW st \in Stages, Goes(r, st), booted,
         UNCHANGED <<lastTurn, tape, booted>>, now' \in Times,
         row' \in [Sessions -> Rows \cup {NoRow}], IndexInv', RowsStay,
         wants' \in [Requests -> Inbound \cup {<<>>}],
         sid' \in [Requests -> Sessions \cup {Nobody}],
         startedAt' \in [Requests -> Times],
         \A q \in Requests \ {r} : wants'[q] = wants[q] /\ sid'[q] = sid[q],
         Place(r)'
  PROVE  IInv'
<1>1. stage' \in [Requests -> Stages] /\ \A q \in Requests \ {r} : stage'[q] = stage[q]
  BY DEF IInv, TypeOK, Goes
<1>2. TypeOK'
  BY <1>1 DEF IInv, TypeOK
<1>3. ASSUME NEW q \in Requests \ {r} PROVE Place(q)'
  BY <1>1 DEF IInv, PlaceInv, Place, RowsStay
<1>4. PlaceInv'
  BY <1>3 DEF PlaceInv
<1>5. CatalogAgrees'
  BY AgreesLemma
<1>6. OldInv'
  BY DEF OldInv
<1>7. QED
  BY <1>2, <1>4, <1>5, <1>6 DEF IInv

\* A request that is not idle is one of a process that has booted.
LEMMA AwakeLemma ==
  ASSUME IInv, NEW r \in Requests, stage[r] # "idle"
  PROVE  booted
BY DEF IInv, PlaceInv, Place

\* A step of one request that writes nothing but its stage and its Session.
LEMMA ReadLemma ==
  ASSUME IInv, NEW r \in Requests, NEW st \in Stages, Goes(r, st), booted,
         UNCHANGED <<catalogVars, tape, booted, wants, startedAt, now>>,
         sid' \in [Requests -> Sessions \cup {Nobody}],
         \A q \in Requests \ {r} : sid'[q] = sid[q],
         Place(r)'
  PROVE  IInv'
<1>1. row' = row /\ UNCHANGED <<lastTurn, tape, booted, wants, startedAt, now>>
  BY DEF catalogVars
<1>2. /\ row' \in [Sessions -> Rows \cup {NoRow}] /\ IndexInv' /\ RowsStay
  BY <1>1, SameRows
<1>3. /\ wants' \in [Requests -> Inbound \cup {<<>>}]
      /\ startedAt' \in [Requests -> Times]
      /\ now' \in Times
      /\ \A q \in Requests \ {r} : wants'[q] = wants[q] /\ sid'[q] = sid[q]
  BY <1>1 DEF IInv, TypeOK
<1>4. QED
  BY <1>1, <1>2, <1>3, RequestLemma

LEMMA AskInv ==
  ASSUME IInv, NEW r \in Requests, AskByAddress(r) \/ AskBySession(r)
  PROVE  IInv'
<1>1. CASE AskByAddress(r)
  <2>1. PICK a \in Inbound : wants' = [wants EXCEPT ![r] = a]
    BY <1>1 DEF AskByAddress
  <2>2. /\ booted /\ stage[r] = "idle" /\ Goes(r, "find") /\ "find" \in Stages
        /\ UNCHANGED <<lastTurn, tape, booted, sid, startedAt, now>>
        /\ row' = row
    BY <1>1 DEF AskByAddress, Asked, Stages, Resolving, catalogVars
  <2>3. /\ wants' \in [Requests -> Inbound \cup {<<>>}]
        /\ wants'[r] # <<>>
        /\ sid' \in [Requests -> Sessions \cup {Nobody}]
        /\ startedAt' \in [Requests -> Times]
        /\ now' \in Times
        /\ \A q \in Requests \ {r} : wants'[q] = wants[q] /\ sid'[q] = sid[q]
    BY <2>1, <2>2, InboundAssumption DEF IInv, TypeOK
  <2>4. stage'[r] = "find" /\ sid'[r] = Nobody
    BY <2>2 DEF IInv, TypeOK, Goes, PlaceInv, Place
  <2>5. Place(r)'
    BY <2>2, <2>3, <2>4 DEF Place
  <2>6. QED
    BY <2>2, <2>3, <2>5, SameRows, RequestLemma
<1>2. CASE AskBySession(r)
  <2>1. PICK s \in Named \cup Known : sid' = [sid EXCEPT ![r] = s]
    BY <1>2 DEF AskBySession
  <2>2. s \in Sessions
    BY DEF Known, Sessions
  <2>3. /\ booted /\ stage[r] = "idle" /\ Goes(r, "get") /\ "get" \in Stages
        /\ UNCHANGED <<catalogVars, tape, booted, wants, startedAt, now>>
    BY <1>2 DEF AskBySession, Asked, Stages, Resolving
  <2>4. /\ sid' \in [Requests -> Sessions \cup {Nobody}]
        /\ \A q \in Requests \ {r} : sid'[q] = sid[q]
        /\ sid'[r] = s
    BY <2>1, <2>2 DEF IInv, TypeOK
  <2>5. stage'[r] = "get" /\ wants'[r] = <<>>
    BY <2>3 DEF IInv, TypeOK, Goes, PlaceInv, Place
  <2>6. Place(r)'
    BY <2>2, <2>3, <2>4, <2>5 DEF Place
  <2>7. QED
    BY <2>3, <2>4, <2>6, ReadLemma
<1>3. QED
  BY <1>1, <1>2

\* The row of a Session at the request's address is read.
LEMMA ReadsInv ==
  ASSUME IInv, NEW r \in Requests, NEW s \in Known, row[s].address = wants[r],
         stage[r] # "idle", Reads(r, s),
         UNCHANGED <<catalogVars, tape, booted, wants, startedAt, now>>
  PROVE  IInv'
<1> DEFINE st == IF row[s].status = "open" THEN "get" ELSE "refused"
<1>1. s \in Sessions /\ st \in Stages /\ Goes(r, st) /\ st \in {"get", "refused"}
  BY DEF Known, Reads, Stages, Resolving
<1>2. booted
  BY AwakeLemma
<1>3. /\ sid' \in [Requests -> Sessions \cup {Nobody}]
      /\ \A q \in Requests \ {r} : sid'[q] = sid[q]
      /\ sid'[r] = s
  BY <1>1 DEF IInv, TypeOK, Reads
<1>4. stage'[r] = st
  BY <1>1 DEF IInv, TypeOK, Goes
<1> HIDE DEF st
<1>5. Place(r)'
  BY <1>1, <1>2, <1>3, <1>4, SameRows DEF Place, catalogVars
<1>6. QED
  BY <1>1, <1>2, <1>3, <1>5, ReadLemma

\* Nothing but the stage changes.
LEMMA MovesInv ==
  ASSUME IInv, NEW r \in Requests, NEW st \in Stages, Goes(r, st), stage[r] # "idle",
         UNCHANGED <<catalogVars, tape, booted, wants, sid, startedAt, now>>,
         st \in {"find", "insert", "refind"} => wants[r] # <<>> /\ sid[r] = Nobody,
         st \in {"get", "adopt", "again", "shelter", "reread"} => sid[r] \in Sessions,
         st \in {"queued", "running"} => sid[r] \in Known,
         st # "idle"
  PROVE  IInv'
<1>1. booted
  BY AwakeLemma
<1>2. stage'[r] = st
  BY DEF IInv, TypeOK, Goes
<1>3. Place(r)'
  BY <1>1, <1>2, SameRows DEF IInv, PlaceInv, Place, catalogVars
<1>4. /\ sid' \in [Requests -> Sessions \cup {Nobody}]
      /\ \A q \in Requests \ {r} : sid'[q] = sid[q]
  BY DEF IInv, TypeOK
<1>5. QED
  BY <1>1, <1>3, <1>4, ReadLemma

\* An address is resolved.
LEMMA ResolveAddressInv ==
  ASSUME IInv, NEW r \in Requests,
         FindByAddress(r) \/ Insert(r) \/ Reread(r) \/ Refind(r)
  PROVE  IInv'
<1>1. CASE FindByAddress(r)
  <2>1. CASE \E s \in Known : row[s].address = wants[r] /\ Reads(r, s)
    BY <1>1, <2>1, ReadsInv DEF FindByAddress
  <2>2. CASE Goes(r, "insert") /\ UNCHANGED sid
    <3>1. wants[r] # <<>> /\ sid[r] = Nobody /\ "insert" \in Stages
      BY <1>1 DEF FindByAddress, IInv, PlaceInv, Place, Stages, Resolving
    <3>2. QED
      BY <1>1, <2>2, <3>1, MovesInv DEF FindByAddress
  <2>3. QED
    BY <1>1, <2>1, <2>2 DEF FindByAddress
<1>2. CASE Insert(r)
  <2>1. stage[r] = "insert" /\ wants[r] # <<>> /\ sid[r] = Nobody /\ wants[r] \in Inbound
    BY <1>2 DEF Insert, IInv, TypeOK, PlaceInv, Place
  <2>2. CASE ~Taken(wants[r]) /\ Goes(r, "reread") /\ \E s \in Fresh \ Known :
               row' = [row EXCEPT ![s] = Row(wants[r])] /\ sid' = [sid EXCEPT ![r] = s]
    <3>1. PICK s \in Fresh \ Known :
            row' = [row EXCEPT ![s] = Row(wants[r])] /\ sid' = [sid EXCEPT ![r] = s]
      BY <2>2
    <3>2. s \in Sessions /\ wants[r] \in Addresses /\ "reread" \in Stages
      BY <2>1 DEF Sessions, Addresses, Stages, Resolving
    <3>3. /\ row' \in [Sessions -> Rows \cup {NoRow}] /\ IndexInv' /\ RowsStay
          /\ s \in Known' /\ row'[s].address = wants[r]
      BY <2>2, <3>1, <3>2, InsertLemma
    <3>4. UNCHANGED <<lastTurn, tape, booted, wants, startedAt, now>> /\ booted
      BY <1>2, <2>1, AwakeLemma DEF Insert
    <3>5. /\ sid' \in [Requests -> Sessions \cup {Nobody}]
          /\ wants' \in [Requests -> Inbound \cup {<<>>}]
          /\ startedAt' \in [Requests -> Times]
          /\ now' \in Times
          /\ \A q \in Requests \ {r} : wants'[q] = wants[q] /\ sid'[q] = sid[q]
          /\ sid'[r] = s
      BY <3>1, <3>2, <3>4 DEF IInv, TypeOK
    <3>6. stage'[r] = "reread"
      BY <2>2 DEF IInv, TypeOK, Goes
    <3>7. Place(r)'
      BY <3>2, <3>3, <3>4, <3>5, <3>6 DEF Place
    <3>8. QED
      BY <2>2, <3>2, <3>3, <3>4, <3>5, <3>7, RequestLemma
  <2>3. CASE Goes(r, "refind") /\ UNCHANGED <<row, sid>>
    <3>1. "refind" \in Stages
      BY DEF Stages, Resolving
    <3>2. QED
      BY <1>2, <2>1, <2>3, <3>1, MovesInv DEF Insert, catalogVars
  <2>4. QED
    BY <1>2, <2>2, <2>3 DEF Insert
<1>3. CASE Reread(r)
  <2>1. stage[r] = "reread" /\ sid[r] \in Sessions /\ Reads(r, sid[r])
        /\ UNCHANGED <<catalogVars, tape, booted, wants, startedAt, now>>
    BY <1>3 DEF Reread, IInv, PlaceInv, Place
  <2> DEFINE st == IF row[sid[r]].status = "open" THEN "get" ELSE "refused"
  <2>2. Goes(r, st) /\ st \in Stages /\ st \in {"get", "refused"} /\ sid' = [sid EXCEPT ![r] = sid[r]]
    BY <2>1 DEF Reads, Stages, Resolving
  <2>3. sid' = sid
    BY <2>2 DEF IInv, TypeOK
  <2> HIDE DEF st
  <2>4. QED
    BY <2>1, <2>2, <2>3, MovesInv
<1>4. CASE Refind(r)
  BY <1>4, ReadsInv DEF Refind
<1>5. QED
  BY <1>1, <1>2, <1>3, <1>4

\* A row at address a, or the next attempt.
LEMMA InsertsInv ==
  ASSUME IInv, NEW r \in Requests, NEW a \in Addresses, NEW st \in Resolving,
         stage[r] \in {"adopt", "shelter"}, st \in {"again", "shelter"}, Inserts(r, a, st)
  PROVE  IInv'
<1>1. /\ sid[r] \in Sessions /\ "queued" \in Stages /\ st \in Stages
      /\ UNCHANGED <<lastTurn, tape, booted, wants, sid, startedAt, now>>
  BY DEF Inserts, IInv, PlaceInv, Place, Stages
<1>2. booted
  BY AwakeLemma
<1>3. CASE sid[r] \notin Known /\ ~Taken(a) /\ row' = [row EXCEPT ![sid[r]] = Row(a)]
           /\ Goes(r, "queued")
  <2>1. /\ row' \in [Sessions -> Rows \cup {NoRow}] /\ IndexInv' /\ RowsStay
        /\ sid[r] \in Known'
    BY <1>1, <1>3, InsertLemma
  <2>2. wants[r] = <<>>
    BY <1>1, <1>3, SessionsAssumption DEF IInv, PlaceInv, Place, Sessions
  <2>3. stage'[r] = "queued"
    BY <1>3 DEF IInv, TypeOK, Goes
  <2>4. Place(r)'
    BY <1>1, <1>2, <2>1, <2>2, <2>3 DEF Place
  <2>5. /\ sid' \in [Requests -> Sessions \cup {Nobody}]
        /\ wants' \in [Requests -> Inbound \cup {<<>>}]
        /\ startedAt' \in [Requests -> Times]
        /\ now' \in Times
        /\ \A q \in Requests \ {r} : wants'[q] = wants[q] /\ sid'[q] = sid[q]
    BY <1>1 DEF IInv, TypeOK
  <2>6. QED
    BY <1>1, <1>2, <1>3, <2>1, <2>4, <2>5, RequestLemma
<1>4. CASE Goes(r, st) /\ row' = row
  BY <1>1, <1>4, MovesInv DEF catalogVars
<1>5. QED
  BY <1>3, <1>4 DEF Inserts

LEMMA EnsureInv ==
  ASSUME IInv, NEW r \in Requests,
         EnsureGet(r) \/ EnsureAdopts(r) \/ EnsureGetsAgain(r) \/ EnsureShelters(r)
  PROVE  IInv'
<1>1. stage[r] \in {"get", "adopt", "again", "shelter"} /\ sid[r] \in Sessions
  BY DEF EnsureGet, EnsureAdopts, EnsureGetsAgain, EnsureShelters, IInv, PlaceInv, Place
<1>2. Home(sid[r]) \in Addresses /\ Refuge(sid[r]) \in Addresses
  BY <1>1 DEF Addresses
<1>3. {"queued", "adopt", "shelter"} \subseteq Stages
  BY DEF Stages, Resolving
<1>4. CASE EnsureGet(r) \/ EnsureGetsAgain(r)
  <2>1. PICK st \in {"queued", "adopt", "shelter"} :
          Goes(r, st) /\ (st = "queued" => sid[r] \in Known)
    BY <1>4 DEF EnsureGet, EnsureGetsAgain
  <2>2. UNCHANGED <<catalogVars, tape, booted, wants, sid, startedAt, now>>
    BY <1>4 DEF EnsureGet, EnsureGetsAgain
  <2>3. QED
    BY <1>1, <1>3, <2>1, <2>2, MovesInv
<1>5. CASE EnsureAdopts(r)
  BY <1>2, <1>5, InsertsInv DEF EnsureAdopts, Resolving
<1>6. CASE EnsureShelters(r)
  BY <1>2, <1>6, InsertsInv DEF EnsureShelters, Resolving
<1>7. QED
  BY <1>4, <1>5, <1>6

\* A turn starts.
LEMMA RunInv == ASSUME IInv, NEW r \in Requests, Run(r) PROVE IInv'
<1>1. /\ stage[r] = "queued" /\ Goes(r, "running") /\ "running" \in Stages
      /\ row' = row
      /\ UNCHANGED <<lastTurn, tape, booted, wants, sid, now>>
      /\ startedAt' = [startedAt EXCEPT ![r] = now]
  BY DEF Run, Stages, catalogVars
<1>2. booted
  BY <1>1, AwakeLemma
<1>3. /\ wants' \in [Requests -> Inbound \cup {<<>>}]
      /\ sid' \in [Requests -> Sessions \cup {Nobody}]
      /\ startedAt' \in [Requests -> Times]
      /\ now' \in Times
      /\ \A q \in Requests \ {r} : wants'[q] = wants[q] /\ sid'[q] = sid[q]
  BY <1>1 DEF IInv, TypeOK
<1>4. stage'[r] = "running"
  BY <1>1 DEF IInv, TypeOK, Goes
<1>5. Place(r)'
  BY <1>1, <1>2, <1>4, SameRows DEF IInv, PlaceInv, Place
<1>6. QED
  BY <1>1, <1>2, <1>3, <1>5, SameRows, RequestLemma

\* A turn is recorded: the one step that writes to the tape.
LEMMA RecordInv == ASSUME IInv, NEW r \in Requests, Record(r) PROVE IInv'
<1> DEFINE s == sid[r]
<1> DEFINE t == startedAt[r]
<1>1. /\ s \in Known /\ s \in Sessions /\ t \in Times /\ booted
      /\ booted' = booted /\ row' = row
  BY AwakeLemma DEF Record, IInv, TypeOK, PlaceInv, Place, Known
<1>2. /\ tape' = [tape EXCEPT ![s] = @ \cup {t}]
      /\ lastTurn' = [lastTurn EXCEPT ![s] = Latest(@, t)]
  BY DEF Record
<1> HIDE DEF s, t
<1>3. /\ tape'[s] = tape[s] \cup {t} /\ lastTurn'[s] = Latest(lastTurn[s], t)
      /\ \A u \in Sessions \ {s} : tape'[u] = tape[u] /\ lastTurn'[u] = lastTurn[u]
      /\ lastTurn[s] \in Times /\ tape[s] \subseteq Times
  BY <1>1, <1>2 DEF IInv, TypeOK
<1>4. Latest(lastTurn[s], t) \in {lastTurn[s], t}
  BY DEF Latest
<1>5. lastTurn[s] <= Latest(lastTurn[s], t) /\ t <= Latest(lastTurn[s], t)
  BY <1>1, <1>3 DEF Latest, Times
<1>6. /\ lastTurn'[s] \in tape'[s] \cup {0}
      /\ \A u \in tape'[s] : u <= lastTurn'[s]
  <2>1. lastTurn[s] \in tape[s] \cup {0} /\ \A u \in tape[s] : u <= lastTurn[s]
    BY <1>1 DEF IInv, CatalogAgrees
  <2>2. ASSUME NEW u \in tape[s] PROVE u <= lastTurn'[s]
    <3>1. u \in Nat /\ lastTurn[s] \in Nat /\ Latest(lastTurn[s], t) \in Nat
      BY <1>1, <1>3, <1>4 DEF Times
    <3>2. QED
      BY <1>3, <1>5, <2>1, <3>1
  <2>3. QED
    BY <1>3, <1>4, <1>5, <2>1, <2>2
<1>7. Known' = Known
  BY <1>1, SameRows
<1>8. CatalogAgrees'
  <2>1. ASSUME NEW u \in Sessions
        PROVE  /\ tape'[u] # {} => u \in Known'
               /\ lastTurn'[u] \in tape'[u] \cup {0}
               /\ \A v \in tape'[u] : v <= lastTurn'[u]
    <3>1. CASE u = s
      BY <1>1, <1>6, <1>7, <3>1
    <3>2. CASE u # s
      BY <1>1, <1>3, <1>7, <3>2 DEF IInv, CatalogAgrees
    <3>3. QED
      BY <3>1, <3>2
  <2>2. QED
    BY <2>1 DEF CatalogAgrees
<1>9. TypeOK'
  <2>1. "done" \in Stages /\ Latest(lastTurn[s], t) \in Times
    BY <1>1, <1>3, <1>4 DEF Stages
  <2>2. tape' \in [Sessions -> SUBSET Times] /\ lastTurn' \in [Sessions -> Times]
    BY <1>1, <1>2, <1>3, <2>1 DEF IInv, TypeOK
  <2>3. QED
    BY <1>1, <2>1, <2>2 DEF Record, Goes, IInv, TypeOK
<1>10. PlaceInv'
  <2>1. /\ stage'[r] = "done" /\ \A q \in Requests \ {r} : stage'[q] = stage[q]
        /\ wants' = wants /\ sid' = sid
    BY DEF Record, Goes, IInv, TypeOK
  <2>2. ASSUME NEW q \in Requests PROVE Place(q)'
    BY <1>1, <1>7, <2>1 DEF IInv, PlaceInv, Place
  <2>3. QED
    BY <2>2 DEF PlaceInv
<1>11. IndexInv' /\ OldInv'
  BY <1>1, SameRows DEF OldInv
<1>12. QED
  BY <1>8, <1>9, <1>10, <1>11 DEF IInv

LEMMA DiesInv == ASSUME IInv, NEW r \in Requests, Dies(r) PROVE IInv'
<1>1. stage[r] # "idle" /\ "dead" \in Stages
  BY DEF Dies, Stages, Resolving
<1>2. QED
  BY <1>1, MovesInv DEF Dies

\* A step of no request, after which every row is where it was.
LEMMA CatalogLemma ==
  ASSUME IInv, UNCHANGED <<stage, wants, sid, startedAt>>, RowsStay, booted', IndexInv',
         CatalogAgrees', now' \in Times,
         row' \in [Sessions -> Rows \cup {NoRow}],
         tape' = tape, lastTurn' \in [Sessions -> Times]
  PROVE  IInv'
<1>1. TypeOK'
  BY DEF IInv, TypeOK
<1>2. ASSUME NEW r \in Requests PROVE Place(r)'
  BY DEF IInv, PlaceInv, Place, RowsStay
<1>3. PlaceInv'
  BY <1>2 DEF PlaceInv
<1>4. OldInv'
  BY DEF OldInv
<1>5. QED
  BY <1>1, <1>3, <1>4 DEF IInv

LEMMA CreateInv == ASSUME IInv, CreateSession PROVE IInv'
<1>1. PICK s \in Fresh \ Known, a \in Inbound : ~Taken(a) /\ row' = [row EXCEPT ![s] = Row(a)]
  BY DEF CreateSession
<1>2. s \in Sessions /\ a \in Addresses
  BY DEF Sessions, Addresses
<1>3. row' \in [Sessions -> Rows \cup {NoRow}] /\ IndexInv' /\ RowsStay
  BY <1>1, <1>2, InsertLemma
<1>4. booted' /\ UNCHANGED <<lastTurn, tape, booted, stage, wants, sid, startedAt, now>>
  BY DEF CreateSession, requestVars
<1>5. CatalogAgrees'
  BY <1>3, <1>4, AgreesLemma
<1>6. lastTurn' \in [Sessions -> Times] /\ now' \in Times
  BY <1>4 DEF IInv, TypeOK
<1>7. QED
  BY <1>3, <1>4, <1>5, <1>6, CatalogLemma

\* The address of a row does not depend on its status.
LEMMA StatusLemma ==
  ASSUME NEW x \in Rows, NEW st \in Statuses
  PROVE  [x EXCEPT !.status = st] \in Rows /\ [x EXCEPT !.status = st].address = x.address
BY DEF Rows

LEMMA StatusInv ==
  ASSUME IInv, NEW s \in Sessions, NEW st \in Statuses, UpdateStatus(s, st)
  PROVE  IInv'
<1>1. row[s] \in Rows /\ s \in Known
  BY DEF UpdateStatus, Known, IInv, TypeOK
<1> DEFINE x == [row[s] EXCEPT !.status = st]
<1>2. x \in Rows /\ x.address = row[s].address
  BY <1>1, StatusLemma
<1>3. row' = [row EXCEPT ![s] = x]
  BY DEF UpdateStatus
<1> HIDE DEF x
<1>4. /\ row' \in [Sessions -> Rows \cup {NoRow}]
      /\ row'[s] = x /\ \A t \in Sessions \ {s} : row'[t] = row[t]
  BY <1>2, <1>3 DEF IInv, TypeOK
<1>5. Known' = Known
  BY <1>1, <1>2, <1>4, NoRowIsNoRow DEF Known
<1>6. \A t \in Known : row'[t].address = row[t].address
  BY <1>2, <1>4 DEF Known
<1>7. RowsStay /\ IndexInv'
  BY <1>5, <1>6 DEF RowsStay, IndexInv, IInv
<1>8. booted
  BY <1>1 DEF IInv, OldInv
<1>9. UNCHANGED <<lastTurn, tape, booted, stage, wants, sid, startedAt, now>>
  BY DEF UpdateStatus, requestVars
<1>10. CatalogAgrees'
  BY <1>7, <1>9, AgreesLemma
<1>11. lastTurn' \in [Sessions -> Times] /\ now' \in Times
  BY <1>9 DEF IInv, TypeOK
<1>12. QED
  BY <1>4, <1>7, <1>8, <1>9, <1>10, <1>11, CatalogLemma

\* A process starts after the first: the tape has nothing new for the catalog.
LEMMA NothingNew == ASSUME IInv, booted PROVE Unlisted = {}
BY DEF Unlisted, IInv, CatalogAgrees

\* The latest of at most one turn.
LEMMA OldTape == NewestOn({1}) = 1
<1>1. \E t \in {1} : \A u \in {1} : u <= t
  OBVIOUS
<1>2. NewestOn({1}) \in {1}
  BY <1>1 DEF NewestOn
<1>3. QED
  BY <1>2

LEMMA HomesDiffer == ASSUME NEW s, NEW t, Home(s) = Home(t) PROVE s = t
BY DEF Home

LEMMA BootInv == ASSUME IInv, Boot PROVE IInv'
<1> USE DEF Boot, requestVars
<1>1. /\ UNCHANGED <<tape, stage, wants, sid, startedAt, now>> /\ booted'
      /\ row' = [s \in Sessions |-> IF s \in Unlisted THEN Row(Home(s)) ELSE row[s]]
      /\ lastTurn' =
           [s \in Sessions |-> IF s \in Unlisted THEN NewestOn(tape[s]) ELSE lastTurn[s]]
  OBVIOUS
<1>2. now' \in Times
  BY <1>1 DEF IInv, TypeOK
<1>3. CASE booted
  <2>1. row' = row /\ lastTurn' = lastTurn
    BY <1>1, <1>3, NothingNew DEF IInv, TypeOK
  <2>2. row' \in [Sessions -> Rows \cup {NoRow}] /\ IndexInv' /\ RowsStay
    BY <2>1, SameRows
  <2>3. CatalogAgrees'
    BY <1>1, <1>3, <2>1, <2>2, AgreesLemma
  <2>4. lastTurn' \in [Sessions -> Times]
    BY <2>1 DEF IInv, TypeOK
  <2>5. QED
    BY <1>1, <1>2, <2>2, <2>3, <2>4, CatalogLemma
<1>4. CASE ~booted
  <2>1. \A s \in Sessions : s \notin Known /\ row[s] = NoRow /\ lastTurn[s] = 0
                            /\ tape[s] \in {{}, {1}}
    BY <1>4 DEF IInv, OldInv, Known
  <2>2. Unlisted = {s \in Sessions : tape[s] = {1}}
    BY <2>1 DEF Unlisted, Taken, Known
  <2>3. \A s \in Unlisted : Row(Home(s)) \in Rows /\ Row(Home(s)).address = Home(s)
    BY <2>2, RowsAreRows DEF Addresses
  <2>4. /\ row' \in [Sessions -> Rows \cup {NoRow}]
        /\ \A s \in Unlisted : row'[s] \in Rows /\ row'[s].address = Home(s)
        /\ \A s \in Sessions \ Unlisted : row'[s] = NoRow
    BY <1>1, <2>1, <2>2, <2>3
  <2>5. Known' = Unlisted
    BY <2>2, <2>4, NoRowIsNoRow DEF Known
  <2>6. IndexInv'
    BY <2>4, <2>5, HomesDiffer DEF IndexInv
  <2>7. RowsStay
    BY <2>1 DEF RowsStay, Known
  <2>8. /\ \A s \in Unlisted : lastTurn'[s] = 1 /\ tape[s] = {1}
        /\ \A s \in Sessions \ Unlisted : lastTurn'[s] = 0 /\ tape[s] = {}
    BY <1>1, <2>1, <2>2, OldTape
  <2>9. lastTurn' \in [Sessions -> Times]
    BY <1>1, <2>8, TimeAssumption DEF Times
  <2>10. CatalogAgrees'
    BY <1>1, <2>5, <2>8 DEF CatalogAgrees
  <2>11. QED
    BY <1>1, <1>2, <2>4, <2>6, <2>7, <2>9, <2>10, CatalogLemma
<1>5. QED
  BY <1>3, <1>4
-----------------------------------------------------------------------------
\* Every step keeps the invariant.
LEMMA StepInv == ASSUME IInv, [Next]_vars PROVE IInv'
<1>1. CASE \E r \in Requests :
             AskByAddress(r) \/ AskBySession(r) \/ Resolve(r) \/ Run(r) \/ Record(r) \/ Dies(r)
  BY <1>1, AskInv, ResolveAddressInv, EnsureInv, RunInv, RecordInv, DiesInv DEF Resolve
<1>2. CASE \E s \in Sessions : Close(s) \/ Reopen(s) \/ Archive(s)
  BY <1>2, StatusInv DEF Close, Reopen, Archive, Statuses
<1>3. CASE Boot
  BY <1>3, BootInv
<1>4. CASE CreateSession
  BY <1>4, CreateInv
<1>5. CASE Tick
  <2>1. now' \in Times /\ UNCHANGED <<row, lastTurn, tape, booted, stage, wants, sid, startedAt>>
    <3>1. now \in Times /\ now < MaxTime /\ now' = now + 1
      BY <1>5 DEF Tick, IInv, TypeOK
    <3>2. now' \in Times
      BY <3>1, TimeAssumption DEF Times
    <3>3. QED
      BY <1>5, <3>2 DEF Tick, catalogVars, requestVars
  <2>2. TypeOK'
    BY <2>1 DEF IInv, TypeOK
  <2>3. IndexInv' /\ PlaceInv' /\ CatalogAgrees' /\ OldInv'
    BY <2>1 DEF IInv, IndexInv, PlaceInv, Place, CatalogAgrees, OldInv, Known
  <2>4. QED
    BY <2>2, <2>3 DEF IInv
<1>6. CASE UNCHANGED vars
  <2>1. UNCHANGED <<row, lastTurn, tape, booted, stage, wants, sid, startedAt, now>>
    BY <1>6 DEF vars, catalogVars, requestVars
  <2>2. TypeOK' /\ IndexInv' /\ PlaceInv' /\ CatalogAgrees' /\ OldInv'
    BY <2>1 DEF IInv, TypeOK, IndexInv, PlaceInv, Place, CatalogAgrees, OldInv, Known
  <2>3. QED
    BY <2>2 DEF IInv
<1>7. QED
  BY <1>1, <1>2, <1>3, <1>4, <1>5, <1>6 DEF Next

\* The invariant that the theorems rest on: the index has been kept, a request that has
\* found the Session of its address is at that address, and rows never leave theirs.
THEOREM Invariance == Spec => []IInv
<1>1. Init => IInv
  BY InitInv
<1>2. IInv /\ [Next]_vars => IInv'
  BY StepInv
<1>3. QED
  BY <1>1, <1>2, PTL DEF Spec

\* Every variable keeps its type.
THEOREM TypeCorrect == Spec => []TypeOK
<1>1. IInv => TypeOK
  BY DEF IInv
<1>2. QED
  BY <1>1, Invariance, PTL

\* All requests for an address, in whatever processes, meet in one Session.
THEOREM OneSessionEachHolds == Spec => []OneSessionEach
<1>1. ASSUME IInv PROVE OneSessionEach
  <2>1. ASSUME NEW r \in Requests, NEW q \in Requests, wants[r] = wants[q], wants[r] # <<>>,
               sid[r] # Nobody, sid[q] # Nobody
        PROVE  sid[r] = sid[q]
    BY <1>1, <2>1 DEF IInv, PlaceInv, Place, IndexInv
  <2>2. QED
    BY <2>1 DEF OneSessionEach
<1>2. QED
  BY <1>1, Invariance, PTL

\* A Session with turns has a row, whose last_turn_at is the latest of them.
THEOREM CatalogAgreesHolds == Spec => []CatalogAgrees
<1>1. IInv => CatalogAgrees
  BY DEF IInv
<1>2. QED
  BY <1>1, Invariance, PTL

\* session-store.ts: addresses have one Session and the catalog knows its turns, for any
\* requests and processes.
THEOREM CatalogSoundHolds == Spec => []CatalogSound
<1>1. OneSessionEach /\ CatalogAgrees => CatalogSound
  BY DEF CatalogSound
<1>2. QED
  BY <1>1, OneSessionEachHolds, CatalogAgreesHolds, PTL

\* A new row is no row that was there.
LEMMA InsertedElsewhere ==
  ASSUME IInv, NEW s \in Sessions \ Known, NEW a, row' = [row EXCEPT ![s] = Row(a)],
         NEW t \in Known
  PROVE  row'[t] = row[t]
BY DEF IInv, TypeOK, Known

LEMMA StepOpens ==
  ASSUME IInv, [Next]_vars, NEW s \in Known, row[s].status # "open", row'[s].status = "open"
  PROVE  Reopen(s)
<1>1. s \in Sessions /\ row'[s] # row[s]
  BY DEF Known
<1>2. CASE \E r \in Requests :
             AskByAddress(r) \/ AskBySession(r) \/ Resolve(r) \/ Run(r) \/ Record(r) \/ Dies(r)
  <2>1. PICK r \in Requests :
          AskByAddress(r) \/ AskBySession(r) \/ Resolve(r) \/ Run(r) \/ Record(r) \/ Dies(r)
    BY <1>2
  <2>2. Insert(r) \/ EnsureAdopts(r) \/ EnsureShelters(r)
    BY <1>1, <2>1 DEF AskByAddress, AskBySession, Run, Record, Dies, Resolve, FindByAddress,
      Reread, Refind, EnsureGet, EnsureGetsAgain, catalogVars
  <2>3. \E u \in Sessions \ Known, a \in Addresses : row' = [row EXCEPT ![u] = Row(a)]
    <3>1. CASE Insert(r)
      BY <1>1, <3>1 DEF Insert, Sessions, Addresses, IInv, TypeOK, PlaceInv, Place
    <3>2. CASE EnsureAdopts(r)
      <4>1. sid[r] \in Sessions
        BY <3>2 DEF EnsureAdopts, IInv, PlaceInv, Place
      <4>2. Home(sid[r]) \in Addresses
        BY <4>1 DEF Addresses
      <4>3. row' # row
        BY <1>1
      <4>4. sid[r] \notin Known /\ row' = [row EXCEPT ![sid[r]] = Row(Home(sid[r]))]
        BY <3>2, <4>3 DEF EnsureAdopts, Inserts
      <4>5. QED
        BY <4>1, <4>2, <4>4
    <3>3. CASE EnsureShelters(r)
      <4>1. sid[r] \in Sessions
        BY <3>3 DEF EnsureShelters, IInv, PlaceInv, Place
      <4>2. Refuge(sid[r]) \in Addresses
        BY <4>1 DEF Addresses
      <4>3. row' # row
        BY <1>1
      <4>4. sid[r] \notin Known /\ row' = [row EXCEPT ![sid[r]] = Row(Refuge(sid[r]))]
        BY <3>3, <4>3 DEF EnsureShelters, Inserts
      <4>5. QED
        BY <4>1, <4>2, <4>4
    <3>4. QED
      BY <2>2, <3>1, <3>2, <3>3
  <2>4. QED
    BY <1>1, <2>3, InsertedElsewhere
<1>3. CASE \E t \in Sessions : Close(t) \/ Reopen(t) \/ Archive(t)
  <2>1. PICK t \in Sessions, st \in Statuses :
          UpdateStatus(t, st) /\ (st = "open" => Reopen(t))
    BY <1>3 DEF Close, Reopen, Archive, Statuses
  <2>2. row[t] \in Rows /\ row' = [row EXCEPT ![t].status = st]
    BY <2>1 DEF UpdateStatus, Known, IInv, TypeOK
  <2>3. t = s
    BY <1>1, <2>2 DEF IInv, TypeOK
  <2>4. row'[s].status = st
    BY <1>1, <2>2, <2>3 DEF IInv, TypeOK, Rows
  <2>5. QED
    BY <2>1, <2>3, <2>4
<1>4. CASE Boot
  BY <1>1, <1>4 DEF Boot, Unlisted
<1>5. CASE CreateSession
  <2>1. \E u \in Sessions \ Known, a \in Inbound : row' = [row EXCEPT ![u] = Row(a)]
    BY <1>5 DEF CreateSession, Sessions
  <2>2. QED
    BY <1>1, <2>1, InsertedElsewhere
<1>6. CASE Tick \/ UNCHANGED vars
  BY <1>1, <1>6 DEF Tick, vars, catalogVars
<1>7. QED
  BY <1>2, <1>3, <1>4, <1>5, <1>6 DEF Next

\* Nothing but reopen opens a Session that has a row.
THEOREM OnlyReopenOpensHolds == Spec => OnlyReopenOpens
<1>1. ASSUME IInv, [Next]_vars
      PROVE  [\A s \in Known : row[s].status # "open" /\ row'[s].status = "open" => Reopen(s)]_vars
  BY <1>1, StepOpens
<1>2. QED
  BY <1>1, Invariance, PTL DEF Spec, OnlyReopenOpens
=============================================================================
