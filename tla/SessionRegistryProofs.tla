------------------------ MODULE SessionRegistryProofs ------------------------
(***************************************************************************)
(* Proofs about SessionRegistry, for every set of Sessions and Turns and   *)
(* every cap.  The lane invariant is about the promise chain; the table    *)
(* invariant is about what one entry of the table holds, and is proved     *)
(* operator by operator, because a call applies several to the table       *)
(* within one synchronous segment.                                         *)
(***************************************************************************)
EXTENDS SessionRegistry, FiniteSetTheorems, TLAPS

(***************************************************************************)
(* The lane invariant.                                                     *)
(***************************************************************************)

\* A turn belongs to a Session from its call on, and waits only within it.
LaneMembers ==
  /\ \A t \in Turns : status[t] \in Unfinished => session[t] \in Sessions
  /\ \A t \in Turns : status[t] = "new" => session[t] = NoSession
  /\ \A t \in Turns : status[t] \notin Unfinished => ahead[t] = {}
  /\ \A t \in Turns : status[t] \in Unfinished => ahead[t] \subseteq Active(session[t]) \ {t}

\* The promise a turn awaits stands for every turn ahead of it.
LaneChain ==
  /\ \A t \in Turns : ahead[t] # {} =>
       /\ waitsFor[t] \in ahead[t]
       /\ ahead[t] = {waitsFor[t]} \cup ahead[waitsFor[t]]
  /\ \A t \in Turns : Executing(t) => ahead[t] = {}

\* Of two turns of a Session one is ahead of the other.
LaneOrder ==
  \A t, u \in Turns :
    status[t] \in Unfinished /\ status[u] \in Unfinished /\ session[t] = session[u] /\ t # u
      => t \in ahead[u] \/ u \in ahead[t]

\* The end of a lane in use is its last turn.
LaneTail ==
  ~disposed => \A s \in Sessions : Active(s) # {} =>
    /\ tail[s] \in Active(s)
    /\ Active(s) = {tail[s]} \cup ahead[tail[s]]

LaneInv == LaneMembers /\ LaneChain /\ LaneOrder /\ LaneTail

\* entry.pending counts the turns of its lane.
CountInv == \A s \in Sessions : pending[s] = Cardinality(Active(s))

(***************************************************************************)
(* The table invariant.                                                    *)
(***************************************************************************)

TableType ==
  [resident : SUBSET Sessions, lastUsedAt : [Sessions -> Nat],
   pending : [Sessions -> Nat], tail : [Sessions -> Turns \cup {NoTurn}],
   memory : [Sessions -> SUBSET Turns], durable : [Sessions -> SUBSET Turns],
   attached : [Sessions -> SUBSET (Subscribers \cup Handlers)]]

TableConversation(T, s) == IF s \in T.resident THEN T.memory[s] ELSE T.durable[s]

\* What holds of the table when sel is the selected Session.
TableInv(T, sel) ==
  /\ T \in TableType
  /\ ~disposed => \A s \in Sessions : T.pending[s] # 0 => s \in T.resident
  /\ sel # NoSession => sel \in T.resident
  /\ \A s \in Sessions : \A t \in T.memory[s] \cup T.durable[s] : session[t] = s
  /\ \A s \in Sessions : T.attached[s] = IF s \in T.resident THEN wiring ELSE {}
  /\ \A s \in T.resident : T.durable[s] \subseteq T.memory[s] \cup cleared

\* The inductive invariant.
IInv == TypeOK /\ LaneInv /\ CountInv /\ TableInv(Table, selected)

\* Going from table T to table U loses no message and no better checkpoint, and
\* no lane in use.
KeepsMessages(T, U) ==
  /\ \A s \in Sessions : TableConversation(T, s) \subseteq TableConversation(U, s)
  /\ \A s \in Sessions : T.durable[s] \subseteq U.durable[s] \cup cleared

Keeps(T, U) ==
  /\ KeepsMessages(T, U)
  /\ U.pending = T.pending
  /\ \A s \in Sessions : T.pending[s] # 0 => U.tail[s] = T.tail[s]

-----------------------------------------------------------------------------
\* Steps that keep add up.
LEMMA KeepsTransitive ==
  ASSUME NEW T, NEW U, NEW W, Keeps(T, U), Keeps(U, W)
  PROVE  Keeps(T, W)
BY DEF Keeps, KeepsMessages

\* The present table has the type of a table.
LEMMA TableHasType == ASSUME TypeOK PROVE Table \in TableType
BY DEF TypeOK, Table, TableType

\* Touching an entry changes neither the table's invariant nor its contents.
LEMMA TouchedLemma ==
  ASSUME NEW T, NEW sel, TableInv(T, sel), NEW s \in Sessions, clock \in Nat
  PROVE  /\ TableInv(Touched(T, s), sel)
         /\ Keeps(T, Touched(T, s))
         /\ Touched(T, s).resident = T.resident
         /\ Touched(T, s).tail = T.tail
         /\ Touched(T, s).durable = T.durable
<1> DEFINE U == Touched(T, s)
<1>1. /\ U \in TableType
      /\ U.resident = T.resident
      /\ U.pending = T.pending
      /\ U.tail = T.tail
      /\ U.memory = T.memory
      /\ U.durable = T.durable
      /\ U.attached = T.attached
  BY DEF Touched, TableInv, TableType
<1> HIDE DEF U
<1>2. QED
  BY <1>1 DEF U, TableInv, Keeps, KeepsMessages, TableConversation

\* A runtime that is created holds what its Session's checkpoint holds, so that
\* the Session's conversation does not change.
LEMMA CreatedLemma ==
  ASSUME NEW T, NEW sel, TableInv(T, sel), NEW s \in Sessions \ T.resident, ~disposed,
         clock \in Nat, wiring \subseteq Subscribers \cup Handlers
  PROVE  /\ TableInv(Created(T, s), sel)
         /\ Keeps(T, Created(T, s))
         /\ Created(T, s).resident = T.resident \cup {s}
         /\ Created(T, s).tail[s] = NoTurn
<1> DEFINE U == Created(T, s)
<1>1. /\ U \in TableType
      /\ U.resident = T.resident \cup {s}
      /\ U.pending = T.pending
      /\ U.tail = [T.tail EXCEPT ![s] = NoTurn]
      /\ U.memory = [T.memory EXCEPT ![s] = T.durable[s]]
      /\ U.durable = T.durable
      /\ U.attached = [T.attached EXCEPT ![s] = wiring]
  BY DEF Created, TableInv, TableType
<1>2. T \in TableType
  BY DEF TableInv
<1> HIDE DEF U
<1>3. TableInv(U, sel)
  BY <1>1, <1>2 DEF TableInv, TableType
<1>4. Keeps(T, U)
  BY <1>1, <1>2 DEF TableInv, TableType, Keeps, KeepsMessages, TableConversation
<1>5. QED
  BY <1>1, <1>2, <1>3, <1>4 DEF U, TableType

\* Saving checkpoints keeps every conversation.
LEMMA SavedLemma ==
  ASSUME NEW T, NEW sel, TableInv(T, sel), NEW S \in SUBSET T.resident
  PROVE  /\ TableInv(Saved(T, S), sel)
         /\ Keeps(T, Saved(T, S))
         /\ Saved(T, S).resident = T.resident
         /\ Saved(T, S).memory = T.memory
         /\ \A s \in S : T.memory[s] \subseteq Saved(T, S).durable[s]
<1> DEFINE U == Saved(T, S)
<1>1. T \in TableType
  BY DEF TableInv
<1>2. /\ U \in TableType
      /\ U.resident = T.resident
      /\ U.pending = T.pending
      /\ U.tail = T.tail
      /\ U.memory = T.memory
      /\ U.attached = T.attached
      /\ \A s \in Sessions : U.durable[s] =
           IF s \in S /\ T.memory[s] # {} THEN T.memory[s] ELSE T.durable[s]
  BY <1>1 DEF Saved, TableType
<1> HIDE DEF U
<1>3. TableInv(U, sel)
  BY <1>1, <1>2 DEF TableInv, TableType
<1>4. Keeps(T, U)
  BY <1>1, <1>2 DEF TableInv, TableType, Keeps, KeepsMessages, TableConversation
<1>5. QED
  BY <1>1, <1>2, <1>3, <1>4 DEF U, TableType

\* Dropping idle entries that are not selected and whose messages are on disk
\* keeps every conversation.
LEMMA DroppedLemma ==
  ASSUME NEW T, NEW sel, TableInv(T, sel), NEW V \in SUBSET T.resident, sel \notin V,
         \A s \in V : T.pending[s] = 0,
         \A s \in V : T.memory[s] \subseteq T.durable[s]
  PROVE  /\ TableInv(Dropped(T, V), sel)
         /\ Keeps(T, Dropped(T, V))
         /\ Dropped(T, V).resident = T.resident \ V
         /\ Dropped(T, V).tail = T.tail
         /\ Dropped(T, V).durable = T.durable
<1> DEFINE U == Dropped(T, V)
<1>1. T \in TableType
  BY DEF TableInv
<1>2. /\ U \in TableType
      /\ U.resident = T.resident \ V
      /\ U.pending = T.pending
      /\ U.tail = T.tail
      /\ U.memory = [x \in Sessions |-> IF x \in V THEN {} ELSE T.memory[x]]
      /\ U.durable = T.durable
      /\ U.attached = [x \in Sessions |-> IF x \in V THEN {} ELSE T.attached[x]]
  BY <1>1 DEF Dropped, TableType
<1> HIDE DEF U
<1>3. TableInv(U, sel)
  BY <1>1, <1>2 DEF TableInv, TableType
<1>4. Keeps(T, U)
  BY <1>1, <1>2 DEF TableInv, TableType, Keeps, KeepsMessages, TableConversation
<1>5. QED
  BY <1>1, <1>2, <1>3, <1>4 DEF U

\* A pass of evictIfNeeded keeps what matters, whether it completes or throws.
LEMMA EvictedLemma ==
  ASSUME NEW T, NEW keep, NEW sel, TableInv(T, sel), NEW V, NEW ok,
         Evicts(T, keep, sel, V, ok)
  PROVE  /\ TableInv(Evicted(T, V), sel)
         /\ Keeps(T, Evicted(T, V))
         /\ Evicted(T, V).resident = T.resident \ V
         /\ Evicted(T, V).tail = T.tail
         /\ V \subseteq T.resident \ {keep, sel}
         /\ \A s \in Sessions \ V : Evicted(T, V).durable[s] = T.durable[s]
<1> DEFINE U == Saved(T, V)
<1>1. T \in TableType
  BY DEF TableInv
<1>2. /\ V \subseteq T.resident \ {keep, sel}
      /\ \A s \in V : T.pending[s] = 0
  BY DEF Evicts, Candidates
<1>3. /\ TableInv(U, sel)
      /\ Keeps(T, U)
      /\ U.resident = T.resident
      /\ U.memory = T.memory
      /\ \A s \in V : T.memory[s] \subseteq U.durable[s]
  BY <1>2, SavedLemma
<1>4. /\ U.pending = T.pending
      /\ U.tail = T.tail
      /\ \A s \in Sessions \ V : U.durable[s] = T.durable[s]
  BY <1>1 DEF Saved, TableType
<1> HIDE DEF U
<1>5. /\ TableInv(Dropped(U, V), sel)
      /\ Keeps(U, Dropped(U, V))
      /\ Dropped(U, V).resident = U.resident \ V
      /\ Dropped(U, V).tail = U.tail
      /\ Dropped(U, V).durable = U.durable
  BY <1>2, <1>3, <1>4, DroppedLemma
<1>6. Keeps(T, Dropped(U, V))
  BY <1>3, <1>5, KeepsTransitive
<1>7. QED
  BY <1>2, <1>3, <1>4, <1>5, <1>6 DEF Evicted, U
\* What a pass leaves in the table.
LEMMA EvictedFields ==
  ASSUME NEW T \in TableType, NEW V
  PROVE  /\ Evicted(T, V).resident = T.resident \ V
         /\ Evicted(T, V).tail = T.tail
BY DEF Evicted, Dropped, Saved, TableType

\* getOrCreate leaves a table with the Session in it; the end of its lane is where
\* it was, or at rest when the runtime is new.
LEMMA OpenedLemma ==
  ASSUME IInv, ~disposed, NEW s \in Sessions, NEW V, NEW ok, Opens(s, V, ok)
  PROVE  /\ TableInv(Opened(s, V), selected)
         /\ Keeps(Table, Opened(s, V))
         /\ s \in Opened(s, V).resident
         /\ s \in resident => Opened(s, V).tail[s] = tail[s]
         /\ s \notin resident => Opened(s, V).tail[s] = NoTurn
         /\ \A x \in Sessions : x \in V \/ Opened(s, V).durable[x] = durable[x]
         /\ V \subseteq resident \ {s, selected}
<1>0. /\ TableInv(Table, selected)
      /\ clock \in Nat
      /\ wiring \subseteq Subscribers \cup Handlers
      /\ Table.resident = resident
      /\ Table.tail = tail
      /\ Table.durable = durable
  BY DEF IInv, TypeOK, Table
<1>1. CASE s \in resident
  <2>1. Opened(s, V) = Touched(Table, s)
    BY <1>1 DEF Opened
  <2>2. V = {}
    BY <1>1 DEF Opens
  <2>3. QED
    BY <1>0, <1>1, <2>1, <2>2, TouchedLemma
<1>2. CASE s \notin resident
  <2> DEFINE C == Created(Table, s)
  <2>1. /\ TableInv(C, selected)
        /\ Keeps(Table, C)
        /\ C.resident = resident \cup {s}
        /\ C.tail[s] = NoTurn
    BY <1>0, <1>2, CreatedLemma
  <2>2. C.durable = durable
    BY <1>0 DEF Created, TableInv, TableType
  <2>3. Evicts(C, s, selected, V, ok)
    BY <1>2 DEF Opens
  <2>4. Opened(s, V) = Evicted(C, V)
    BY <1>2 DEF Opened
  <2> HIDE DEF C
  <2>5. /\ TableInv(Evicted(C, V), selected)
        /\ Keeps(C, Evicted(C, V))
        /\ Evicted(C, V).resident = C.resident \ V
        /\ Evicted(C, V).tail = C.tail
        /\ V \subseteq C.resident \ {s, selected}
        /\ \A x \in Sessions \ V : Evicted(C, V).durable[x] = C.durable[x]
    BY <2>1, <2>3, EvictedLemma
  <2>6. Keeps(Table, Evicted(C, V))
    BY <2>1, <2>5, KeepsTransitive
  <2>7. QED
    BY <1>2, <2>1, <2>2, <2>4, <2>5, <2>6
<1>3. QED
  BY <1>1, <1>2

\* A table in which two of the seven fields are replaced.
Replaced(T, p, q) == [T EXCEPT !.pending = p, !.tail = q]

LEMMA ReplacedLemma ==
  ASSUME NEW T \in TableType, NEW p \in [Sessions -> Nat],
         NEW q \in [Sessions -> Turns \cup {NoTurn}]
  PROVE  /\ Replaced(T, p, q) \in TableType
         /\ Replaced(T, p, q).resident = T.resident
         /\ Replaced(T, p, q).pending = p
         /\ Replaced(T, p, q).tail = q
         /\ Replaced(T, p, q).memory = T.memory
         /\ Replaced(T, p, q).durable = T.durable
         /\ Replaced(T, p, q).attached = T.attached
BY DEF Replaced, TableType

\* Counting a turn in.
LEMMA JoinedLemma ==
  ASSUME NEW T, NEW sel, TableInv(T, sel), NEW s \in T.resident, NEW t \in Turns
  PROVE  /\ TableInv(Joined(T, s, t), sel)
         /\ Joined(T, s, t).resident = T.resident
         /\ Joined(T, s, t).memory = T.memory
         /\ Joined(T, s, t).durable = T.durable
         /\ Joined(T, s, t).pending = [T.pending EXCEPT ![s] = T.pending[s] + 1]
         /\ Joined(T, s, t).tail = [T.tail EXCEPT ![s] = t]
<1> DEFINE p == [T.pending EXCEPT ![s] = T.pending[s] + 1]
           q == [T.tail EXCEPT ![s] = t]
           U == Replaced(T, p, q)
<1>1. T \in TableType /\ s \in Sessions
  BY DEF TableInv, TableType
<1>2. p \in [Sessions -> Nat] /\ q \in [Sessions -> Turns \cup {NoTurn}]
  BY <1>1 DEF TableType
<1>3. /\ \A x \in Sessions : p[x] # 0 => x = s \/ T.pending[x] # 0
  BY <1>1 DEF TableType
<1>4. Joined(T, s, t) = U
  BY DEF Joined, Replaced
<1> HIDE DEF p, q
<1>5. /\ U \in TableType
      /\ U.resident = T.resident
      /\ U.pending = p
      /\ U.tail = q
      /\ U.memory = T.memory
      /\ U.durable = T.durable
      /\ U.attached = T.attached
  BY <1>1, <1>2, ReplacedLemma
<1> HIDE DEF U
<1>6. TableInv(U, sel)
  BY <1>1, <1>3, <1>5 DEF TableInv, TableType
<1>7. QED
  BY <1>4, <1>5, <1>6 DEF p, q

\* Counting one out.
LEMMA LeftLemma ==
  ASSUME NEW T, NEW sel, TableInv(T, sel), NEW s \in Sessions, T.pending[s] # 0
  PROVE  /\ TableInv(Left(T, s), sel)
         /\ Left(T, s).resident = T.resident
         /\ Left(T, s).memory = T.memory
         /\ Left(T, s).durable = T.durable
         /\ Left(T, s).pending = [T.pending EXCEPT ![s] = T.pending[s] - 1]
         /\ Left(T, s).tail = T.tail
<1> DEFINE U == Left(T, s)
<1>1. T \in TableType
  BY DEF TableInv
<1>2. /\ U \in TableType
      /\ U.resident = T.resident
      /\ U.pending = [T.pending EXCEPT ![s] = T.pending[s] - 1]
      /\ U.tail = T.tail
      /\ U.memory = T.memory
      /\ U.durable = T.durable
      /\ U.attached = T.attached
  BY <1>1 DEF Left, TableType
<1> HIDE DEF U
<1>3. TableInv(U, sel)
  BY <1>1, <1>2 DEF TableInv, TableType
<1>4. QED
  BY <1>2, <1>3 DEF U

\* What is installed is the table of the next state.
LEMMA InstallLemma ==
  ASSUME NEW T \in TableType, Install(T)
  PROVE  Table' = T
BY DEF Install, Table, TableType

\* Installing a good table in a step that changes nothing it is judged by.
LEMMA InstallKeepsTable ==
  ASSUME NEW T, TableInv(T, selected'), Install(T), UNCHANGED <<disposed, session, wiring, cleared>>
  PROVE  TableInv(Table, selected)'
<1>1. T \in TableType
  BY DEF TableInv
<1>2. Table' = T
  BY <1>1, InstallLemma
<1>3. QED
  BY <1>2 DEF TableInv, TableType
-----------------------------------------------------------------------------
\* A lane is finite, and empty when it counts none.
LEMMA ActiveFinite ==
  ASSUME NEW s
  PROVE  /\ IsFiniteSet(Active(s))
         /\ Cardinality(Active(s)) \in Nat
         /\ Cardinality(Active(s)) = 0 <=> Active(s) = {}
<1>1. IsFiniteSet(Active(s))
  BY FiniteAssumption, FS_Subset DEF Active
<1>2. QED
  BY <1>1, FS_CardinalityType, FS_EmptySet

\* The runtime of an unfinished turn is in the table.
LEMMA BusyInTable ==
  ASSUME IInv, ~disposed, NEW t \in Turns, status[t] \in Unfinished
  PROVE  session[t] \in resident /\ pending[session[t]] # 0
<1>1. session[t] \in Sessions /\ t \in Active(session[t])
  BY DEF IInv, LaneInv, LaneMembers, Active
<1>2. pending[session[t]] # 0
  BY <1>1, ActiveFinite DEF IInv, CountInv
<1>3. QED
  BY <1>1, <1>2 DEF IInv, TableInv, Table

\* The rest of the types follow from that of the table.
LEMMA TypeFromTable ==
  ASSUME TableInv(Table, selected)', disposed' \in BOOLEAN,
         selected' \in Sessions \cup {NoSession}, wiring' \subseteq Subscribers \cup Handlers,
         cleared' \subseteq Turns, status' \in [Turns -> Status],
         session' \in [Turns -> Sessions \cup {NoSession}],
         waitsFor' \in [Turns -> Turns \cup {NoTurn}], ahead' \in [Turns -> SUBSET Turns],
         room' \in {"ok", "threw"}, clock' \in Nat, crashes' \in Nat
  PROVE  TypeOK'
BY DEF TableInv, TypeOK, Table, TableType

\* A step in which no turn enters or leaves a lane, only the first of a lane
\* starts, and lanes in use end where they ended.
LEMMA LanesAtRest ==
  ASSUME IInv, session' = session, waitsFor' = waitsFor, ahead' = ahead, pending' = pending,
         disposed => disposed',
         status' \in [Turns -> Status],
         \A t \in Turns : \/ status'[t] = status[t]
                          \/ status[t] = "queued" /\ ahead[t] = {} /\ status'[t] = "running"
                          \/ status[t] = "running" /\ status'[t] = "settled"
                          \/ status[t] = "new" /\ status'[t] = "rejected",
         ~disposed' => \A s \in Sessions : pending[s] # 0 => tail'[s] = tail[s]
  PROVE  LaneInv' /\ CountInv'
<1>1. \A s : Active(s)' = Active(s)
  BY DEF Active, Unfinished
<1>2. \A t \in Turns : /\ Executing(t)' => Executing(t) \/ ahead[t] = {}
                       /\ status'[t] \in Unfinished <=> status[t] \in Unfinished
                       /\ status'[t] = "new" => status[t] = "new"
  BY DEF Executing, Unfinished
<1>3. LaneMembers'
  BY <1>1, <1>2 DEF IInv, LaneInv, LaneMembers
<1>4. LaneChain'
  BY <1>2 DEF IInv, LaneInv, LaneChain
<1>5. LaneOrder'
  BY <1>2 DEF IInv, LaneInv, LaneOrder
<1>6. LaneTail'
  <2> SUFFICES ASSUME ~disposed', NEW s \in Sessions, Active(s)' # {}
               PROVE  /\ tail'[s] \in Active(s)'
                      /\ Active(s)' = {tail'[s]} \cup ahead'[tail'[s]]
    BY DEF LaneTail
  <2>1. Active(s) # {} /\ ~disposed
    BY <1>1
  <2>2. pending[s] # 0
    BY <2>1, ActiveFinite DEF IInv, CountInv
  <2>3. QED
    BY <1>1, <2>1, <2>2 DEF IInv, LaneInv, LaneTail
<1>7. CountInv'
  BY <1>1 DEF IInv, CountInv
<1>8. QED
  BY <1>3, <1>4, <1>5, <1>6, <1>7 DEF LaneInv
-----------------------------------------------------------------------------
\* What a step has to establish.
Preserved == TypeOK' /\ LaneInv' /\ CountInv' /\ TableInv(Table, selected)'

\* And, when it is not the user who clears or rewinds a conversation, nor the end
\* of the process.
KeepsAll ==
  /\ \A s \in Sessions : Conversation(s) \subseteq Conversation(s)'
  /\ \A s \in Sessions : durable[s] \subseteq durable'[s] \cup cleared'

\* What an installed table keeps, the state keeps.
LEMMA InstallKeepsAll ==
  ASSUME NEW T, KeepsMessages(Table, T), Install(T), cleared' = cleared
  PROVE  KeepsAll
BY DEF Install, KeepsMessages, KeepsAll, TableConversation, Conversation, Table

LEMMA InitEstablishes == Init => IInv
<1> SUFFICES ASSUME Init PROVE IInv
  OBVIOUS
<1>1. TypeOK
  BY BoundAssumption DEF Init, TypeOK, Status
<1>2. \A s \in Sessions : Active(s) = {}
  BY DEF Init, Active, Unfinished
<1>3. LaneInv
  BY <1>2 DEF Init, LaneInv, LaneMembers, LaneChain, LaneOrder, LaneTail, Executing, Unfinished
<1>4. CountInv
  BY <1>2, FS_EmptySet DEF Init, CountInv
<1>5. TableInv(Table, selected)
  <2>1. Table \in TableType
    BY <1>1, TableHasType
  <2>2. QED
    BY <2>1 DEF Init, TableInv, Table
<1>6. QED
  BY <1>1, <1>3, <1>4, <1>5 DEF IInv

\* Steps that install a table kept by Keeps and leave the turns alone.
LEMMA TableStep ==
  ASSUME IInv, NEW T, TableInv(T, selected'), Keeps(Table, T), Install(T),
         UNCHANGED <<disposed, callVars, wiring, cleared, boundVars>>,
         room' \in {"ok", "threw"}, selected' \in Sessions \cup {NoSession}
  PROVE  Preserved /\ KeepsAll
<1>1. TableInv(Table, selected)'
  BY InstallKeepsTable DEF callVars
<1>2. TypeOK'
  BY <1>1, TypeFromTable DEF IInv, TypeOK, callVars, boundVars
<1>3. pending' = pending /\ \A s \in Sessions : pending[s] # 0 => tail'[s] = tail[s]
  BY DEF Install, Keeps, KeepsMessages, Table
<1>4. /\ session' = session /\ waitsFor' = waitsFor /\ ahead' = ahead /\ pending' = pending
      /\ status' \in [Turns -> Status]
      /\ \A t \in Turns : status'[t] = status[t]
      /\ disposed => disposed'
  BY <1>3 DEF IInv, TypeOK, callVars
<1>5. LaneInv' /\ CountInv'
  <2>1. \A t \in Turns : \/ status'[t] = status[t]
                         \/ status[t] = "running" /\ status'[t] = "settled"
    BY <1>4
  <2>2. ~disposed' => \A s \in Sessions : pending[s] # 0 => tail'[s] = tail[s]
    BY <1>3
  <2>3. QED
    BY <1>4, <2>1, <2>2, LanesAtRest
<1>6. KeepsAll
  BY InstallKeepsAll DEF Keeps
<1>7. QED
  BY <1>1, <1>2, <1>5, <1>6 DEF Preserved

LEMMA GetOrCreatePreserves ==
  ASSUME IInv, NEW s \in Sessions, GetOrCreate(s)
  PROVE  Preserved /\ KeepsAll
<1>1. PICK V \in SUBSET resident, ok \in BOOLEAN :
        Opens(s, V, ok) /\ Install(Opened(s, V)) /\ PassedOpening(s, ok)
  BY DEF GetOrCreate
<1>2. TableInv(Opened(s, V), selected) /\ Keeps(Table, Opened(s, V))
  BY <1>1, OpenedLemma DEF GetOrCreate
<1>3. room' \in {"ok", "threw"}
  BY <1>1 DEF PassedOpening, Passed, IInv, TypeOK
<1>4. selected' = selected /\ selected \in Sessions \cup {NoSession}
  BY DEF GetOrCreate, IInv, TypeOK
<1>5. QED
  BY <1>1, <1>2, <1>3, <1>4, TableStep DEF GetOrCreate

\* Selecting another resident Session keeps the table's invariant.
LEMMA SelectedLemma ==
  ASSUME NEW T, NEW sel, TableInv(T, sel), NEW s \in T.resident
  PROVE  TableInv(T, s)
BY DEF TableInv

LEMMA SetSelectedPreserves ==
  ASSUME IInv, NEW s \in Sessions, SetSelected(s)
  PROVE  Preserved /\ KeepsAll
<1>1. CASE SelectThrows(s)
  <2>1. PICK V \in SUBSET resident, ok \in BOOLEAN :
          /\ Opens(s, V, ok)
          /\ Install(Opened(s, V))
          /\ PassedOpening(s, ok)
          /\ UNCHANGED selected
    BY <1>1 DEF SelectThrows
  <2>2. TableInv(Opened(s, V), selected) /\ Keeps(Table, Opened(s, V))
    BY <2>1, OpenedLemma DEF SetSelected
  <2>3. room' \in {"ok", "threw"} /\ selected \in Sessions \cup {NoSession}
    BY <2>1 DEF PassedOpening, Passed, IInv, TypeOK
  <2>4. QED
    BY <2>1, <2>2, <2>3, TableStep DEF SetSelected
<1>2. CASE SelectSwitches(s)
  <2>1. PICK V \in SUBSET Sessions, W \in SUBSET Sessions, ok \in BOOLEAN :
          LET T == Opened(s, V)
              U == Touched(Saved(T, Departing(T, s)), s)
          IN /\ Opens(s, V, TRUE)
             /\ Evicts(U, s, s, W, ok)
             /\ Install(Evicted(U, W))
             /\ Passed(ok)
             /\ selected' = s
    BY <1>2 DEF SelectSwitches
  <2> DEFINE T == Opened(s, V)
             D == Saved(T, Departing(T, s))
             U == Touched(D, s)
  <2>2. /\ TableInv(T, selected)
        /\ Keeps(Table, T)
        /\ s \in T.resident
    BY <2>1, OpenedLemma DEF SetSelected
  <2>3. Departing(T, s) \subseteq T.resident
    BY DEF Departing
  <2> HIDE DEF T
  <2>4. /\ TableInv(D, selected)
        /\ Keeps(T, D)
        /\ D.resident = T.resident
    BY <2>2, <2>3, SavedLemma
  <2> HIDE DEF D
  <2>5. TableInv(D, s)
    BY <2>2, <2>4, SelectedLemma
  <2>6. TableInv(U, s) /\ Keeps(D, U)
    BY <2>5, TouchedLemma DEF IInv, TypeOK
  <2>7. Evicts(U, s, s, W, ok) /\ Install(Evicted(U, W)) /\ Passed(ok) /\ selected' = s
    BY <2>1 DEF T, D
  <2> HIDE DEF U
  <2>8. TableInv(Evicted(U, W), s) /\ Keeps(U, Evicted(U, W))
    BY <2>6, <2>7, EvictedLemma
  <2>9. Keeps(Table, Evicted(U, W))
    <3>1. Keeps(Table, D)
      BY <2>2, <2>4, KeepsTransitive
    <3>2. Keeps(Table, U)
      BY <3>1, <2>6, KeepsTransitive
    <3>3. QED
      BY <3>2, <2>8, KeepsTransitive
  <2>10. room' \in {"ok", "threw"}
    BY <2>7 DEF Passed
  <2>11. TableInv(Evicted(U, W), selected') /\ selected' \in Sessions \cup {NoSession}
    BY <2>7, <2>8
  <2>12. QED
    BY <2>7, <2>9, <2>10, <2>11, TableStep DEF SetSelected
<1>3. QED
  BY <1>1, <1>2 DEF SetSelected
\* Writing one checkpoint.
LEMMA WrittenLemma ==
  ASSUME NEW T, NEW sel, TableInv(T, sel), NEW s \in T.resident
  PROVE  /\ TableInv([T EXCEPT !.durable[s] = T.memory[s]], sel)
         /\ Keeps(T, [T EXCEPT !.durable[s] = T.memory[s]])
<1> DEFINE U == [T EXCEPT !.durable[s] = T.memory[s]]
<1>1. T \in TableType /\ s \in Sessions
  BY DEF TableInv, TableType
<1>2. /\ U \in TableType
      /\ U.resident = T.resident
      /\ U.pending = T.pending
      /\ U.tail = T.tail
      /\ U.memory = T.memory
      /\ U.durable = [T.durable EXCEPT ![s] = T.memory[s]]
      /\ U.attached = T.attached
  BY <1>1 DEF TableType
<1> HIDE DEF U
<1>3. TableInv(U, sel)
  BY <1>1, <1>2 DEF TableInv, TableType
<1>4. Keeps(T, U)
  BY <1>1, <1>2 DEF TableInv, TableType, Keeps, KeepsMessages, TableConversation
<1>5. QED
  BY <1>3, <1>4 DEF U

LEMMA SaveCheckpointPreserves ==
  ASSUME IInv, NEW s \in Sessions, SaveCheckpoint(s)
  PROVE  Preserved /\ KeepsAll
<1>1. PICK V \in SUBSET resident, ok \in BOOLEAN, written \in BOOLEAN :
        LET T == Opened(s, V)
        IN /\ Opens(s, V, ok)
           /\ written => ok
           /\ Install(IF written THEN [T EXCEPT !.durable[s] = T.memory[s]] ELSE T)
           /\ PassedOpening(s, ok)
  BY DEF SaveCheckpoint
<1> DEFINE T == Opened(s, V)
           W == [T EXCEPT !.durable[s] = T.memory[s]]
<1>2. /\ TableInv(T, selected)
      /\ Keeps(Table, T)
      /\ s \in T.resident
  BY <1>1, OpenedLemma DEF SaveCheckpoint
<1>3. Install(IF written THEN W ELSE T) /\ PassedOpening(s, ok)
  BY <1>1
<1> HIDE DEF T
<1>4. TableInv(W, selected) /\ Keeps(T, W)
  BY <1>2, WrittenLemma
<1> HIDE DEF W
<1>5. Keeps(Table, W)
  BY <1>2, <1>4, KeepsTransitive
<1>6. /\ TableInv(IF written THEN W ELSE T, selected)
      /\ Keeps(Table, IF written THEN W ELSE T)
  BY <1>2, <1>4, <1>5
<1>7. room' \in {"ok", "threw"} /\ selected' = selected /\ selected \in Sessions \cup {NoSession}
  BY <1>3 DEF PassedOpening, Passed, SaveCheckpoint, IInv, TypeOK
<1>8. QED
  BY <1>3, <1>6, <1>7, TableStep DEF SaveCheckpoint

LEMMA ReadLemma ==
  ASSUME NEW T, NEW sel, TableInv(T, sel), NEW s \in T.resident
  PROVE  LET U == [T EXCEPT !.memory[s] = T.durable[s]]
         IN /\ U \in TableType
            /\ U.resident = T.resident
            /\ U.pending = T.pending
            /\ U.tail = T.tail
            /\ U.memory = [T.memory EXCEPT ![s] = T.durable[s]]
            /\ U.durable = T.durable
            /\ U.attached = T.attached
<1>1. T \in TableType /\ s \in Sessions
  BY DEF TableInv, TableType
<1>2. QED
  BY <1>1 DEF TableType

\* Restoring puts the selected conversation back to its checkpoint; no other
\* conversation holds one of its turns.
LEMMA RestoreCheckpointPreserves ==
  ASSUME IInv, RestoreCheckpoint
  PROVE  /\ Preserved
         /\ \A s \in Sessions : durable[s] \subseteq durable'[s] \cup cleared'
<1> selected \in resident /\ selected \in Sessions /\ ~disposed /\ clock \in Nat
  BY DEF RestoreCheckpoint, IInv, TypeOK
<1>1. PICK V \in SUBSET resident, ok \in BOOLEAN, restored \in BOOLEAN :
        LET T == Evicted(Touched(Table, selected), V)
        IN /\ Evicts(Touched(Table, selected), selected, selected, V, ok)
           /\ Install(IF restored
                      THEN [T EXCEPT !.memory[selected] = durable[selected]] ELSE T)
           /\ cleared' = IF restored THEN cleared \ durable[selected] ELSE cleared
           /\ Passed(ok)
  BY DEF RestoreCheckpoint
<1> DEFINE C == Touched(Table, selected)
           T == Evicted(C, V)
<1>2. /\ TableInv(C, selected)
      /\ Keeps(Table, C)
      /\ C.resident = resident
      /\ C.durable = durable
  BY TouchedLemma DEF IInv, Table
<1>3. Evicts(C, selected, selected, V, ok)
  BY <1>1
<1>4. Install(IF restored THEN [T EXCEPT !.memory[selected] = durable[selected]] ELSE T)
  BY <1>1
<1> HIDE DEF C
<1>5. /\ TableInv(T, selected)
      /\ Keeps(C, T)
      /\ selected \in T.resident
      /\ T.durable[selected] = durable[selected]
  <2>1. TableInv(T, selected) /\ Keeps(C, T)
    BY <1>2, <1>3, EvictedLemma
  <2>2. V \subseteq C.resident \ {selected}
    BY <1>3 DEF Evicts, Candidates
  <2>3. \A s \in Sessions \ V : T.durable[s] = C.durable[s]
    BY <1>2, <1>3, EvictedLemma
  <2>4. T.resident = C.resident \ V
    BY <1>2, EvictedFields DEF TableInv
  <2>5. QED
    BY <1>2, <2>1, <2>4, <2>2, <2>3
<1> HIDE DEF T
<1>6. Keeps(Table, T)
  BY <1>2, <1>5, KeepsTransitive
<1>7. /\ session' = session /\ waitsFor' = waitsFor /\ ahead' = ahead /\ status' = status
      /\ disposed' = disposed /\ selected' = selected /\ wiring' = wiring
      /\ clock' = clock /\ crashes' = crashes
  BY DEF RestoreCheckpoint, callVars, boundVars
<1> DEFINE U == [T EXCEPT !.memory[selected] = T.durable[selected]]
<1>8. /\ U \in TableType
      /\ U.resident = T.resident
      /\ U.pending = T.pending
      /\ U.tail = T.tail
      /\ U.memory = [T.memory EXCEPT ![selected] = T.durable[selected]]
      /\ U.durable = T.durable
      /\ U.attached = T.attached
  BY <1>5, ReadLemma
<1>9. Install(IF restored THEN U ELSE T)
  BY <1>4, <1>5
<1> HIDE DEF U
<1>10. Table' = IF restored THEN U ELSE T
  BY <1>5, <1>8, <1>9, InstallLemma DEF TableInv
<1>11. cleared' = IF restored THEN cleared \ T.durable[selected] ELSE cleared
  BY <1>1, <1>5
<1>12. TableInv(Table, selected)'
  <2>1. CASE restored
    <3>1. Table' = U /\ cleared' = cleared \ T.durable[selected]
      BY <2>1, <1>10, <1>11
    <3>2. \A s \in Sessions : s # selected => T.durable[s] \cap T.durable[selected] = {}
      BY <1>5 DEF TableInv, TableType
    <3>3. T \in TableType
      BY <1>5 DEF TableInv
    <3>4. \A s \in T.resident : T.durable[s] \subseteq U.memory[s] \cup (cleared \ T.durable[selected])
      BY <1>5, <1>8, <3>2, <3>3 DEF TableInv, TableType
    <3>5. \A s \in Sessions : \A t \in U.memory[s] \cup U.durable[s] : session[t] = s
      BY <1>5, <1>8, <3>3 DEF TableInv, TableType
    <3>6. QED
      BY <1>5, <1>7, <1>8, <3>1, <3>4, <3>5 DEF TableInv
  <2>2. CASE ~restored
    BY <2>2, <1>5, <1>7, <1>10, <1>11 DEF TableInv
  <2>3. QED
    BY <2>1, <2>2
<1>13. TypeOK'
  <2>1. room' \in {"ok", "threw"} /\ cleared' \subseteq Turns
    BY <1>1 DEF Passed, IInv, TypeOK
  <2>2. QED
    BY <1>7, <1>12, <2>1, TypeFromTable DEF IInv, TypeOK
<1>14. /\ pending' = pending
       /\ \A s \in Sessions : pending[s] # 0 => tail'[s] = tail[s]
       /\ durable' = T.durable
  BY <1>6, <1>8, <1>10 DEF Keeps, KeepsMessages, Table
<1>15. LaneInv' /\ CountInv'
  BY <1>7, <1>14, LanesAtRest DEF IInv, TypeOK
<1>16. \A s \in Sessions : durable[s] \subseteq durable'[s] \cup cleared'
  <2>1. \A s \in Sessions : durable[s] \subseteq T.durable[s] \cup cleared
    BY <1>6 DEF Keeps, KeepsMessages, Table
  <2>2. \A s \in Sessions : s # selected => durable[s] \cap durable[selected] = {}
    BY DEF IInv, TableInv, TableType, Table
  <2>3. QED
    BY <1>5, <1>11, <1>14, <2>1, <2>2
<1>17. QED
  BY <1>12, <1>13, <1>15, <1>16 DEF Preserved
LEMMA ClearConversationPreserves ==
  ASSUME IInv, ClearConversation
  PROVE  Preserved
<1> USE DEF IInv, TypeOK, ClearConversation, callVars, boundVars
<1>1. /\ TableInv(Table, selected)
      /\ selected \in resident
  OBVIOUS
<1>2. TableInv(Table, selected)'
  BY <1>1 DEF TableInv, TableType, Table
<1>3. TypeOK'
  BY <1>2, TypeFromTable
<1>4. LaneInv' /\ CountInv'
  BY LanesAtRest
<1>5. QED
  BY <1>2, <1>3, <1>4 DEF Preserved

\* A wiring step installs nothing but the wiring.
LEMMA WiringPreserves ==
  ASSUME IInv,
         \/ \E h \in Subscribers : Subscribe(h) \/ Unsubscribe(h)
         \/ \E h \in Handlers : SetToolPermissionHandler(h)
  PROVE  Preserved
<1> USE DEF IInv, TypeOK, callVars, boundVars
<1>1. /\ UNCHANGED <<disposed, resident, lastUsedAt, pending, tail, memory, durable>>
      /\ UNCHANGED <<status, session, waitsFor, ahead, selected, cleared, room, clock, crashes>>
  BY DEF Subscribe, Unsubscribe, SetToolPermissionHandler
<1>2. \A s \in Sessions : attached[s] = IF s \in resident THEN wiring ELSE {}
  BY DEF TableInv, Table
<1>3. /\ wiring' \subseteq Subscribers \cup Handlers
      /\ attached' = [s \in Sessions |-> IF s \in resident THEN wiring' ELSE {}]
  <2>1. ASSUME NEW h \in Subscribers, Subscribe(h)
        PROVE  /\ wiring' \subseteq Subscribers \cup Handlers
               /\ attached' = [s \in Sessions |-> IF s \in resident THEN wiring' ELSE {}]
    BY <2>1, <1>2 DEF Subscribe
  <2>2. ASSUME NEW h \in Subscribers, Unsubscribe(h)
        PROVE  /\ wiring' \subseteq Subscribers \cup Handlers
               /\ attached' = [s \in Sessions |-> IF s \in resident THEN wiring' ELSE {}]
    BY <2>2, <1>2 DEF Unsubscribe
  <2>3. ASSUME NEW h \in Handlers, SetToolPermissionHandler(h)
        PROVE  /\ wiring' \subseteq Subscribers \cup Handlers
               /\ attached' = [s \in Sessions |-> IF s \in resident THEN wiring' ELSE {}]
    BY <2>3, <1>2 DEF SetToolPermissionHandler
  <2>4. QED
    BY <2>1, <2>2, <2>3
<1>4. TableInv(Table, selected)'
  BY <1>1, <1>3 DEF TableInv, TableType, Table
<1>5. TypeOK'
  BY <1>1, <1>3, <1>4, TypeFromTable
<1>6. LaneInv' /\ CountInv'
  BY <1>1, LanesAtRest
<1>7. QED
  BY <1>4, <1>5, <1>6 DEF Preserved

\* After disposal, or a restart, the table is empty.
LEMMA EmptiedLemma ==
  ASSUME NEW T \in TableType, NEW D, D = Dropped(T, T.resident)
  PROVE  /\ D \in TableType
         /\ D.resident = {}
         /\ D.pending = T.pending
         /\ D.tail = T.tail
         /\ D.durable = T.durable
         /\ \A s \in Sessions : D.memory[s] \subseteq T.memory[s]
         /\ (\A s \in Sessions : T.attached[s] = {} \/ s \in T.resident)
              => \A s \in Sessions : D.attached[s] = {}
BY DEF Dropped, TableType

LEMMA DisposeAllPreserves ==
  ASSUME IInv, DisposeAll
  PROVE  Preserved
<1> DEFINE D == Dropped(Table, resident)
<1>1. /\ Table \in TableType
      /\ Table.resident = resident
      /\ Table.pending = pending
      /\ \A s \in Sessions : Table.attached[s] = {} \/ s \in Table.resident
  BY DEF IInv, TableInv, Table
<1>2. /\ D \in TableType
      /\ D.resident = {}
      /\ D.pending = pending
      /\ D.durable = durable
      /\ \A s \in Sessions : D.memory[s] \subseteq memory[s] /\ D.attached[s] = {}
  <2>1. D = Dropped(Table, Table.resident)
    BY <1>1
  <2>2. Table.durable = durable /\ Table.memory = memory
    BY DEF Table
  <2> HIDE DEF D
  <2>3. QED
    BY <1>1, <2>1, <2>2, EmptiedLemma
<1>3. Install(D) /\ disposed' /\ selected' = NoSession /\ wiring' = wiring \cap Handlers
  BY DEF DisposeAll
<1> HIDE DEF D
<1>4. Table' = D
  BY <1>2, <1>3, InstallLemma
<1>5. /\ session' = session /\ waitsFor' = waitsFor /\ ahead' = ahead /\ status' = status
      /\ cleared' = cleared /\ room' = room /\ clock' = clock /\ crashes' = crashes
      /\ pending' = pending
  BY <1>2, <1>3 DEF DisposeAll, callVars, boundVars, Install
<1>6. TableInv(Table, selected)'
  <2>1. \A s \in Sessions : \A t \in memory[s] \cup durable[s] : session[t] = s
    BY DEF IInv, TableInv, Table
  <2>2. QED
    BY <1>2, <1>3, <1>4, <1>5, <2>1 DEF TableInv
<1>7. TypeOK'
  BY <1>3, <1>5, <1>6, TypeFromTable DEF IInv, TypeOK, DisposeAll
<1>8. LaneInv' /\ CountInv'
  BY <1>3, <1>5, LanesAtRest DEF IInv, TypeOK
<1>9. QED
  BY <1>6, <1>7, <1>8 DEF Preserved

LEMMA RestartPreserves ==
  ASSUME IInv, Restart
  PROVE  Preserved
<1>1. /\ disposed' = FALSE /\ resident' = {} /\ selected' = NoSession /\ wiring' = {}
      /\ durable' = durable /\ cleared' = cleared /\ session' = session
      /\ waitsFor' = waitsFor /\ clock' = clock /\ crashes' = crashes + 1 /\ room' = "ok"
      /\ status' = [t \in Turns |-> IF status[t] \in Unfinished THEN "lost" ELSE status[t]]
      /\ ahead' = [t \in Turns |-> {}]
      /\ pending' = [s \in Sessions |-> 0] /\ tail' = [s \in Sessions |-> NoTurn]
      /\ lastUsedAt' = [x \in Sessions |-> IF x \in resident THEN 0 ELSE lastUsedAt[x]]
      /\ memory' = [x \in Sessions |-> IF x \in resident THEN {} ELSE memory[x]]
      /\ attached' = [x \in Sessions |-> IF x \in resident THEN {} ELSE attached[x]]
  BY DEF Restart, Install, Dropped, Table
<1>2. Table' \in TableType
  BY <1>1 DEF IInv, TypeOK, Table, TableType
<1>3. TableInv(Table, selected)'
  BY <1>1, <1>2 DEF IInv, TableInv, Table
<1>4. TypeOK'
  <2>1. status' \in [Turns -> Status]
    BY <1>1 DEF IInv, TypeOK, Status, Unfinished
  <2>2. /\ cleared \subseteq Turns
        /\ session \in [Turns -> Sessions \cup {NoSession}]
        /\ waitsFor \in [Turns -> Turns \cup {NoTurn}]
        /\ clock \in Nat /\ crashes \in Nat
    BY DEF IInv, TypeOK
  <2>3. disposed' \in BOOLEAN
    BY <1>1
  <2>4. ahead' \in [Turns -> SUBSET Turns]
    BY <1>1
  <2>5. QED
    BY <1>1, <1>3, <2>1, <2>2, <2>3, <2>4, TypeFromTable
<1>5. \A t \in Turns : status'[t] \notin Unfinished /\ (status'[t] = "new" <=> status[t] = "new")
  BY <1>1 DEF Unfinished
<1>6. \A s \in Sessions : Active(s)' = {}
  BY <1>1, <1>5 DEF Active
<1>7. LaneInv'
  BY <1>1, <1>5, <1>6 DEF IInv, LaneInv, LaneMembers, LaneChain, LaneOrder, LaneTail
<1>8. CountInv'
  BY <1>1, <1>6, FS_EmptySet DEF CountInv
<1>9. QED
  BY <1>3, <1>4, <1>7, <1>8 DEF Preserved

LEMMA TickPreserves ==
  ASSUME IInv, Tick
  PROVE  Preserved
<1> USE DEF IInv, TypeOK, Tick, callVars, tableVars
<1>1. TableInv(Table, selected)'
  BY DEF TableInv, Table
<1>2. TypeOK'
  BY <1>1, TypeFromTable
<1>3. LaneInv' /\ CountInv'
  BY LanesAtRest
<1>4. QED
  BY <1>1, <1>2, <1>3 DEF Preserved

LEMMA SettlePreserves ==
  ASSUME IInv, NEW t \in Turns, Settle(t)
  PROVE  Preserved
<1> DEFINE s == session[t]
<1>1. /\ status[t] = "running" /\ status' = [status EXCEPT ![t] = "settled"]
      /\ UNCHANGED <<disposed, resident, lastUsedAt, pending, tail, attached, selected>>
      /\ UNCHANGED <<wiring, cleared, room, clock, crashes, session, waitsFor, ahead>>
  BY DEF Settle, boundVars
<1>2. s \in Sessions
  BY <1>1 DEF IInv, LaneInv, LaneMembers, Unfinished
<1>3. \/ memory' = memory /\ durable' = durable
      \/ /\ memory' = [memory EXCEPT ![s] = memory[s] \cup {t}]
         /\ durable' = durable \/ durable' = [durable EXCEPT ![s] = memory[s] \cup {t}]
  BY DEF Settle
<1>4. /\ memory \in [Sessions -> SUBSET Turns] /\ durable \in [Sessions -> SUBSET Turns]
      /\ \A x \in Sessions : \A u \in memory[x] \cup durable[x] : session[u] = x
      /\ \A x \in resident : durable[x] \subseteq memory[x] \cup cleared
      /\ resident \subseteq Sessions
  BY DEF IInv, TypeOK, TableInv, Table
<1>5. /\ memory' \in [Sessions -> SUBSET Turns] /\ durable' \in [Sessions -> SUBSET Turns]
      /\ \A x \in Sessions : \A u \in memory'[x] \cup durable'[x] : session[u] = x
      /\ \A x \in resident : durable'[x] \subseteq memory'[x] \cup cleared
  BY <1>2, <1>3, <1>4
<1>6. TableInv(Table, selected)'
  BY <1>1, <1>5 DEF IInv, TableInv, Table, TableType
<1>7. status' \in [Turns -> Status]
  BY <1>1 DEF IInv, TypeOK, Status
<1>8. TypeOK'
  BY <1>1, <1>6, <1>7, TypeFromTable DEF IInv, TypeOK
<1>9. LaneInv' /\ CountInv'
  <2>1. \A u \in Turns : \/ status'[u] = status[u]
                         \/ status[u] = "running" /\ status'[u] = "settled"
    BY <1>1 DEF IInv, TypeOK
  <2>2. QED
    BY <1>1, <1>7, <2>1, LanesAtRest
<1>10. QED
  BY <1>6, <1>8, <1>9 DEF Preserved
\* The promise a turn awaits is resolved only when no turn is ahead of it.
LEMMA StartIsFirst ==
  ASSUME IInv, NEW t \in Turns, Start(t)
  PROVE  ahead[t] = {}
<1>1. status[t] \in Unfinished /\ waitsFor[t] \notin {u \in Turns : status[u] \in Unfinished}
  BY DEF Start, Released, Unfinished
<1>2. ahead[t] # {} => waitsFor[t] \in Active(session[t])
  BY <1>1 DEF IInv, LaneInv, LaneMembers, LaneChain
<1>3. QED
  BY <1>1, <1>2 DEF Active

LEMMA StartPreserves ==
  ASSUME IInv, NEW t \in Turns, Start(t)
  PROVE  Preserved
<1> DEFINE T == Touched(Table, session[t])
<1>1. /\ status[t] = "queued" /\ status' = [status EXCEPT ![t] = "running"]
      /\ Install(T)
      /\ UNCHANGED <<disposed, selected, wiring, cleared, room, clock, crashes>>
      /\ session' = session /\ waitsFor' = waitsFor /\ ahead' = ahead
  BY DEF Start, boundVars
<1>2. session[t] \in Sessions
  BY <1>1 DEF IInv, LaneInv, LaneMembers, Unfinished
<1>3. /\ TableInv(T, selected)
      /\ Keeps(Table, T)
      /\ T.tail = tail
  BY <1>2, TouchedLemma DEF IInv, TypeOK, Table
<1> HIDE DEF T
<1>4. TableInv(Table, selected)'
  BY <1>1, <1>3, InstallKeepsTable
<1>5. status' \in [Turns -> Status]
  BY <1>1 DEF IInv, TypeOK, Status
<1>6. TypeOK'
  BY <1>1, <1>4, <1>5, TypeFromTable DEF IInv, TypeOK
<1>7. pending' = pending /\ tail' = tail
  BY <1>1, <1>3 DEF Install, Keeps, KeepsMessages, Table
<1>8. LaneInv' /\ CountInv'
  <2>1. \A u \in Turns : \/ status'[u] = status[u]
                         \/ status[u] = "queued" /\ ahead[u] = {} /\ status'[u] = "running"
    BY <1>1, StartIsFirst DEF IInv, TypeOK
  <2>2. QED
    BY <1>1, <1>5, <1>7, <2>1, LanesAtRest
<1>9. QED
  BY <1>4, <1>6, <1>8 DEF Preserved

LEMMA RejectPreserves ==
  ASSUME IInv, NEW t \in Turns, NEW s \in Sessions, Reject(t, s)
  PROVE  Preserved
<1>1. /\ status[t] = "new" /\ status' = [status EXCEPT ![t] = "rejected"]
      /\ UNCHANGED <<disposed, selected, wiring, cleared, clock, crashes>>
      /\ session' = session /\ waitsFor' = waitsFor /\ ahead' = ahead
  BY DEF Reject, boundVars
<1>2. /\ TableInv(Table, selected)'
      /\ room' \in {"ok", "threw"}
      /\ pending' = pending
      /\ \A x \in Sessions : pending[x] # 0 => tail'[x] = tail[x]
  <2>1. CASE UNCHANGED <<tableVars, room>>
    BY <2>1, <1>1 DEF tableVars, IInv, TypeOK, TableInv, Table
  <2>2. CASE /\ ~disposed
             /\ \E V \in SUBSET resident : Opens(s, V, FALSE) /\ Install(Opened(s, V))
             /\ PassedOpening(s, FALSE)
    <3>1. PICK V \in SUBSET resident : Opens(s, V, FALSE) /\ Install(Opened(s, V))
      BY <2>2
    <3>2. TableInv(Opened(s, V), selected) /\ Keeps(Table, Opened(s, V))
      BY <2>2, <3>1, OpenedLemma
    <3>3. TableInv(Table, selected)'
      BY <1>1, <3>1, <3>2, InstallKeepsTable
    <3>4. QED
      BY <2>2, <3>1, <3>2, <3>3
      DEF Install, Keeps, KeepsMessages, Table, PassedOpening, Passed, IInv, TypeOK
  <2>3. QED
    BY <2>1, <2>2 DEF Reject
<1>3. status' \in [Turns -> Status]
  BY <1>1 DEF IInv, TypeOK, Status
<1>4. TypeOK'
  BY <1>1, <1>2, <1>3, TypeFromTable DEF IInv, TypeOK
<1>5. LaneInv' /\ CountInv'
  <2>1. \A u \in Turns : \/ status'[u] = status[u]
                         \/ status[u] = "new" /\ status'[u] = "rejected"
    BY <1>1 DEF IInv, TypeOK
  <2>2. QED
    BY <1>1, <1>2, <1>3, <2>1, LanesAtRest
<1>6. QED
  BY <1>2, <1>4, <1>5 DEF Preserved
\* The turn that finishes leaves its lane to the next one.
LEMMA FinishLanes ==
  ASSUME IInv, NEW t \in Turns, status[t] = "settled",
         status' = [status EXCEPT ![t] = "done"], session' = session, waitsFor' = waitsFor,
         ahead' = [u \in Turns |-> ahead[u] \ {t}], disposed' = disposed, tail' = tail,
         pending' = [pending EXCEPT ![session[t]] = pending[session[t]] - 1]
  PROVE  LaneInv' /\ CountInv'
<1>1. /\ status \in [Turns -> Status] /\ ahead \in [Turns -> SUBSET Turns]
      /\ pending \in [Sessions -> Nat]
      /\ LaneMembers /\ LaneChain /\ LaneOrder /\ LaneTail
  BY DEF IInv, TypeOK, LaneInv
<1>2. /\ session[t] \in Sessions
      /\ ahead[t] = {}
      /\ t \in Active(session[t])
  BY <1>1 DEF LaneMembers, LaneChain, Executing, Unfinished, Active
<1>3. \A u \in Turns :
        /\ status'[u] \in Unfinished <=> status[u] \in Unfinished /\ u # t
        /\ status'[u] = "new" => status[u] = "new"
        /\ Executing(u)' => Executing(u)
        /\ ahead'[u] = ahead[u] \ {t}
  BY <1>1 DEF Unfinished, Executing
<1>4. \A s : Active(s)' = Active(s) \ {t}
  BY <1>3 DEF Active
<1>5. LaneMembers'
  <2>1. \A u \in Turns : status'[u] \notin Unfinished => ahead'[u] = {}
    BY <1>1, <1>2, <1>3 DEF LaneMembers
  <2>2. \A u \in Turns : status[u] \in Unfinished => ahead[u] \subseteq Active(session[u]) \ {u}
    BY <1>1 DEF LaneMembers
  <2>3. \A u \in Turns : Active(session[u])' = Active(session[u]) \ {t}
    BY <1>4
  <2>4. \A u \in Turns : status'[u] \in Unfinished => ahead'[u] \subseteq Active(session[u])' \ {u}
    BY <2>2, <2>3, <1>3
  <2>5. QED
    BY <2>1, <2>4, <1>1, <1>3 DEF LaneMembers
<1>6. LaneChain'
  <2>1. \A u \in Turns : ahead[u] # {} => waitsFor[u] \in Turns
    BY <1>1 DEF LaneChain
  <2>2. ASSUME NEW u \in Turns, ahead'[u] # {}
        PROVE  /\ waitsFor[u] \in ahead'[u]
               /\ ahead'[u] = {waitsFor[u]} \cup ahead'[waitsFor[u]]
    <3>1. /\ waitsFor[u] \in ahead[u]
          /\ ahead[u] = {waitsFor[u]} \cup ahead[waitsFor[u]]
          /\ waitsFor[u] \in Turns
      BY <2>1, <2>2, <1>1, <1>3 DEF LaneChain
    <3>2. waitsFor[u] # t
      BY <2>2, <3>1, <1>2, <1>3
    <3>3. QED
      BY <3>1, <3>2, <1>3
  <2>3. QED
    BY <2>2, <1>1, <1>3 DEF LaneChain
<1>7. LaneOrder'
  BY <1>1, <1>3 DEF LaneOrder
<1>8. LaneTail'
  <2> SUFFICES ASSUME ~disposed, NEW s \in Sessions, Active(s) \ {t} # {}
               PROVE  /\ tail[s] \in Active(s) \ {t}
                      /\ Active(s) \ {t} = {tail[s]} \cup ahead'[tail[s]]
    BY <1>4 DEF LaneTail
  <2>1. /\ tail[s] \in Active(s)
        /\ Active(s) = {tail[s]} \cup ahead[tail[s]]
    BY <1>1 DEF LaneTail
  <2>2. tail[s] # t
    BY <2>1, <1>2
  <2>3. tail[s] \in Turns
    BY <2>1 DEF Active
  <2>4. QED
    BY <2>1, <2>2, <2>3, <1>3
<1>9. CountInv'
  <2> SUFFICES ASSUME NEW s \in Sessions
               PROVE  pending'[s] = Cardinality(Active(s) \ {t})
    BY <1>4 DEF CountInv
  <2>1. pending[s] = Cardinality(Active(s)) /\ IsFiniteSet(Active(s))
    BY ActiveFinite DEF IInv, CountInv
  <2>2. CASE s = session[t]
    BY <2>1, <2>2, <1>1, <1>2, FS_RemoveElement
  <2>3. CASE s # session[t]
    <3>1. Active(s) \ {t} = Active(s)
      BY <2>3 DEF Active
    <3>2. QED
      BY <2>1, <2>3, <3>1, <1>1, <1>2
  <2>4. QED
    BY <2>2, <2>3
<1>10. QED
  BY <1>5, <1>6, <1>7, <1>8, <1>9 DEF LaneInv

LEMMA FinishPreserves ==
  ASSUME IInv, NEW t \in Turns, Finish(t)
  PROVE  Preserved /\ KeepsAll
<1> DEFINE s == session[t]
           C == Touched(Table, s)
           L == Left(C, s)
<1>1. PICK V \in SUBSET resident, ok \in BOOLEAN :
        /\ Evicts(L, NoSession, selected, V, ok)
        /\ Install(Evicted(L, V))
        /\ Passed(ok)
  BY DEF Finish
<1>2. /\ status[t] = "settled" /\ status' = [status EXCEPT ![t] = "done"]
      /\ ahead' = [u \in Turns |-> ahead[u] \ {t}]
      /\ UNCHANGED <<disposed, selected, wiring, cleared, clock, crashes>>
      /\ session' = session /\ waitsFor' = waitsFor
  BY DEF Finish, boundVars
<1>3. s \in Sessions /\ pending[s] # 0
  <2>1. s \in Sessions /\ t \in Active(s)
    BY <1>2 DEF IInv, LaneInv, LaneMembers, Unfinished, Active
  <2>2. QED
    BY <2>1, ActiveFinite DEF IInv, CountInv
<1>4. /\ TableInv(C, selected)
      /\ Keeps(Table, C)
      /\ C.resident = resident
      /\ C.tail = tail
  BY <1>3, TouchedLemma DEF IInv, TypeOK, Table
<1>5. C.pending = pending
  BY <1>4 DEF Keeps, Table
<1> HIDE DEF C
<1>6. /\ TableInv(L, selected)
      /\ L.resident = C.resident
      /\ L.memory = C.memory
      /\ L.durable = C.durable
      /\ L.pending = [pending EXCEPT ![s] = pending[s] - 1]
      /\ L.tail = tail
  BY <1>3, <1>4, <1>5, LeftLemma
<1> HIDE DEF L
<1>7. /\ TableInv(Evicted(L, V), selected)
      /\ Keeps(L, Evicted(L, V))
      /\ Evicted(L, V).tail = L.tail
  <2>1. TableInv(L, selected) /\ Evicts(L, NoSession, selected, V, ok)
    BY <1>1, <1>6
  <2>2. TableInv(Evicted(L, V), selected) /\ Keeps(L, Evicted(L, V))
    BY <2>1, EvictedLemma
  <2>3. QED
    BY <2>1, <2>2, EvictedFields DEF TableInv
<1>8. KeepsMessages(Table, Evicted(L, V))
  BY <1>4, <1>6, <1>7 DEF Keeps, KeepsMessages, TableConversation
<1>9. TableInv(Table, selected)'
  BY <1>1, <1>2, <1>7, InstallKeepsTable
<1>10. /\ pending' = [pending EXCEPT ![s] = pending[s] - 1]
       /\ tail' = tail
  BY <1>1, <1>6, <1>7 DEF Install, Keeps
<1>11. TypeOK'
  <2>1. status' \in [Turns -> Status] /\ ahead' \in [Turns -> SUBSET Turns]
    BY <1>2 DEF IInv, TypeOK, Status
  <2>2. room' \in {"ok", "threw"}
    BY <1>1 DEF Passed
  <2>3. QED
    BY <1>2, <1>9, <2>1, <2>2, TypeFromTable DEF IInv, TypeOK
<1>12. LaneInv' /\ CountInv'
  BY <1>2, <1>10, FinishLanes
<1>13. KeepsAll
  BY <1>1, <1>2, <1>8, InstallKeepsAll
<1>14. QED
  BY <1>9, <1>11, <1>12, <1>13 DEF Preserved

\* A turn that is queued goes to the end of its Session's lane.
LEMMA EnqueueLanes ==
  ASSUME IInv, NEW t \in Turns, NEW s \in Sessions, status[t] = "new", ~disposed, ~disposed',
         status' = [status EXCEPT ![t] = "queued"], session' = [session EXCEPT ![t] = s],
         ahead' = [ahead EXCEPT ![t] = Active(s)],
         Active(s) # {} => waitsFor'[t] = tail[s],
         \A u \in Turns \ {t} : waitsFor'[u] = waitsFor[u],
         tail'[s] = t, \A x \in Sessions \ {s} : Active(x) # {} => tail'[x] = tail[x],
         pending' = [pending EXCEPT ![s] = pending[s] + 1]
  PROVE  LaneInv' /\ CountInv'
<1>1. /\ status \in [Turns -> Status] /\ ahead \in [Turns -> SUBSET Turns]
      /\ session \in [Turns -> Sessions \cup {NoSession}]
      /\ pending \in [Sessions -> Nat]
      /\ LaneMembers /\ LaneChain /\ LaneOrder /\ LaneTail
  BY DEF IInv, TypeOK, LaneInv
<1>2. /\ \A x : t \notin Active(x)
      /\ \A u \in Turns : t \notin ahead[u]
  BY <1>1 DEF LaneMembers, Active, Unfinished
<1>3. \A u \in Turns \ {t} : /\ status'[u] = status[u]
                             /\ session'[u] = session[u]
                             /\ ahead'[u] = ahead[u]
                             /\ Executing(u)' <=> Executing(u)
  BY <1>1 DEF Executing
<1>4. /\ status'[t] = "queued"
      /\ session'[t] = s
      /\ ahead'[t] = Active(s)
      /\ ~Executing(t)'
  BY <1>1 DEF Executing
<1>5. Active(s)' = Active(s) \cup {t}
  BY <1>3, <1>4 DEF Active, Unfinished
<1>6. \A x \in Sessions \ {s} : Active(x)' = Active(x)
  BY <1>2, <1>3, <1>4 DEF Active
<1>7. LaneMembers'
  <2>1. ASSUME NEW u \in Turns \ {t}, status[u] \in Unfinished
        PROVE  ahead[u] \subseteq Active(session[u])' \ {u}
    <3>1. session[u] \in Sessions /\ ahead[u] \subseteq Active(session[u]) \ {u}
      BY <2>1, <1>1 DEF LaneMembers
    <3>2. session'[u] = session[u]
      BY <1>3
    <3>3. CASE session[u] = s
      BY <3>1, <3>2, <3>3, <1>5
    <3>4. CASE session[u] # s
      BY <3>1, <3>2, <3>4, <1>6
    <3>5. QED
      BY <3>3, <3>4
  <2>2. ahead'[t] \subseteq Active(session[t])' \ {t}
    BY <1>2, <1>4, <1>5
  <2>3. QED
    BY <2>1, <2>2, <1>1, <1>3, <1>4 DEF LaneMembers, Unfinished
<1>8. LaneChain'
  <2>1. ASSUME NEW u \in Turns \ {t}, ahead[u] # {}
        PROVE  /\ waitsFor'[u] \in ahead'[u]
               /\ ahead'[u] = {waitsFor'[u]} \cup ahead'[waitsFor'[u]]
    <3>1. /\ waitsFor[u] \in ahead[u]
          /\ ahead[u] = {waitsFor[u]} \cup ahead[waitsFor[u]]
          /\ waitsFor[u] \in Turns
      BY <2>1, <1>1 DEF LaneChain
    <3>2. waitsFor[u] # t /\ waitsFor'[u] = waitsFor[u]
      BY <3>1, <1>2
    <3>3. QED
      BY <3>1, <3>2, <1>3
  <2>2. ASSUME Active(s) # {}
        PROVE  /\ waitsFor'[t] \in ahead'[t]
               /\ ahead'[t] = {waitsFor'[t]} \cup ahead'[waitsFor'[t]]
    <3>1. /\ tail[s] \in Active(s)
          /\ Active(s) = {tail[s]} \cup ahead[tail[s]]
          /\ waitsFor'[t] = tail[s]
      BY <2>2, <1>1 DEF LaneTail
    <3>2. tail[s] \in Turns \ {t}
      BY <3>1, <1>2 DEF Active
    <3>3. QED
      BY <3>1, <3>2, <1>3, <1>4
  <2>3. \A u \in Turns : ahead'[u] # {} =>
          /\ waitsFor'[u] \in ahead'[u]
          /\ ahead'[u] = {waitsFor'[u]} \cup ahead'[waitsFor'[u]]
    BY <2>1, <2>2, <1>3, <1>4
  <2>4. \A u \in Turns : Executing(u)' => ahead'[u] = {}
    BY <1>1, <1>3, <1>4 DEF LaneChain
  <2>5. QED
    BY <2>3, <2>4 DEF LaneChain
<1>9. LaneOrder'
  <2> SUFFICES ASSUME NEW u \in Turns, NEW v \in Turns, u # v,
                      status'[u] \in Unfinished, status'[v] \in Unfinished,
                      session'[u] = session'[v]
               PROVE  u \in ahead'[v] \/ v \in ahead'[u]
    BY DEF LaneOrder, Unfinished
  <2>1. CASE u # t /\ v # t
    BY <2>1, <1>1, <1>3 DEF LaneOrder
  <2>2. CASE u = t
    BY <2>2, <1>3, <1>4 DEF Active
  <2>3. CASE v = t
    BY <2>3, <1>3, <1>4 DEF Active
  <2>4. QED
    BY <2>1, <2>2, <2>3
<1>10. LaneTail'
  <2> SUFFICES ASSUME NEW x \in Sessions, Active(x)' # {}
               PROVE  /\ tail'[x] \in Active(x)'
                      /\ Active(x)' = {tail'[x]} \cup ahead'[tail'[x]]
    BY DEF LaneTail
  <2>1. CASE x = s
    BY <2>1, <1>4, <1>5
  <2>2. CASE x # s
    <3>1. Active(x) # {} /\ tail'[x] = tail[x]
      BY <2>2, <1>6
    <3>2. /\ tail[x] \in Active(x)
          /\ Active(x) = {tail[x]} \cup ahead[tail[x]]
      BY <3>1, <1>1 DEF LaneTail
    <3>3. tail[x] \in Turns \ {t}
      BY <3>2, <1>2 DEF Active
    <3>4. QED
      BY <2>2, <3>1, <3>2, <3>3, <1>3, <1>6
  <2>3. QED
    BY <2>1, <2>2
<1>11. CountInv'
  <2> SUFFICES ASSUME NEW x \in Sessions
               PROVE  pending'[x] = Cardinality(Active(x)')
    BY DEF CountInv
  <2>1. pending[x] = Cardinality(Active(x)) /\ IsFiniteSet(Active(x))
    BY ActiveFinite DEF IInv, CountInv
  <2>2. CASE x = s
    <3>1. Cardinality(Active(x) \cup {t}) = Cardinality(Active(x)) + 1
      BY <2>1, <1>2, FS_AddElement
    <3>2. QED
      BY <2>1, <2>2, <3>1, <1>1, <1>5
  <2>3. CASE x # s
    BY <2>1, <2>3, <1>1, <1>6
  <2>4. QED
    BY <2>2, <2>3
<1>12. QED
  BY <1>7, <1>8, <1>9, <1>10, <1>11 DEF LaneInv

LEMMA EnqueuePreserves ==
  ASSUME IInv, NEW t \in Turns, NEW s \in Sessions, Enqueue(t, s)
  PROVE  Preserved /\ KeepsAll
<1>1. PICK V \in SUBSET resident :
        LET T == Opened(s, V)
        IN /\ Opens(s, V, TRUE)
           /\ Install(Joined(T, s, t))
           /\ waitsFor' = [waitsFor EXCEPT ![t] = T.tail[s]]
  BY DEF Enqueue
<1> DEFINE T == Opened(s, V)
           J == Joined(T, s, t)
<1>2. /\ status[t] = "new" /\ status' = [status EXCEPT ![t] = "queued"]
      /\ ~disposed /\ ~disposed'
      /\ session' = [session EXCEPT ![t] = s]
      /\ ahead' = [ahead EXCEPT ![t] = Active(s)]
      /\ UNCHANGED <<disposed, selected, wiring, cleared, clock, crashes>>
  BY DEF Enqueue, boundVars
<1>3. /\ TableInv(T, selected)
      /\ Keeps(Table, T)
      /\ s \in T.resident
      /\ s \in resident => T.tail[s] = tail[s]
      /\ s \notin resident => T.tail[s] = NoTurn
  BY <1>1, <1>2, OpenedLemma
<1>4. waitsFor' = [waitsFor EXCEPT ![t] = T.tail[s]] /\ Install(J)
  BY <1>1
<1> HIDE DEF T
<1>5. /\ TableInv(J, selected)
      /\ J.resident = T.resident
      /\ J.memory = T.memory
      /\ J.durable = T.durable
      /\ J.pending = [T.pending EXCEPT ![s] = T.pending[s] + 1]
      /\ J.tail = [T.tail EXCEPT ![s] = t]
  BY <1>3, JoinedLemma
<1> HIDE DEF J
<1>6. T \in TableType /\ J \in TableType
  BY <1>3, <1>5 DEF TableInv
<1>7. Table' = J
  BY <1>4, <1>6, InstallLemma
<1>8. T.pending = pending /\ \A x \in Sessions : pending[x] # 0 => T.tail[x] = tail[x]
  BY <1>3 DEF Keeps, Table
<1>9. TableInv(Table, selected)'
  <2>1. \A x \in Sessions : \A u \in J.memory[x] \cup J.durable[x] : session'[u] = x
    <3>1. \A x \in Sessions : \A u \in J.memory[x] \cup J.durable[x] :
            u \in Turns /\ session[u] = x
      BY <1>5, <1>6 DEF TableInv, TableType
    <3>2. session[t] = NoSession
      BY <1>2 DEF IInv, LaneInv, LaneMembers
    <3>3. \A x \in Sessions : x # NoSession
      BY NullAssumption
    <3>4. QED
      BY <3>1, <3>2, <3>3, <1>2 DEF IInv, TypeOK
  <2>2. QED
    BY <2>1, <1>2, <1>5, <1>7 DEF TableInv
<1>10. KeepsMessages(Table, J)
  BY <1>3, <1>5 DEF Keeps, KeepsMessages, TableConversation
<1>11. KeepsAll
  BY <1>2, <1>4, <1>10, InstallKeepsAll
<1>12. TypeOK'
  <2>1. status' \in [Turns -> Status] /\ session' \in [Turns -> Sessions \cup {NoSession}]
    BY <1>2 DEF IInv, TypeOK, Status
  <2>2. waitsFor' \in [Turns -> Turns \cup {NoTurn}]
    BY <1>3, <1>4, <1>6 DEF IInv, TypeOK, TableType
  <2>3. ahead' \in [Turns -> SUBSET Turns]
    BY <1>2 DEF IInv, TypeOK, Active
  <2>4. room' \in {"ok", "threw"}
    BY DEF Enqueue, PassedOpening, Passed, IInv, TypeOK
  <2>5. QED
    BY <1>2, <1>9, <2>1, <2>2, <2>3, <2>4, TypeFromTable DEF IInv, TypeOK
<1>13. /\ tail' = [T.tail EXCEPT ![s] = t]
       /\ pending' = [pending EXCEPT ![s] = pending[s] + 1]
  BY <1>5, <1>7, <1>8 DEF Table
<1>14. \A x \in Sessions : Active(x) # {} => pending[x] # 0 /\ x \in resident
  BY <1>2, ActiveFinite DEF IInv, CountInv, TableInv, Table
<1>15. /\ Active(s) # {} => waitsFor'[t] = tail[s]
       /\ \A u \in Turns \ {t} : waitsFor'[u] = waitsFor[u]
  BY <1>3, <1>4, <1>14 DEF IInv, TypeOK
<1>16. /\ tail'[s] = t
       /\ \A x \in Sessions \ {s} : Active(x) # {} => tail'[x] = tail[x]
  BY <1>6, <1>8, <1>13, <1>14 DEF TableType
<1>17. LaneInv' /\ CountInv'
  BY <1>2, <1>13, <1>15, <1>16, EnqueueLanes
<1>18. QED
  BY <1>9, <1>11, <1>12, <1>17 DEF Preserved
-----------------------------------------------------------------------------
\* Every step preserves the inductive invariant.
LEMMA NextPreserves == IInv /\ [Next]_vars => IInv'
<1> SUFFICES ASSUME IInv, [Next]_vars PROVE Preserved
  BY DEF Preserved, IInv
<1>1. ASSUME NEW t \in Turns, NEW s \in Sessions, Enqueue(t, s) PROVE Preserved
  BY <1>1, EnqueuePreserves
<1>2. ASSUME NEW t \in Turns, NEW s \in Sessions, Reject(t, s) PROVE Preserved
  BY <1>2, RejectPreserves
<1>3. ASSUME NEW t \in Turns, Start(t) PROVE Preserved
  BY <1>3, StartPreserves
<1>4. ASSUME NEW t \in Turns, Settle(t) PROVE Preserved
  BY <1>4, SettlePreserves
<1>5. ASSUME NEW t \in Turns, Finish(t) PROVE Preserved
  BY <1>5, FinishPreserves
<1>6. ASSUME NEW s \in Sessions, GetOrCreate(s) PROVE Preserved
  BY <1>6, GetOrCreatePreserves
<1>7. ASSUME NEW s \in Sessions, SetSelected(s) PROVE Preserved
  BY <1>7, SetSelectedPreserves
<1>8. ASSUME NEW s \in Sessions, SaveCheckpoint(s) PROVE Preserved
  BY <1>8, SaveCheckpointPreserves
<1>9. CASE ClearConversation
  BY <1>9, ClearConversationPreserves
<1>10. CASE RestoreCheckpoint
  BY <1>10, RestoreCheckpointPreserves
<1>11. CASE \/ \E h \in Subscribers : Subscribe(h) \/ Unsubscribe(h)
            \/ \E h \in Handlers : SetToolPermissionHandler(h)
  BY <1>11, WiringPreserves
<1>12. CASE DisposeAll
  BY <1>12, DisposeAllPreserves
<1>13. CASE Restart
  BY <1>13, RestartPreserves
<1>14. CASE Tick
  BY <1>14, TickPreserves
<1>15. CASE UNCHANGED vars
  <2>1. UNCHANGED <<disposed, selected, wiring, cleared, room, clock, crashes>>
    BY <1>15 DEF vars, boundVars
  <2>2. UNCHANGED <<resident, lastUsedAt, pending, tail, memory, durable, attached>>
    BY <1>15 DEF vars, tableVars
  <2>3. session' = session /\ waitsFor' = waitsFor /\ ahead' = ahead /\ status' = status
    BY <1>15 DEF vars, callVars
  <2>4. TableInv(Table, selected)'
    BY <2>1, <2>2, <2>3 DEF IInv, TableInv, Table
  <2>5. TypeOK'
    BY <2>1, <2>3, <2>4, TypeFromTable DEF IInv, TypeOK
  <2>6. LaneInv' /\ CountInv'
    BY <2>1, <2>2, <2>3, LanesAtRest DEF IInv, TypeOK
  <2>7. QED
    BY <2>4, <2>5, <2>6 DEF Preserved
<1>16. QED
  BY <1>1, <1>2, <1>3, <1>4, <1>5, <1>6, <1>7, <1>8, <1>9, <1>10, <1>11, <1>12, <1>13, <1>14,
     <1>15 DEF Next

\* The inductive invariant holds of every reachable state.
THEOREM Invariance == Spec => []IInv
BY InitEstablishes, NextPreserves, PTL DEF Spec

\* Every variable keeps its type.
THEOREM TypeCorrect == Spec => []TypeOK
<1>1. IInv => TypeOK
  BY DEF IInv
<1>2. QED
  BY <1>1, Invariance, PTL

\* The promise chain of runExclusive runs the turns of a Session one at a time and
\* in the order of their calls, for any number of turns, Sessions and evictions.
THEOREM LanesAreExclusive == Spec => []LaneExclusive
<1>1. IInv => LaneExclusive
  BY DEF IInv, LaneInv, LaneChain, LaneOrder, LaneExclusive, Executing, Unfinished
<1>2. QED
  BY <1>1, Invariance, PTL

\* A runtime with a turn queued or running is never evicted.
THEOREM BusyRuntimesStay == Spec => []BusyStaysResident
<1>1. IInv => BusyStaysResident
  BY BusyInTable DEF BusyStaysResident
<1>2. QED
  BY <1>1, Invariance, PTL

\* The selected runtime is never evicted.
THEOREM SelectedRuntimeStays == Spec => []SelectedIsResident
<1>1. IInv => SelectedIsResident
  BY DEF IInv, TableInv, Table, SelectedIsResident
<1>2. QED
  BY <1>1, Invariance, PTL

\* No conversation ever holds a turn of another Session.
THEOREM ConversationsStayApart == Spec => []ConversationsNotShared
<1>1. IInv => ConversationsNotShared
  BY DEF IInv, TableInv, Table, ConversationsNotShared
<1>2. QED
  BY <1>1, Invariance, PTL

(***************************************************************************)
(* The cap.                                                                *)
(***************************************************************************)

\* A table over the cap has at most one runtime that could go.
Roomy(T, sel) ==
  Cardinality(T.resident) > MaxRuntimes => Cardinality(Candidates(T, NoSession, sel)) <= 1

\* Table U has the runtimes of table T, and none is idle in U alone.
NotMoreIdle(T, U) ==
  /\ U.resident = T.resident
  /\ \A s \in T.resident : U.pending[s] = 0 => T.pending[s] = 0

LEMMA TablesAreFinite ==
  ASSUME NEW T \in TableType, NEW sel
  PROVE  /\ IsFiniteSet(T.resident) /\ Cardinality(T.resident) \in Nat
         /\ IsFiniteSet(Candidates(T, NoSession, sel))
         /\ Cardinality(Candidates(T, NoSession, sel)) \in Nat
<1>1. T.resident \subseteq Sessions /\ Candidates(T, NoSession, sel) \subseteq Sessions
  BY DEF TableType, Candidates
<1>2. QED
  BY <1>1, FiniteAssumption, FS_Subset, FS_CardinalityType

\* Runtimes that get busy do not crowd a table.
LEMMA StaysRoomy ==
  ASSUME NEW T \in TableType, NEW U \in TableType, NotMoreIdle(T, U), NEW sel, Roomy(T, sel)
  PROVE  Roomy(U, sel)
<1>1. Candidates(U, NoSession, sel) \subseteq Candidates(T, NoSession, sel)
  BY DEF NotMoreIdle, Candidates
<1>2. Cardinality(Candidates(U, NoSession, sel)) <= Cardinality(Candidates(T, NoSession, sel))
  BY <1>1, TablesAreFinite, FS_Subset
<1>3. QED
  BY <1>2, TablesAreFinite, CapAssumption DEF Roomy, NotMoreIdle

\* A pass that completes leaves room, or of those that could go the protected one only.
LEMMA PassMakesRoom ==
  ASSUME NEW T \in TableType, NEW keep, NEW sel, NEW V, Evicts(T, keep, sel, V, TRUE)
  PROVE  Roomy(Evicted(T, V), sel)
<1> DEFINE U == Evicted(T, V)
<1>1. U.resident = T.resident \ V /\ U.pending = T.pending
  BY DEF Evicted, Dropped, Saved, TableType
<1>2. V = Candidates(T, keep, sel) \/ Cardinality(T.resident \ V) <= MaxRuntimes
  BY DEF Evicts
<1>3. CASE V = Candidates(T, keep, sel)
  <2>1. Candidates(U, NoSession, sel) \subseteq {keep}
    BY <1>1, <1>3 DEF Candidates
  <2>2. Cardinality(Candidates(U, NoSession, sel)) <= Cardinality({keep})
    BY <2>1, FS_Singleton, FS_Subset
  <2>3. QED
    BY <2>2, FS_Singleton DEF Roomy
<1>4. CASE Cardinality(T.resident \ V) <= MaxRuntimes
  <2>1. T.resident \ V \subseteq Sessions
    BY DEF TableType
  <2>2. Cardinality(T.resident \ V) \in Nat
    BY <2>1, FiniteAssumption, FS_Subset, FS_CardinalityType
  <2>3. QED
    BY <1>1, <1>4, <2>2, CapAssumption DEF Roomy
<1>5. QED
  BY <1>2, <1>3, <1>4

\* A step that opens a runtime, and may make others busy, leaves room if its pass completes.
LEMMA OpeningLeavesRoom ==
  ASSUME IInv, CapRespected, ~disposed, NEW s \in Sessions, NEW V, NEW ok, Opens(s, V, ok),
         PassedOpening(s, ok), NEW U \in TableType, NotMoreIdle(Opened(s, V), U), Install(U),
         selected' = selected
  PROVE  CapRespected'
<1>0. Table' = U /\ Table \in TableType /\ TableInv(Table, selected)
  BY InstallLemma, TableHasType DEF IInv
<1>1. Opened(s, V) \in TableType
  BY OpenedLemma DEF TableInv
<1>2. SUFFICES ASSUME room' = "ok" PROVE Roomy(U, selected)
  BY <1>0 DEF CapRespected, Roomy, Table
<1>3. CASE s \in resident
  <2>1. room = "ok" /\ Opened(s, V) = Touched(Table, s)
    BY <1>2, <1>3 DEF PassedOpening, Opened
  <2>2. NotMoreIdle(Table, Opened(s, V))
    BY <1>0, <2>1 DEF NotMoreIdle, Touched, TableType
  <2>3. Roomy(Table, selected)
    BY <2>1 DEF CapRespected, Roomy, Table
  <2>4. QED
    BY <1>0, <1>1, <2>2, <2>3, StaysRoomy
<1>4. CASE s \notin resident
  <2> DEFINE C == Created(Table, s)
  <2>1. ok
    BY <1>2, <1>4 DEF PassedOpening, Passed
  <2>2. Evicts(C, s, selected, V, TRUE) /\ Opened(s, V) = Evicted(C, V)
    BY <1>4, <2>1 DEF Opens, Opened
  <2>3. C \in TableType
    <3>1. s \notin Table.resident /\ clock \in Nat /\ wiring \subseteq Subscribers \cup Handlers
      BY <1>4 DEF IInv, TypeOK, Table
    <3>2. TableInv(C, selected)
      BY <1>0, <3>1, CreatedLemma
    <3>3. QED
      BY <3>2 DEF TableInv
  <2> HIDE DEF C
  <2>4. Roomy(Opened(s, V), selected)
    BY <2>2, <2>3, PassMakesRoom
  <2>5. QED
    BY <1>1, <2>4, StaysRoomy
<1>5. QED
  BY <1>3, <1>4

\* A step that ends with a pass of its own leaves room if the pass completes.
LEMMA PassingLeavesRoom ==
  ASSUME NEW T \in TableType, NEW keep, NEW V, NEW ok, Evicts(T, keep, selected', V, ok),
         Passed(ok), NEW U \in TableType, NotMoreIdle(Evicted(T, V), U), Install(U)
  PROVE  CapRespected'
<1>1. Table' = U
  BY InstallLemma
<1>2. SUFFICES ASSUME room' = "ok" PROVE Roomy(U, selected')
  BY <1>1 DEF CapRespected, Roomy, Table
<1>3. Roomy(Evicted(T, V), selected')
  BY <1>2, PassMakesRoom DEF Passed
<1>4. Evicted(T, V) \in TableType
  BY DEF Evicts, Candidates, Evicted, Dropped, Saved, TableType
<1>5. QED
  BY <1>3, <1>4, StaysRoomy

\* A step that leaves the table's runtimes and pending turns alone.
LEMMA RoomAtRest ==
  ASSUME CapRespected, UNCHANGED <<resident, pending, selected, room>>
  PROVE  CapRespected'
BY DEF CapRespected, Candidates, Table

LEMMA CapPreserved ==
  ASSUME IInv, CapRespected, Next
  PROVE  CapRespected'
<1>0. /\ Table \in TableType /\ clock \in Nat /\ TableInv(Table, selected)
      /\ resident \subseteq Sessions /\ pending \in [Sessions -> Nat]
      /\ selected \in Sessions \cup {NoSession}
  BY TableHasType DEF IInv, TypeOK
<1>1. ASSUME NEW t \in Turns, NEW s \in Sessions, Enqueue(t, s) PROVE CapRespected'
  <2>1. PICK V \in SUBSET resident :
          Opens(s, V, TRUE) /\ Install(Joined(Opened(s, V), s, t))
    BY <1>1 DEF Enqueue
  <2> DEFINE T == Opened(s, V)
  <2>2. TableInv(T, selected) /\ s \in T.resident /\ ~disposed
    BY <1>1, <2>1, OpenedLemma DEF Enqueue
  <2> HIDE DEF T
  <2>3. /\ TableInv(Joined(T, s, t), selected)
        /\ Joined(T, s, t).resident = T.resident
        /\ Joined(T, s, t).memory = T.memory
        /\ Joined(T, s, t).durable = T.durable
        /\ Joined(T, s, t).pending = [T.pending EXCEPT ![s] = T.pending[s] + 1]
        /\ Joined(T, s, t).tail = [T.tail EXCEPT ![s] = t]
    BY <2>2, JoinedLemma
  <2>4. Joined(T, s, t) \in TableType /\ T \in TableType
    BY <2>2, <2>3 DEF TableInv
  <2>5. NotMoreIdle(T, Joined(T, s, t))
    BY <2>3, <2>4 DEF NotMoreIdle, TableType
  <2>6. PassedOpening(s, TRUE) /\ selected' = selected
    BY <1>1 DEF Enqueue
  <2>7. QED
    BY <2>1, <2>2, <2>4, <2>5, <2>6, OpeningLeavesRoom DEF T
<1>2. ASSUME NEW s \in Sessions, NEW V \in SUBSET resident, NEW ok \in BOOLEAN, ~disposed,
             Opens(s, V, ok), Install(Opened(s, V)), PassedOpening(s, ok), selected' = selected
      PROVE  CapRespected'
  <2>1. Opened(s, V) \in TableType
    BY <1>2, OpenedLemma DEF TableInv
  <2>2. NotMoreIdle(Opened(s, V), Opened(s, V))
    BY DEF NotMoreIdle
  <2>3. QED
    BY <1>2, <2>1, <2>2, OpeningLeavesRoom
<1>3. ASSUME NEW t \in Turns, NEW s \in Sessions, Reject(t, s) PROVE CapRespected'
  <2>1. CASE UNCHANGED <<tableVars, room>>
    BY <1>3, <2>1, RoomAtRest DEF Reject, tableVars
  <2>2. CASE ~disposed /\ \E V \in SUBSET resident : Opens(s, V, FALSE) /\ Install(Opened(s, V))
    BY <1>2, <1>3, <2>2 DEF Reject
  <2>3. QED
    BY <1>3, <2>1, <2>2 DEF Reject
<1>4. ASSUME NEW t \in Turns, Start(t) PROVE CapRespected'
  BY <1>4, RoomAtRest DEF Start, Install, Touched, Table
<1>5. ASSUME NEW t \in Turns, Settle(t) PROVE CapRespected'
  BY <1>5, RoomAtRest DEF Settle
<1>6. ASSUME NEW t \in Turns, Finish(t) PROVE CapRespected'
  <2> DEFINE T == Left(Touched(Table, session[t]), session[t])
  <2>1. PICK V \in SUBSET resident, ok \in BOOLEAN :
          /\ Evicts(T, NoSession, selected, V, ok)
          /\ Install(Evicted(T, V)) /\ Passed(ok)
    BY <1>6 DEF Finish
  <2>2. session[t] \in Sessions /\ pending[session[t]] \in Nat \ {0} /\ selected' = selected
    <3>1. status[t] \in Unfinished /\ selected' = selected
      BY <1>6 DEF Finish, Unfinished
    <3>2. session[t] \in Sessions /\ t \in Active(session[t])
      BY <3>1 DEF IInv, LaneInv, LaneMembers, Active
    <3>3. QED
      BY <1>0, <3>1, <3>2, ActiveFinite DEF IInv, CountInv
  <2>3. T \in TableType
    <3> DEFINE S == Touched(Table, session[t])
    <3>1. S \in TableType /\ S.pending = pending
      BY <1>0 DEF Touched, TableType, Table
    <3>2. [pending EXCEPT ![session[t]] = @ - 1] \in [Sessions -> Nat]
      BY <1>0, <2>2
    <3> HIDE DEF S
    <3>3. [S EXCEPT !.pending = [pending EXCEPT ![session[t]] = @ - 1]] \in TableType
      BY <3>1, <3>2 DEF TableType
    <3>4. QED
      BY <3>1, <3>3 DEF Left, S
  <2>4. Evicted(T, V) \in TableType
    BY <2>1, <2>3 DEF Evicted, Dropped, Saved, TableType
  <2>5. NotMoreIdle(Evicted(T, V), Evicted(T, V))
    BY DEF NotMoreIdle
  <2> HIDE DEF T
  <2>6. QED
    BY <2>1, <2>2, <2>3, <2>4, <2>5, PassingLeavesRoom
<1>7. ASSUME NEW s \in Sessions, GetOrCreate(s) PROVE CapRespected'
  BY <1>2, <1>7 DEF GetOrCreate
<1>8. ASSUME NEW s \in Sessions, SetSelected(s) PROVE CapRespected'
  <2>1. CASE SelectThrows(s)
    BY <1>2, <1>8, <2>1 DEF SelectThrows, SetSelected
  <2>2. CASE SelectSwitches(s)
    <3>1. PICK V \in SUBSET Sessions, W \in SUBSET Sessions, ok \in BOOLEAN :
            LET T == Opened(s, V)
                U == Touched(Saved(T, Departing(T, s)), s)
            IN /\ Opens(s, V, TRUE) /\ Evicts(U, s, s, W, ok)
               /\ Install(Evicted(U, W)) /\ Passed(ok) /\ selected' = s
      BY <2>2 DEF SelectSwitches
    <3> DEFINE T == Opened(s, V)
               U == Touched(Saved(T, Departing(T, s)), s)
    <3>2. T \in TableType
      BY <1>8, <3>1, OpenedLemma DEF SetSelected, TableInv
    <3> HIDE DEF T
    <3>3. U \in TableType
      BY <1>0, <3>2 DEF Touched, Saved, TableType
    <3>4. Evicted(U, W) \in TableType
      BY <3>1, <3>3 DEF Evicted, Dropped, Saved, TableType
    <3>5. NotMoreIdle(Evicted(U, W), Evicted(U, W))
      BY DEF NotMoreIdle
    <3>6. Evicts(U, s, selected', W, ok) /\ Passed(ok) /\ Install(Evicted(U, W))
      BY <3>1 DEF T
    <3> HIDE DEF U
    <3>7. QED
      BY <3>3, <3>4, <3>5, <3>6, PassingLeavesRoom
  <2>3. QED
    BY <1>8, <2>1, <2>2 DEF SetSelected
<1>9. CASE ClearConversation
  BY <1>9, RoomAtRest DEF ClearConversation
<1>10. ASSUME NEW s \in Sessions, SaveCheckpoint(s) PROVE CapRespected'
  <2>1. PICK V \in SUBSET resident, ok, written \in BOOLEAN :
          LET T == Opened(s, V) IN
          /\ Opens(s, V, ok)
          /\ Install(IF written THEN [T EXCEPT !.durable[s] = T.memory[s]] ELSE T)
          /\ PassedOpening(s, ok)
    BY <1>10 DEF SaveCheckpoint
  <2> DEFINE T == Opened(s, V)
             U == IF written THEN [T EXCEPT !.durable[s] = T.memory[s]] ELSE T
  <2>2. ~disposed /\ selected' = selected
    BY <1>10 DEF SaveCheckpoint
  <2>3. T \in TableType
    BY <2>1, <2>2, OpenedLemma DEF TableInv
  <2>4. U \in TableType /\ NotMoreIdle(T, U)
    <3> HIDE DEF T
    <3> QED BY <2>3 DEF TableType, NotMoreIdle
  <2>5. QED
    BY <2>1, <2>2, <2>4, OpeningLeavesRoom
<1>11. CASE RestoreCheckpoint
  <2> DEFINE S == Touched(Table, selected)
  <2>1. PICK V \in SUBSET resident, ok, restored \in BOOLEAN :
          LET T == Evicted(S, V) IN
          /\ Evicts(S, selected, selected, V, ok)
          /\ Install(IF restored THEN [T EXCEPT !.memory[selected] = durable[selected]] ELSE T)
          /\ Passed(ok)
    BY <1>11 DEF RestoreCheckpoint
  <2> DEFINE T == Evicted(S, V)
             U == IF restored THEN [T EXCEPT !.memory[selected] = durable[selected]] ELSE T
  <2>2. selected' = selected /\ selected \in Sessions /\ durable \in [Sessions -> SUBSET Turns]
    BY <1>0, <1>11 DEF RestoreCheckpoint, IInv, TypeOK
  <2>3. S \in TableType
    BY <1>0, <2>2 DEF Touched, TableType
  <2> HIDE DEF S
  <2>4. T \in TableType
    BY <2>1, <2>3 DEF Evicted, Dropped, Saved, TableType
  <2>5. U \in TableType /\ NotMoreIdle(T, U)
    <3> HIDE DEF T
    <3> QED BY <2>2, <2>4 DEF TableType, NotMoreIdle
  <2>6. QED
    BY <2>1, <2>2, <2>3, <2>5, PassingLeavesRoom
<1>12. CASE DisposeAll
  <2>1. resident' = {}
    BY <1>12 DEF DisposeAll, Install, Dropped, Table
  <2>2. QED
    BY <2>1, FS_EmptySet, CapAssumption DEF CapRespected
<1>13. CASE Restart
  <2>1. resident' = {}
    BY <1>13 DEF Restart, Install, Dropped, Table
  <2>2. QED
    BY <2>1, FS_EmptySet, CapAssumption DEF CapRespected
<1>14. ASSUME \/ Tick \/ \E h \in Subscribers : Subscribe(h) \/ Unsubscribe(h)
              \/ \E h \in Handlers : SetToolPermissionHandler(h)
       PROVE  CapRespected'
  BY <1>14, RoomAtRest DEF Tick, Subscribe, Unsubscribe, SetToolPermissionHandler, tableVars
<1>15. QED
  BY <1>1, <1>3, <1>4, <1>5, <1>6, <1>7, <1>8, <1>9, <1>10, <1>11, <1>12, <1>13, <1>14 DEF Next

\* Unless its last pass threw, the table is over the cap by the busy and selected runtimes
\* and one more at most, for any cap, and whatever checkpoints throw in between.
THEOREM CapHolds == Spec => []CapRespected
<1>1. Init => CapRespected
  BY FS_EmptySet, CapAssumption DEF Init, CapRespected
<1>2. IInv /\ CapRespected /\ [Next]_vars => CapRespected'
  <2> SUFFICES ASSUME IInv, CapRespected, [Next]_vars PROVE CapRespected'
    OBVIOUS
  <2>1. CASE UNCHANGED vars
    BY <2>1, RoomAtRest DEF vars, tableVars
  <2>2. QED
    BY <2>1, CapPreserved
<1>3. QED
  BY <1>1, <1>2, Invariance, PTL DEF Spec

\* Every resident runtime has exactly the live subscribers and permission handler.
THEOREM RuntimesAreWiredUp == Spec => []WiredUp
<1>1. IInv => WiredUp
  BY DEF IInv, TableInv, Table, WiredUp
<1>2. QED
  BY <1>1, Invariance, PTL

\* A step that is neither the user's clearing or rewinding a conversation nor the
\* end of the process keeps every message and every checkpoint.
LEMMA NextKeepsAll ==
  ASSUME IInv, Next
  PROVE  KeepsAll \/ ClearConversation \/ RestoreCheckpoint \/ DisposeAll \/ Restart
<1>1. ASSUME NEW t \in Turns, NEW s \in Sessions, Enqueue(t, s) PROVE KeepsAll
  BY <1>1, EnqueuePreserves
<1>2. ASSUME NEW t \in Turns, NEW s \in Sessions, Reject(t, s) PROVE KeepsAll
  <2>1. cleared' = cleared
    BY <1>2 DEF Reject
  <2>2. CASE UNCHANGED <<tableVars, room>>
    BY <2>1, <2>2 DEF tableVars, KeepsAll, Conversation
  <2>3. CASE /\ ~disposed
             /\ \E V \in SUBSET resident : Opens(s, V, FALSE) /\ Install(Opened(s, V))
    <3>1. PICK V \in SUBSET resident : Opens(s, V, FALSE) /\ Install(Opened(s, V))
      BY <2>3
    <3>2. Keeps(Table, Opened(s, V))
      BY <2>3, <3>1, OpenedLemma
    <3>3. QED
      BY <2>1, <3>1, <3>2, InstallKeepsAll DEF Keeps
  <2>4. QED
    BY <1>2, <2>2, <2>3 DEF Reject
<1>3. ASSUME NEW t \in Turns, Start(t) PROVE KeepsAll
  <2>1. session[t] \in Sessions
    BY <1>3 DEF Start, IInv, LaneInv, LaneMembers, Unfinished
  <2>2. Keeps(Table, Touched(Table, session[t]))
    BY <2>1, TouchedLemma DEF IInv, TypeOK
  <2>3. cleared' = cleared /\ Install(Touched(Table, session[t]))
    BY <1>3 DEF Start
  <2>4. QED
    BY <2>2, <2>3, InstallKeepsAll DEF Keeps
<1>4. ASSUME NEW t \in Turns, Settle(t) PROVE KeepsAll
  <2> DEFINE s == session[t]
  <2>1. /\ resident' = resident /\ cleared' = cleared
        /\ \/ memory' = memory /\ durable' = durable
           \/ /\ s \in resident
              /\ memory' = [memory EXCEPT ![s] = memory[s] \cup {t}]
              /\ durable' = durable \/ durable' = [durable EXCEPT ![s] = memory[s] \cup {t}]
    BY <1>4 DEF Settle
  <2>2. /\ memory \in [Sessions -> SUBSET Turns] /\ durable \in [Sessions -> SUBSET Turns]
        /\ \A x \in resident : durable[x] \subseteq memory[x] \cup cleared
    BY DEF IInv, TypeOK, TableInv, Table
  <2>3. QED
    BY <2>1, <2>2 DEF KeepsAll, Conversation
<1>5. ASSUME NEW t \in Turns, Finish(t) PROVE KeepsAll
  BY <1>5, FinishPreserves
<1>6. ASSUME NEW s \in Sessions, GetOrCreate(s) \/ SetSelected(s) \/ SaveCheckpoint(s)
      PROVE  KeepsAll
  BY <1>6, GetOrCreatePreserves, SetSelectedPreserves, SaveCheckpointPreserves
<1>7. ASSUME \/ \E h \in Subscribers : Subscribe(h) \/ Unsubscribe(h)
             \/ \E h \in Handlers : SetToolPermissionHandler(h)
             \/ Tick
      PROVE  KeepsAll
  <2>1. UNCHANGED <<resident, memory, durable, cleared>>
    BY <1>7 DEF Subscribe, Unsubscribe, SetToolPermissionHandler, Tick, tableVars
  <2>2. QED
    BY <2>1 DEF KeepsAll, Conversation
<1>8. QED
  BY <1>1, <1>2, <1>3, <1>4, <1>5, <1>6, <1>7 DEF Next

\* Eviction, switching and rebuilding lose no message of any conversation.
THEOREM NothingIsLost == Spec => NothingLost
<1>1. IInv /\ [Next]_vars =>
        [\/ \A s \in Sessions : Conversation(s) \subseteq Conversation(s)'
         \/ ClearConversation \/ RestoreCheckpoint \/ DisposeAll \/ Restart]_vars
  BY NextKeepsAll DEF KeepsAll
<1>2. QED
  BY <1>1, Invariance, PTL DEF Spec, NothingLost

\* No checkpoint takes the place of one that holds more.
THEOREM CheckpointsGrow == Spec => CheckpointsOnlyGrow
<1>1. IInv /\ [Next]_vars =>
        [\A s \in Sessions : durable[s] \subseteq durable'[s] \cup cleared']_vars
  <2> SUFFICES ASSUME IInv, Next
               PROVE  \A s \in Sessions : durable[s] \subseteq durable'[s] \cup cleared'
    OBVIOUS
  <2>1. CASE KeepsAll
    BY <2>1 DEF KeepsAll
  <2>2. CASE ClearConversation
    BY <2>2 DEF ClearConversation
  <2>3. CASE RestoreCheckpoint
    BY <2>3, RestoreCheckpointPreserves
  <2>4. CASE DisposeAll \/ Restart
    BY <2>4 DEF DisposeAll, Restart, Install, Dropped, Table
  <2>5. QED
    BY <2>1, <2>2, <2>3, <2>4, NextKeepsAll
<1>2. QED
  BY <1>1, Invariance, PTL DEF Spec, CheckpointsOnlyGrow
-----------------------------------------------------------------------------
\* What callers see of a turn when only the status of one turn changes.
LEMMA PhaseOfOne ==
  ASSUME TypeOK, NEW t \in Turns, NEW st \in Status, status' = [status EXCEPT ![t] = st]
  PROVE  /\ \A u \in Turns \ {t} : Phase(u)' = Phase(u)
         /\ st = "queued" => Phase(t)' = "waiting"
         /\ st \in {"running", "settled"} => Phase(t)' = "executing"
         /\ st \in {"done", "rejected"} => Phase(t)' = "ended"
BY DEF TypeOK, Phase, Executing, Status

\* A step that changes no lane is a stutter of the lanes.
LEMMA LanesStutter ==
  ASSUME status' = status, session' = session, ahead' = ahead
  PROVE  UNCHANGED Lanes!vars
BY DEF Lanes!vars, Phase, Executing

\* Every step of the registry is a step of a lane, or a stutter.
LEMMA NextImplementsLanes ==
  ASSUME IInv, Next
  PROVE  Lanes!Next \/ UNCHANGED Lanes!vars
<1> TypeOK
  BY DEF IInv
<1> DEFINE phase == [u \in Turns |-> Phase(u)]
<1>1. ASSUME NEW t \in Turns, NEW s \in Sessions, Enqueue(t, s) PROVE Lanes!Submit(t, s)
  <2>1. /\ status[t] = "new" /\ status' = [status EXCEPT ![t] = "queued"]
        /\ session' = [session EXCEPT ![t] = s]
        /\ ahead' = [ahead EXCEPT ![t] = Active(s)]
    BY <1>1 DEF Enqueue
  <2>2. Phase(t) = "idle"
    BY <2>1 DEF Phase, Executing
  <2>3. (phase)' = [phase EXCEPT ![t] = "waiting"]
    BY <2>1, PhaseOfOne DEF Status
  <2>4. Active(s) = Lanes!InLane(s)
    BY DEF Active, Lanes!InLane, Phase, Executing, Unfinished, TypeOK, Status
  <2>5. QED
    BY <2>1, <2>2, <2>3, <2>4 DEF Lanes!Submit
<1>2. ASSUME NEW t \in Turns, NEW s \in Sessions, Reject(t, s) PROVE Lanes!Refuse(t)
  <2>1. /\ status[t] = "new" /\ status' = [status EXCEPT ![t] = "rejected"]
        /\ session' = session /\ ahead' = ahead
    BY <1>2 DEF Reject
  <2>2. Phase(t) = "idle"
    BY <2>1 DEF Phase, Executing
  <2>3. (phase)' = [phase EXCEPT ![t] = "ended"]
    BY <2>1, PhaseOfOne DEF Status
  <2>4. QED
    BY <2>1, <2>2, <2>3 DEF Lanes!Refuse
<1>3. ASSUME NEW t \in Turns, Start(t) PROVE Lanes!Begin(t)
  <2>1. /\ status[t] = "queued" /\ status' = [status EXCEPT ![t] = "running"]
        /\ session' = session /\ ahead' = ahead
    BY <1>3 DEF Start
  <2>2. Phase(t) = "waiting" /\ ahead[t] = {}
    BY <2>1, <1>3, StartIsFirst DEF Phase, Executing
  <2>3. (phase)' = [phase EXCEPT ![t] = "executing"]
    BY <2>1, PhaseOfOne DEF Status
  <2>4. QED
    BY <2>1, <2>2, <2>3 DEF Lanes!Begin
<1>4. ASSUME NEW t \in Turns, Settle(t) PROVE UNCHANGED Lanes!vars
  <2>1. /\ status[t] = "running" /\ status' = [status EXCEPT ![t] = "settled"]
        /\ session' = session /\ ahead' = ahead
    BY <1>4 DEF Settle
  <2>2. Phase(t) = "executing"
    BY <2>1 DEF Phase, Executing
  <2>3. (phase)' = phase
    BY <2>1, <2>2, PhaseOfOne DEF Status
  <2>4. QED
    BY <2>1, <2>3 DEF Lanes!vars
<1>5. ASSUME NEW t \in Turns, Finish(t) PROVE Lanes!End(t)
  <2>1. /\ status[t] = "settled" /\ status' = [status EXCEPT ![t] = "done"]
        /\ session' = session /\ ahead' = [u \in Turns |-> ahead[u] \ {t}]
    BY <1>5 DEF Finish
  <2>2. Phase(t) = "executing"
    BY <2>1 DEF Phase, Executing
  <2>3. (phase)' = [phase EXCEPT ![t] = "ended"]
    BY <2>1, PhaseOfOne DEF Status
  <2>4. QED
    BY <2>1, <2>2, <2>3 DEF Lanes!End
<1>6. CASE Restart
  <2>1. /\ status' = [t \in Turns |-> IF status[t] \in Unfinished THEN "lost" ELSE status[t]]
        /\ ahead' = [t \in Turns |-> {}]
        /\ session' = session
    BY <1>6 DEF Restart
  <2>2. \A t \in Turns : Phase(t)' = IF Phase(t) \in {"waiting", "executing"} THEN "ended"
                                                                              ELSE Phase(t)
    BY <2>1 DEF Phase, Executing, Unfinished, TypeOK, Status
  <2>3. Lanes!Perish
    BY <2>1, <2>2 DEF Lanes!Perish
  <2>4. QED
    BY <2>3 DEF Lanes!Next
<1>7. ASSUME NEW s \in Sessions, GetOrCreate(s) \/ SetSelected(s) \/ SaveCheckpoint(s)
      PROVE  UNCHANGED Lanes!vars
  BY <1>7, LanesStutter DEF GetOrCreate, SetSelected, SaveCheckpoint, callVars
<1>8. ASSUME \/ ClearConversation \/ RestoreCheckpoint \/ DisposeAll \/ Tick
             \/ \E h \in Subscribers : Subscribe(h) \/ Unsubscribe(h)
             \/ \E h \in Handlers : SetToolPermissionHandler(h)
      PROVE  UNCHANGED Lanes!vars
  BY <1>8, LanesStutter DEF ClearConversation, RestoreCheckpoint, DisposeAll, Tick, Subscribe,
     Unsubscribe, SetToolPermissionHandler, callVars
<1>9. QED
  BY <1>1, <1>2, <1>3, <1>4, <1>5, <1>6, <1>7, <1>8 DEF Next, Lanes!Next

\* The registry, with its promises, evictions, failures and restarts, implements the
\* lanes that callers of runExclusive are promised.
THEOREM Refinement == Spec => ImplementsLanes
<1>1. Init => Lanes!Init
  BY DEF Init, Lanes!Init, Phase, Executing
<1>2. IInv /\ [Next]_vars => [Lanes!Next]_(Lanes!vars)
  <2> SUFFICES ASSUME IInv, [Next]_vars PROVE [Lanes!Next]_(Lanes!vars)
    OBVIOUS
  <2>1. CASE Next
    BY <2>1, NextImplementsLanes
  <2>2. CASE UNCHANGED vars
    BY <2>2, LanesStutter DEF vars, callVars
  <2>3. QED
    BY <2>1, <2>2
<1>3. QED
  BY <1>1, <1>2, Invariance, PTL DEF Spec, ImplementsLanes, Lanes!Spec
=============================================================================
