--------------------------------- MODULE Identities ---------------------------------
(***************************************************************************)
(* The catalog of the people behind the channels                           *)
(* (packages/core/src/session/session-identity.ts).  An identity has a row *)
(* of its own and one row for each of its subjects, and the key of a       *)
(* subject's row is the subject.  Processes share the database: a call     *)
(* runs without a pause in its process, but another process may write      *)
(* between any two of its statements, and only a transaction is atomic.    *)
(* Names and times, which decide nothing, are left out.                    *)
(***************************************************************************)
EXTENDS FiniteSets

CONSTANTS
  Ids,          \* the identifiers that randomUUID gives
  Subjects,     \* the subjects: a channel and the name of somebody there
  Callers,      \* the processes
  NoId, NoSubject

ASSUME IdentityAssumption == NoId \notin Ids /\ NoSubject \notin Subjects

VARIABLES
  identities,   \* the table session_identities: the identifiers in it
  subjects,     \* the table session_identity_subjects: pairs of identity and subject
  unlinked,     \* history: the pairs that unlinkSubject has deleted
  call          \* the call that each process makes

identityVars == <<identities, subjects, unlinked, call>>

\* Where a call is: what it does next, or how it ended.
Steps == {"idle", "find", "touch", "create", "refind", "findLink", "insert", "read",
          "delete", "merge", "answered", "ended", "threw"}

Call == [step : Steps, id : Ids \cup {NoId}, subject : Subjects \cup {NoSubject}]

NoCall == [step |-> "idle", id |-> NoId, subject |-> NoSubject]

SubjectsOf(i) == {s \in Subjects : <<i, s>> \in subjects}

\* findBySubject: the identities that the statement may return, at most one.
Found(s) == {i \in identities : <<i, s>> \in subjects}

\* Mutant: the table has no key on the subject.
NoKey(s) == FALSE

\* PRIMARY KEY (channel, subject_id): an insertion of the subject collides.
Collides(s) == \E i \in Ids : <<i, s>> \in subjects

\* The call of a process goes on, or ends, with what it has found.
GoTo(c, step, i) ==
  call' = [call EXCEPT ![c] = [step |-> step, id |-> i, subject |-> @.subject]]

NoWrite == UNCHANGED <<identities, subjects, unlinked>>
-----------------------------------------------------------------------------
IdentitiesInit ==
  /\ identities = {} /\ subjects = {} /\ unlinked = {}
  /\ call = [c \in Callers |-> NoCall]

MayCall(c) == call[c].step \in {"idle", "answered", "ended", "threw"}

\* A call of one of the operations, for an identity that the caller knows of.
CallGetOrCreate(c, s) ==
  /\ MayCall(c)
  /\ call' = [call EXCEPT ![c] = [step |-> "find", id |-> NoId, subject |-> s]]
  /\ NoWrite

CallOn(c, step, i, s) ==
  /\ MayCall(c)
  /\ call' = [call EXCEPT ![c] = [step |-> step, id |-> i, subject |-> s]]
  /\ NoWrite

\* getOrCreateBySubject looks for the subject.
Find(c) ==
  /\ call[c].step = "find"
  /\ LET found == Found(call[c].subject)
     IN  \/ \E i \in found : GoTo(c, "touch", i)
         \/ found = {} /\ GoTo(c, "create", NoId)
  /\ NoWrite

\* touchLastSeen, or touchDisplayName, of the identity found, which is returned.
Touch(c) ==
  /\ call[c].step = "touch"
  /\ GoTo(c, "answered", call[c].id)
  /\ NoWrite

\* create: the transaction inserts both rows or, where the subject is there, none.
Create(c) ==
  /\ call[c].step = "create"
  /\ IF Collides(call[c].subject)
     THEN GoTo(c, "refind", NoId) /\ NoWrite
     ELSE \E i \in Ids \ identities :
            /\ GoTo(c, "answered", i)
            /\ identities' = identities \cup {i}
            /\ subjects' = subjects \cup {<<i, call[c].subject>>}
            /\ UNCHANGED unlinked

\* After a collision the winner is returned; where it is gone again, the error is thrown.
Refind(c) ==
  /\ call[c].step = "refind"
  /\ LET found == Found(call[c].subject)
     IN  \/ \E i \in found : GoTo(c, "answered", i)
         \/ found = {} /\ GoTo(c, "threw", NoId)
  /\ NoWrite

\* linkSubject looks for the subject: the identity's own is touched, another's is a conflict.
FindLink(c) ==
  /\ call[c].step = "findLink"
  /\ LET found == Found(call[c].subject)
     IN  \/ found = {} /\ GoTo(c, "insert", call[c].id)
         \/ call[c].id \in found /\ GoTo(c, "ended", call[c].id)
         \/ found \notin {{}, {call[c].id}} /\ GoTo(c, "threw", call[c].id)
  /\ NoWrite

\* INSERT OR IGNORE: somebody else's row of the meantime stays, and nobody is told.
Insert(c) ==
  /\ call[c].step = "insert"
  /\ GoTo(c, "ended", call[c].id)
  /\ subjects' = subjects \cup (IF Collides(call[c].subject) THEN {}
                                ELSE {<<call[c].id, call[c].subject>>})
  /\ UNCHANGED <<identities, unlinked>>

\* unlinkSubject reads the identity: a subject it has not is no work, its last one stays.
Read(c) ==
  /\ call[c].step = "read"
  /\ GoTo(c, IF call[c].subject \notin SubjectsOf(call[c].id) THEN "ended"
             ELSE IF SubjectsOf(call[c].id) = {call[c].subject} THEN "threw"
             ELSE "delete",
          call[c].id)
  /\ NoWrite

Delete(c) ==
  /\ call[c].step = "delete"
  /\ GoTo(c, "ended", call[c].id)
  /\ LET pair == <<call[c].id, call[c].subject>>
     IN  subjects' = subjects \ {pair} /\ unlinked' = unlinked \cup ({pair} \cap subjects)
  /\ UNCHANGED identities

\* merge: its first statement has seven values for four columns and is refused, whatever
\* the identities, so that the transaction changes nothing.
Merge(c) ==
  /\ call[c].step = "merge"
  /\ GoTo(c, "threw", call[c].id)
  /\ NoWrite

\* A process ends, and starts anew.
Crash(c) ==
  /\ call[c].step # "idle"
  /\ call' = [call EXCEPT ![c] = NoCall]
  /\ NoWrite

IdentityStep(c) ==
  \/ Find(c) \/ Touch(c) \/ Create(c) \/ Refind(c) \/ FindLink(c) \/ Insert(c)
  \/ Read(c) \/ Delete(c) \/ Merge(c) \/ Crash(c)

IdentitiesNext ==
  \E c \in Callers :
    \/ IdentityStep(c)
    \/ \E s \in Subjects : CallGetOrCreate(c, s)
    \/ \E i \in identities, s \in Subjects, step \in {"findLink", "read"} :
         CallOn(c, step, i, s)
    \/ \E i \in identities : CallOn(c, "merge", i, NoSubject)

IdentitiesSpec == IdentitiesInit /\ [][IdentitiesNext]_identityVars
-----------------------------------------------------------------------------
\* Every variable has its type.
IdentitiesTypeOK ==
  /\ identities \subseteq Ids
  /\ subjects \subseteq identities \X Subjects /\ unlinked \subseteq identities \X Subjects
  /\ call \in [Callers -> Call]

\* A subject belongs to one identity at most, whichever processes create, link and unlink
\* at once (create, linkSubject).
OneIdentityPerSubject ==
  \A i, j \in Ids, s \in Subjects :
    <<i, s>> \in subjects /\ <<j, s>> \in subjects => i = j

\* Whom getOrCreateBySubject answered is who the subject is linked to, the loser of a race
\* included, unless the two were unlinked (getOrCreateBySubject, create).
AnswersHold ==
  \A c \in Callers :
    call[c].step \in {"touch", "answered"} =>
      <<call[c].id, call[c].subject>> \in subjects \cup unlinked

\* An identity has had a subject since it exists: no process, crashed or not, leaves one
\* half made (the transaction of create).
NoneHalfMade == \A i \in identities : \E s \in Subjects : <<i, s>> \in subjects \cup unlinked

\* The catalog of people is well formed and nobody is in it twice (session-identity.ts).
IdentityInv ==
  IdentitiesTypeOK /\ OneIdentityPerSubject /\ AnswersHold /\ NoneHalfMade
=============================================================================
