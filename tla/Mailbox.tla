--------------------------------- MODULE Mailbox ---------------------------------
(***************************************************************************)
(* The email channel (packages/runtime/src/channels/email.ts).             *)
(*                                                                         *)
(* A timer polls the mailbox.  A poll asks for the mails above the highest *)
(* uid answered, parses them side by side, and then awaits one turn for    *)
(* each; the timer does not wait for the poll before, so polls overlap.    *)
(* Of a mail the model keeps its uid, which the server gives in the order  *)
(* of arrival.                                                             *)
(***************************************************************************)
EXTENDS Naturals, Sequences, FiniteSets

CONSTANTS
  MaxUid,       \* bound: the mails that arrive
  Polls,        \* bound: the polls that may overlap
  MaxRestarts   \* bound: the restarts of the process

ASSUME MailboxAssumption == MaxUid \in Nat /\ MaxRestarts \in Nat

VARIABLES
  box,        \* the highest uid in the mailbox
  timer,      \* the timer: none before the first poll is over, then set, then cleared
  closed,     \* closed
  seenUids,   \* seenUids
  lastUid,    \* lastUid
  poll,       \* what each poll does
  turns,      \* history: the turns of this process, by uid
  unread,     \* history: the mails that a poll of this process dropped
  restarts    \* how often the process has restarted

mailboxVars == <<box, timer, closed, seenUids, lastUid, poll, turns, unread, restarts>>

Uids == 1 .. MaxUid

Max2(a, b) == IF a >= b THEN a ELSE b

\* stage: the poll fetches, goes through its messages, awaits the turn of the last one.
\* parsing: fetched mails whose body is still being parsed; batch: the messages parsed
\* and not yet visited, in the order they were pushed.
NoPoll == [stage |-> "idle", parsing |-> {}, batch |-> <<>>]

\* What the server finds for UID last+1:*, where * stands for the highest uid there is.
Search(last) == {u \in 1 .. box : u > last} \cup (IF box = 0 THEN {} ELSE {box})

\* The test of the loop of pollOnce.
IsNew(u) == u \notin seenUids

InBatch(p) == {poll[p].batch[i] : i \in DOMAIN poll[p].batch}

Underway == {p \in Polls : poll[p].stage # "idle"}

\* listen sets the timer when the first poll is over, though it may be closed by then.
SetsTimer == timer' = IF timer = "none" THEN "set" ELSE timer
-----------------------------------------------------------------------------
MailboxInit ==
  /\ box = 0
  /\ timer = "none" /\ closed = FALSE
  /\ seenUids = {} /\ lastUid = 0
  /\ poll = [p \in Polls |-> NoPoll]
  /\ turns = [u \in Uids |-> 0]
  /\ unread = {}
  /\ restarts = 0

Arrive ==
  /\ box < MaxUid
  /\ box' = box + 1
  /\ UNCHANGED <<timer, closed, seenUids, lastUid, poll, turns, unread, restarts>>

\* pollOnce up to its fetch: called by listen, while nothing else runs, then by the timer.
StartPoll(p) ==
  /\ ~closed
  /\ timer = "set" \/ (timer = "none" /\ Underway = {})
  /\ poll[p].stage = "idle"
  /\ poll' = [poll EXCEPT ![p] = [stage |-> "fetching", parsing |-> Search(lastUid),
                                  batch |-> <<>>]]
  /\ UNCHANGED <<box, timer, closed, seenUids, lastUid, turns, unread, restarts>>

\* The body of a fetched mail is parsed, which may be after the poll resolved.
Parsed(p, u) ==
  /\ poll[p].stage # "idle" /\ u \in poll[p].parsing
  /\ poll' = [poll EXCEPT ![p].parsing = @ \ {u}, ![p].batch = Append(@, u)]
  /\ UNCHANGED <<box, timer, closed, seenUids, lastUid, turns, unread, restarts>>

\* simpleParser fails, which is only logged.
ParseFails(p, u) ==
  /\ poll[p].stage # "idle" /\ u \in poll[p].parsing
  /\ poll' = [poll EXCEPT ![p].parsing = @ \ {u}]
  /\ unread' = unread \cup {u}
  /\ UNCHANGED <<box, timer, closed, seenUids, lastUid, turns, restarts>>

\* The connection ends: the promise resolves with the messages parsed so far.
FetchEnds(p) ==
  /\ poll[p].stage = "fetching"
  /\ poll' = [poll EXCEPT ![p].stage = "reading"]
  /\ UNCHANGED <<box, timer, closed, seenUids, lastUid, turns, unread, restarts>>

\* The connection, the mailbox or the fetch fails: the poll gives its messages up.
FetchFails(p) ==
  /\ poll[p].stage = "fetching"
  /\ poll' = [poll EXCEPT ![p] = NoPoll]
  /\ SetsTimer
  /\ UNCHANGED <<box, closed, seenUids, lastUid, turns, unread, restarts>>

\* The loop of pollOnce takes its next message, and skips it or begins its turn.
Visit(p) ==
  /\ poll[p].stage = "reading" /\ poll[p].batch # <<>>
  /\ LET u == Head(poll[p].batch)
     IN  IF IsNew(u)
         THEN /\ seenUids' = seenUids \cup {u}
              /\ lastUid' = Max2(lastUid, u)
              /\ turns' = [turns EXCEPT ![u] = @ + 1]
              /\ poll' = [poll EXCEPT ![p].stage = "turn", ![p].batch = Tail(@)]
         ELSE /\ poll' = [poll EXCEPT ![p].batch = Tail(@)]
              /\ UNCHANGED <<seenUids, lastUid, turns>>
  /\ UNCHANGED <<box, timer, closed, unread, restarts>>

\* The turn returns or throws, which is only logged.
TurnEnds(p) ==
  /\ poll[p].stage = "turn"
  /\ poll' = [poll EXCEPT ![p].stage = "reading"]
  /\ UNCHANGED <<box, timer, closed, seenUids, lastUid, turns, unread, restarts>>

\* The loop has no message left: what is still being parsed comes too late.
PollEnds(p) ==
  /\ poll[p].stage = "reading" /\ poll[p].batch = <<>>
  /\ unread' = unread \cup poll[p].parsing
  /\ poll' = [poll EXCEPT ![p] = NoPoll]
  /\ SetsTimer
  /\ UNCHANGED <<box, closed, seenUids, lastUid, turns, restarts>>

\* close: polls under way go on with their messages.
Close ==
  /\ ~closed
  /\ closed' = TRUE
  /\ timer' = IF timer = "set" THEN "cleared" ELSE timer
  /\ UNCHANGED <<box, seenUids, lastUid, poll, turns, unread, restarts>>

\* A new process starts from an empty memory.
Restart ==
  /\ restarts < MaxRestarts
  /\ restarts' = restarts + 1
  /\ timer' = "none" /\ closed' = FALSE
  /\ seenUids' = {} /\ lastUid' = 0
  /\ poll' = [p \in Polls |-> NoPoll]
  /\ turns' = [u \in Uids |-> 0]
  /\ unread' = {}
  /\ UNCHANGED box

MailboxNext ==
  \/ Arrive \/ Close \/ Restart
  \/ \E p \in Polls :
       \/ StartPoll(p) \/ FetchEnds(p) \/ FetchFails(p)
       \/ Visit(p) \/ TurnEnds(p) \/ PollEnds(p)
       \/ \E u \in Uids : Parsed(p, u) \/ ParseFails(p, u)

MailboxSpec == MailboxInit /\ [][MailboxNext]_mailboxVars
-----------------------------------------------------------------------------
\* Every variable has its type.
MailboxTypeOK ==
  /\ {box, lastUid} \subseteq 0 .. MaxUid
  /\ timer \in {"none", "set", "cleared"} /\ closed \in BOOLEAN
  /\ seenUids \subseteq 1 .. box /\ unread \subseteq 1 .. box
  /\ poll \in [Polls -> [stage : {"idle", "fetching", "reading", "turn"},
                         parsing : SUBSET Uids, batch : Seq(Uids)]]
  /\ turns \in [Uids -> Nat]
  /\ restarts \in 0 .. MaxRestarts

\* A process answers a mail at most once, though polls overlap, mails are parsed in any
\* order and the server reports the highest uid again and again (the loop of pollOnce).
OneTurnEach == \A u \in Uids : turns[u] <= 1

\* A mail below the highest uid answered, which no later search finds again, has been
\* answered itself, waits in a poll that will come to it, or was given up by a poll that
\* failed to parse it in time (pollOnce and the uid it searches from).
NoMailSkipped ==
  \A u \in 1 .. lastUid :
    \/ turns[u] > 0
    \/ u \in unread
    \/ \E p \in Polls : u \in poll[p].parsing \cup InBatch(p)

\* Each mail the channel has gone past is answered, and once (pollOnce).
EachMailOnce == OneTurnEach /\ NoMailSkipped

\* The mailbox's state is well formed and each mail is answered once (pollOnce).
MailboxInv == MailboxTypeOK /\ EachMailOnce
=============================================================================
