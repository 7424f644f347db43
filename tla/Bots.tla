----------------------------------- MODULE Bots -----------------------------------
(***************************************************************************)
(* The channels that answer people in a chat: Slack, Telegram and the      *)
(* terminal's line editor (packages/runtime/src/channels/slack.ts,         *)
(* telegram.ts, cli.ts), one of them, from listen to close.                *)
(*                                                                         *)
(* Every message has a handler of its own, which awaits the services and   *)
(* the turn, so that handlers overlap with each other and with close.  The *)
(* turn itself calls send of the channel (bridge/pi-agent.ts) and may      *)
(* throw before and after.  Of a message the model keeps who wrote it,     *)
(* where, whom it addresses and whether it is more than an address.        *)
(***************************************************************************)
EXTENDS Naturals, FiniteSets

CONSTANTS
  Inbound,    \* bound: the messages that arrive
  Users, Chats,
  Bot         \* the bot's own user id

ASSUME BotAssumption == Bot \notin Users

VARIABLES
  kind,           \* which channel it is
  allowedUsers,   \* allowedUsers
  allowedChats,   \* allowedChats, of Telegram only
  app,            \* app, or bot: not there, created, started, stopping, gone
  closed_,        \* closed
  message,        \* the messages that have arrived
  handling,       \* where the handler of each is
  posted,         \* what has been posted for each: a reply, an error
  unsent,         \* history: the messages for which something could not be posted
  unfiltered      \* history: the messages whose handler could not ask for the bot's id

botVars ==
  <<kind, allowedUsers, allowedChats, app, closed_, message, handling, posted, unsent,
    unfiltered>>

NoMessage == [from |-> Bot, chat |-> "none", to |-> "nobody", empty |-> TRUE]

\* to: the text starts with @phus, mentions its own sender, mentions the bot, or nobody.
Message ==
  [from : Users \cup {Bot}, chat : Chats \cup {"direct"},
   to : {"phus", "sender", "bot", "nobody"}, empty : BOOLEAN]

\* isAllowed: for Telegram either list will do, and two empty ones let everybody in.
IsAllowed(m) ==
  \/ kind = "cli"
  \/ allowedUsers = {} /\ allowedChats = {}
  \/ m.from \in allowedUsers
  \/ kind = "telegram" /\ m.chat \in allowedChats

\* Only direct messages and mentions: Slack looks for the sender's own id in the text.
IsMeant(m) == kind = "slack" => m.chat = "direct" \/ m.to \in {"phus", "sender"}

\* The text that is left when Slack's mentions, or the line's blanks, are removed.
HasContent(m) == kind = "telegram" \/ ~m.empty

\* Mutant: the bot's own messages are not recognised.
NeverOwn(m) == FALSE

\* The test for our own messages.
IsOwn(m) == m.from = Bot

Over == {"none", "ignored", "done", "killed"}
-----------------------------------------------------------------------------
BotsInit ==
  /\ kind \in {"slack", "telegram", "cli"}
  /\ allowedUsers \in (IF kind = "cli" THEN {{}} ELSE SUBSET (Users \cup {Bot}))
  /\ allowedChats \in (IF kind = "telegram" THEN SUBSET Chats ELSE {{}})
  /\ app = "none" /\ closed_ = FALSE
  /\ message = [i \in Inbound |-> NoMessage]
  /\ handling = [i \in Inbound |-> "none"]
  /\ posted = [i \in Inbound |-> {}]
  /\ unsent = {} /\ unfiltered = {}

NoHandler == UNCHANGED <<message, handling, posted, unsent, unfiltered>>

\* listen up to the start of the service.  Without its tokens it throws.
ListenBot ==
  /\ app = "none" /\ ~closed_
  /\ app' = IF kind = "cli" THEN "started" ELSE "created"
  /\ UNCHANGED <<kind, allowedUsers, allowedChats, closed_>> /\ NoHandler

\* start or launch gets through and messages arrive; when it rejects so does listen, and
\* none does.
StartBot ==
  /\ app = "created"
  /\ app' = "started"
  /\ UNCHANGED <<kind, allowedUsers, allowedChats, closed_>> /\ NoHandler

\* A message arrives, and its handler runs up to its first await.  Slack reports what the
\* bot has posted as well.
ArriveMessage(i, m) ==
  /\ app = "started" /\ ~closed_
  /\ handling[i] = "none"
  /\ IF kind = "slack" THEN m.from = Bot => \E j \in Inbound : posted[j] # {}
     ELSE m.from # Bot
  /\ kind = "cli" => m.chat = "direct"
  /\ message' = [message EXCEPT ![i] = m]
  /\ handling' = [handling EXCEPT ![i] =
                    IF kind = "slack" THEN "auth"
                    ELSE IF IsAllowed(m) /\ HasContent(m) THEN "turn" ELSE "ignored"]
  /\ UNCHANGED <<kind, allowedUsers, allowedChats, app, closed_, posted, unsent, unfiltered>>

\* auth.test answers who the bot is, or throws and is done without.
Authenticated(i, ok) ==
  /\ handling[i] = "auth"
  /\ handling' = [handling EXCEPT ![i] =
                    IF (ok => ~IsOwn(message[i])) /\ IsAllowed(message[i])
                         /\ IsMeant(message[i]) /\ HasContent(message[i])
                    THEN "turn" ELSE "ignored"]
  /\ unfiltered' = unfiltered \cup (IF ok THEN {} ELSE {i})
  /\ UNCHANGED <<kind, allowedUsers, allowedChats, app, closed_, message, posted, unsent>>

\* The turn gets to send: without the app, or the bot, it returns; a post that fails is
\* only logged.
SendReply(i, ok) ==
  /\ handling[i] = "turn"
  /\ handling' = [handling EXCEPT ![i] = "sent"]
  /\ IF app # "gone" /\ ok
     THEN posted' = [posted EXCEPT ![i] = @ \cup {"reply"}] /\ UNCHANGED unsent
     ELSE unsent' = unsent \cup {i} /\ UNCHANGED posted
  /\ UNCHANGED <<kind, allowedUsers, allowedChats, app, closed_, message, unfiltered>>

\* The turn returns.
TurnReturns(i) ==
  /\ handling[i] = "sent"
  /\ handling' = [handling EXCEPT ![i] = "done"]
  /\ UNCHANGED <<kind, allowedUsers, allowedChats, app, closed_, message, posted, unsent,
                 unfiltered>>

\* The turn throws, before or after its send.
TurnThrows(i) ==
  /\ handling[i] \in {"turn", "sent"}
  /\ handling' = [handling EXCEPT ![i] = "error"]
  /\ UNCHANGED <<kind, allowedUsers, allowedChats, app, closed_, message, posted, unsent,
                 unfiltered>>

\* The error is posted with a function of the message's own, which works without the app
\* as well; a second failure is ignored.
PostError(i, ok) ==
  /\ handling[i] = "error"
  /\ handling' = [handling EXCEPT ![i] = "done"]
  /\ IF ok THEN posted' = [posted EXCEPT ![i] = @ \cup {"error"}] /\ UNCHANGED unsent
     ELSE unsent' = unsent \cup {i} /\ UNCHANGED posted
  /\ UNCHANGED <<kind, allowedUsers, allowedChats, app, closed_, message, unfiltered>>

\* close of the two services: handlers go on, and send until the stop is over.
CloseBot ==
  /\ kind # "cli" /\ ~closed_
  /\ closed_' = TRUE
  /\ app' = IF app = "none" THEN app ELSE "stopping"
  /\ UNCHANGED <<kind, allowedUsers, allowedChats>> /\ NoHandler

\* The stop is over.  One that throws leaves Telegram's bot.
BotStopped(ok) ==
  /\ app = "stopping"
  /\ app' = IF kind = "telegram" /\ ~ok THEN "started" ELSE "gone"
  /\ UNCHANGED <<kind, allowedUsers, allowedChats, closed_>> /\ NoHandler

\* The end of the input, /quit, ,quit or close: the process exits, whatever its turns do.
CloseLines ==
  /\ kind = "cli" /\ app = "started" /\ ~closed_
  /\ closed_' = TRUE /\ app' = "gone"
  /\ handling' = [i \in Inbound |-> IF handling[i] \in Over THEN handling[i] ELSE "killed"]
  /\ UNCHANGED <<kind, allowedUsers, allowedChats, message, posted, unsent, unfiltered>>

BotsNext ==
  \/ ListenBot \/ StartBot \/ CloseBot \/ CloseLines
  \/ \E ok \in BOOLEAN : BotStopped(ok)
  \/ \E i \in Inbound :
       \/ \E m \in Message : ArriveMessage(i, m)
       \/ TurnReturns(i) \/ TurnThrows(i)
       \/ \E ok \in BOOLEAN : Authenticated(i, ok) \/ SendReply(i, ok) \/ PostError(i, ok)

BotsSpec == BotsInit /\ [][BotsNext]_botVars
-----------------------------------------------------------------------------
\* Every variable has its type.
BotsTypeOK ==
  /\ kind \in {"slack", "telegram", "cli"}
  /\ allowedUsers \subseteq Users \cup {Bot} /\ allowedChats \subseteq Chats
  /\ app \in {"none", "created", "started", "stopping", "gone"} /\ closed_ \in BOOLEAN
  /\ message \in [Inbound -> Message \cup {NoMessage}]
  /\ handling \in [Inbound -> Over \cup {"auth", "turn", "sent", "error"}]
  /\ posted \in [Inbound -> SUBSET {"reply", "error"}]
  /\ unsent \subseteq Inbound /\ unfiltered \subseteq Inbound

\* A message that got a turn is answered, with a reply or an error, unless the posting
\* itself failed; the end of the terminal's input is the one thing that leaves a turn
\* without an answer (handleMessage, handleText, send and close).
EveryTurnAnswers ==
  /\ \A i \in Inbound : handling[i] = "done" => posted[i] # {} \/ i \in unsent
  /\ \A i \in Inbound : handling[i] = "killed" => kind = "cli" /\ closed_

\* The bot does not answer itself, and so does not talk to itself for ever, unless it could
\* not learn who it is (handleMessage of slack.ts).
NoEcho ==
  \A i \in Inbound :
    message[i].from = Bot /\ handling[i] \notin {"none", "auth", "ignored"} => i \in unfiltered

\* The channel's state is well formed, it answers whom it heard and not itself.
BotsInv == BotsTypeOK /\ EveryTurnAnswers /\ NoEcho
=============================================================================
