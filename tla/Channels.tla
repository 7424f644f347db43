--------------------------------- MODULE Channels ---------------------------------
(***************************************************************************)
(* The channels of the gateway together: the mailbox, the connections that *)
(* stay open, and the chats.  They share no state and no step.             *)
(***************************************************************************)
EXTENDS Mailbox, Streams, Bots

ChannelsSpec == MailboxSpec /\ StreamsSpec /\ BotsSpec

\* What comes in by a channel is answered, once, and where it came from: the mails
\* (email.ts), the event streams (sse.ts) and the chats (slack.ts, telegram.ts, cli.ts).
ChannelsInv == MailboxInv /\ StreamsInv /\ BotsInv
=============================================================================
