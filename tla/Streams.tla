--------------------------------- MODULE Streams ---------------------------------
(***************************************************************************)
(* The channels that keep a connection open to answer on: server-sent      *)
(* events (packages/runtime/src/channels/sse.ts) and WebSocket             *)
(* (packages/runtime/src/channels/websocket.ts).                           *)
(*                                                                         *)
(* A browser names itself when it opens an event stream, and may open a    *)
(* new one before the old one's close event has come; a WebSocket client   *)
(* is named by the server.  The turn of a message ends much later, when    *)
(* the connection it was asked on may be gone.                             *)
(***************************************************************************)
EXTENDS Naturals, FiniteSets

CONSTANTS
  Clients,   \* the names browsers give themselves
  Streams,   \* bound: the event streams there may be, opened in this order
  Sockets,   \* bound: the WebSocket connections there may be
  Sessions,  \* the Sessions of the catalog
  Turns,     \* bound: the turns that may be under way
  Nobody     \* no client, no stream, no Session

ASSUME StreamsAssumption == Streams \subseteq Nat /\ Nobody \notin Clients \cup Streams \cup Sessions

VARIABLES
  stream,     \* each event stream: [of, state]
  responses,  \* responses: the stream registered for each client
  sockets,    \* sockets: the open connections, by the id of their client
  asked,      \* the sockets there have been
  overrides,  \* sessionOverrides
  status,     \* the catalog's status of each Session
  turn,       \* what each turn answers: [to, via, session]
  shut        \* closed, of both channels

streamVars == <<stream, responses, sockets, asked, overrides, status, turn, shut>>

NoTurn == [to |-> Nobody, via |-> "none", session |-> Nobody]

Fresh == [of |-> Nobody, state |-> "none"]

\* The test of the close handler: the entry may belong to a newer stream by now.
IsRegistered(s) == responses[stream[s].of] = s

\* The entry of a client after it opens stream s.
EntryFor(c, s) == s

\* send finds a stream or a socket it can write to.
CanWrite(c) == responses[c] # Nobody /\ stream[responses[c]].state = "open"

OpenStreams(c) == {s \in Streams : stream[s].of = c /\ stream[s].state = "open"}
-----------------------------------------------------------------------------
StreamsInit ==
  /\ stream = [s \in Streams |-> Fresh]
  /\ responses = [c \in Clients |-> Nobody]
  /\ sockets = {} /\ asked = {}
  /\ overrides = [k \in Sockets |-> Nobody]
  /\ status = [i \in Sessions |-> "none"]
  /\ turn = [t \in Turns |-> NoTurn]
  /\ shut = FALSE

\* handleRequest, GET /events: the stream before is ended, its close event comes later.
OpenStream(c, s) ==
  /\ ~shut
  /\ stream[s] = Fresh /\ \A r \in Streams : r < s => stream[r] # Fresh
  /\ stream' = [r \in Streams |->
       IF r = s THEN [of |-> c, state |-> "open"]
       ELSE IF r = responses[c] /\ stream[r].state = "open"
            THEN [stream[r] EXCEPT !.state = "ended"] ELSE stream[r]]
  /\ responses' = [responses EXCEPT ![c] = EntryFor(c, s)]
  /\ UNCHANGED <<sockets, asked, overrides, status, turn, shut>>

\* The close event of a stream that was ended, or whose browser went away.
StreamCloses(s) ==
  /\ stream[s].state \in {"open", "ended"}
  /\ stream' = [stream EXCEPT ![s].state = "gone"]
  /\ responses' = IF IsRegistered(s)
                  THEN [responses EXCEPT ![stream[s].of] = Nobody] ELSE responses
  /\ UNCHANGED <<sockets, asked, overrides, status, turn, shut>>

\* handlePost with some content: accepted at once, answered on the stream of its client.
\* The body may have been under way when the channel closed.
Post(c, t) ==
  /\ turn[t] = NoTurn
  /\ turn' = [turn EXCEPT ![t] = [to |-> c, via |-> "sse", session |-> Nobody]]
  /\ UNCHANGED <<stream, responses, sockets, asked, overrides, status, shut>>

\* A WebSocket client connects, and is given an id of its own.
Connect(k) ==
  /\ ~shut /\ k \notin asked
  /\ sockets' = sockets \cup {k} /\ asked' = asked \cup {k}
  /\ UNCHANGED <<stream, responses, overrides, status, turn, shut>>

\* The close event: overrides of the client stay.
Disconnect(k) ==
  /\ k \in sockets
  /\ sockets' = sockets \ {k}
  /\ UNCHANGED <<stream, responses, asked, overrides, status, turn, shut>>

\* handleMessage of a text: its turn goes to the Session chosen before, if any.
Say(k, t) ==
  /\ k \in sockets /\ turn[t] = NoTurn
  /\ turn' = [turn EXCEPT ![t] = [to |-> k, via |-> "websocket", session |-> overrides[k]]]
  /\ UNCHANGED <<stream, responses, sockets, asked, overrides, status, shut>>

\* handleControlMessage, new_session.
NewSession(k, i) ==
  /\ k \in sockets /\ status[i] = "none"
  /\ status' = [status EXCEPT ![i] = "open"]
  /\ overrides' = [overrides EXCEPT ![k] = i]
  /\ UNCHANGED <<stream, responses, sockets, asked, turn, shut>>

\* handleControlMessage, use_session, which opens a closed Session again.
UseSession(k, i) ==
  /\ k \in sockets /\ status[i] # "none"
  /\ status' = [status EXCEPT ![i] = "open"]
  /\ overrides' = [overrides EXCEPT ![k] = i]
  /\ UNCHANGED <<stream, responses, sockets, asked, turn, shut>>

\* A Session is closed by somebody else: the overrides stay.
CloseSession(i) ==
  /\ status[i] = "open"
  /\ status' = [status EXCEPT ![i] = "closed"]
  /\ UNCHANGED <<stream, responses, sockets, asked, overrides, turn, shut>>

\* The turn ends: send writes its answer, or the error it failed with, or warns that the
\* client is not found.
Answer(t) ==
  /\ turn[t] # NoTurn
  /\ turn' = [turn EXCEPT ![t] = NoTurn]
  /\ UNCHANGED <<stream, responses, sockets, asked, overrides, status, shut>>

\* close of both channels: streams are ended, sockets terminated.
CloseChannels ==
  /\ ~shut
  /\ shut' = TRUE
  /\ stream' = [s \in Streams |-> IF \E c \in Clients : responses[c] = s /\ CanWrite(c)
                                  THEN [stream[s] EXCEPT !.state = "ended"] ELSE stream[s]]
  /\ responses' = [c \in Clients |-> Nobody]
  /\ sockets' = {}
  /\ UNCHANGED <<asked, overrides, status, turn>>

StreamsNext ==
  \/ \E c \in Clients : \/ \E s \in Streams : OpenStream(c, s)
                        \/ \E t \in Turns : Post(c, t)
  \/ \E s \in Streams : StreamCloses(s)
  \/ \E k \in Sockets : \/ Connect(k) \/ Disconnect(k)
                        \/ \E i \in Sessions : NewSession(k, i) \/ UseSession(k, i)
                        \/ \E t \in Turns : Say(k, t)
  \/ \E i \in Sessions : CloseSession(i)
  \/ \E t \in Turns : Answer(t)
  \/ CloseChannels

StreamsSpec == StreamsInit /\ [][StreamsNext]_streamVars
-----------------------------------------------------------------------------
\* Every variable has its type.
StreamsTypeOK ==
  /\ stream \in [Streams -> [of : Clients \cup {Nobody},
                             state : {"none", "open", "ended", "gone"}]]
  /\ responses \in [Clients -> Streams \cup {Nobody}]
  /\ sockets \subseteq asked /\ asked \subseteq Sockets
  /\ overrides \in [Sockets -> Sessions \cup {Nobody}]
  /\ status \in [Sessions -> {"none", "open", "closed"}]
  /\ turn \in [Turns -> [to : Clients \cup Sockets \cup {Nobody},
                         via : {"none", "sse", "websocket"}, session : Sessions \cup {Nobody}]]
  /\ shut \in BOOLEAN

\* The stream a client opened last is the one its answers go to, and the only one left
\* open, until it closes: the late close event of an older stream takes neither away
\* (handleRequest and send of the event stream channel).
NewestStreamServed ==
  \A c \in Clients :
    OpenStreams(c) = IF CanWrite(c) THEN {responses[c]} ELSE {}

\* The channels' state is well formed and the newest stream is the one served (send).
StreamsInv == StreamsTypeOK /\ NewestStreamServed
=============================================================================
