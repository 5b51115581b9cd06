----------------------------- MODULE Http2Pair -----------------------------
(***************************************************************************)
(* Two Http2Connection objects, a client and a server, joined by a         *)
(* transport that delivers the frames of each direction in order.          *)
(* The applications on top use the class as its documentation tells them   *)
(* to: the client opens odd streams in increasing order, a sender never    *)
(* offers more bytes than both send windows hold, and a send that closes   *)
(* the stream is followed by finalizeSendClosedStream.  Otherwise they are *)
(* free: any interleaving of requests, responses, bodies, trailers and     *)
(* resets.  Neither side sends GOAWAY of its own accord, as in the rest of *)
(* the code.                                                               *)
(***************************************************************************)
EXTENDS Http2Endpoint, SequencesExt

CONSTANTS ClientConfig, ServerConfig,
          BodySizes,       \* sizes of one sendData call
          MaxInFlight,     \* bound: an application sends while its wire holds fewer frames,
          MaxReplies       \* and an endpoint reads while its own wire holds fewer

ASSUME PairAssumption ==
  /\ {ClientConfig, ServerConfig} \subseteq Config
  /\ ~ClientConfig.isServer /\ ServerConfig.isServer
  /\ BodySizes \subseteq Nat /\ MaxInFlight \in Nat /\ MaxReplies \in Nat

VARIABLES client, server, toServer, toClient,
          nextId           \* Http2ClientEngine::_nextStreamId

vars == << client, server, toServer, toClient, nextId >>

Init ==
  /\ client = NewConnection(ClientConfig) /\ server = NewConnection(ServerConfig)
  /\ toServer = << >> /\ toClient = << >>
  /\ nextId = 1

-----------------------------------------------------------------------------
(* An endpoint becomes c and its output goes onto the wire. *)

ClientBecomes(c) == client' = Drained(c) /\ toServer' = toServer \o c.out
ServerBecomes(c) == server' = Drained(c) /\ toClient' = toClient \o c.out

ClientReceives ==
  /\ Receiving(client) /\ toClient # << >> /\ Len(toServer) < MaxReplies
  /\ ClientBecomes(ProcessFrame(client, Head(toClient))) /\ toClient' = Tail(toClient)
  /\ UNCHANGED << server, nextId >>

\* The preface is ahead of the client's SETTINGS on the wire.
ServerReceivesPreface ==
  /\ server.state = "AwaitingPreface" /\ toServer # << >>
  /\ ServerBecomes(ProcessPreface(server, TRUE))
  /\ UNCHANGED << client, toServer, nextId >>

ServerReceives ==
  /\ Receiving(server) /\ toServer # << >> /\ Len(toClient) < MaxReplies
  /\ ServerBecomes(ProcessFrame(server, Head(toServer))) /\ toServer' = Tail(toServer)
  /\ UNCHANGED << client, nextId >>

ClientCallbackReturns ==
  /\ client.cb # NoCallback
  /\ ClientBecomes(FinishCallback(client))
  /\ UNCHANGED << server, toClient, nextId >>

ServerCallbackReturns ==
  /\ server.cb # NoCallback
  /\ ServerBecomes(FinishCallback(server))
  /\ UNCHANGED << client, toServer, nextId >>

-----------------------------------------------------------------------------
(* The applications *)

ClientPreface ==
  /\ ~client.settingsSent
  /\ ClientBecomes(SendClientPreface(client))
  /\ UNCHANGED << server, toClient, nextId >>

\* Over TLS the server's SETTINGS do not wait for the client's preface.
ServerPreface ==
  /\ server.state = "AwaitingPreface" /\ ~server.settingsSent
  /\ ServerBecomes(SendServerPreface(server))
  /\ UNCHANGED << client, toServer, nextId >>

\* A send that closes the stream is followed by finalizeSendClosedStream.
Headers(c, sid, endStream) == FinalizeSendClosedStream(SendHeaders(c, sid, 0, endStream), sid)
Body(c, sid, size, endStream) == FinalizeSendClosedStream(SendData(c, sid, size, endStream), sid)

Alive(c) == c.settingsSent /\ c.state \notin {"AwaitingPreface", "Closed"}

ClientOpens ==
  /\ Alive(client) /\ nextId \in StreamId /\ Len(toServer) < MaxInFlight
  /\ SendHeadersError(client, nextId) = "NoError"
  /\ \E endStream \in BOOLEAN : ClientBecomes(Headers(client, nextId, endStream))
  /\ nextId' = nextId + 2
  /\ UNCHANGED << server, toClient >>

\* A response, a body part, trailers or a reset on a stream of the map.  A client
\* has sent its request headers, what may follow are trailers.
Sends(c, wire, Becomes(_)) ==
  /\ Alive(c) /\ Len(wire) < MaxInFlight
  /\ \E sid \in StreamId :
       /\ Has(c, sid)
       /\ \/ \E endStream \in BOOLEAN :
               /\ CanSendHeaders(c.streams[sid]) /\ (endStream \/ c.cfg.isServer)
               /\ Becomes(Headers(c, sid, endStream))
          \/ \E size \in BodySizes, endStream \in BOOLEAN :
               SendDataError(c, sid, size) = "NoError" /\ Becomes(Body(c, sid, size, endStream))
          \/ ~IsClosed(c.streams[sid]) /\ Becomes(SendRstStream(c, sid))

ClientSends == Sends(client, toServer, ClientBecomes) /\ UNCHANGED << server, toClient, nextId >>
ServerSends == Sends(server, toClient, ServerBecomes) /\ UNCHANGED << client, toServer, nextId >>

Next ==
  \/ ClientPreface
  \/ ServerPreface
  \/ ServerReceivesPreface
  \/ ClientReceives
  \/ ServerReceives
  \/ ClientCallbackReturns
  \/ ServerCallbackReturns
  \/ ClientOpens
  \/ ClientSends
  \/ ServerSends

Spec == Init /\ [][Next]_vars

-----------------------------------------------------------------------------
(* Properties *)

\* Both connections and both wires keep their types.
TypeOK ==
  /\ client \in Connection /\ server \in Connection
  /\ toServer \in Seq(Frame) /\ toClient \in Seq(Frame)
  /\ nextId \in Nat

\* Flow-controlled bytes of a stream (of all, for 0) and credit on a wire.
DataOn(wire, sid) ==
  FoldSeq(LAMBDA f, sum : sum + (IF f.type = "DATA" /\ sid \in {0, f.sid} THEN f.n ELSE 0), 0, wire)
CreditOn(wire, sid) ==
  FoldSeq(LAMBDA f, sum : sum + (IF f.type = "WINDOW_UPDATE" /\ f.sid = sid THEN f.n ELSE 0), 0, wire)

\* What receiver r may still get from sender s on the connection is what s may
\* still send, plus what is under way, plus the credit under way.
ConnectionCredit(s, r, data, credit) ==
  r.settingsSent => r.recvWindow = s.sendWindow + DataOn(data, 0) + CreditOn(credit, 0)

StreamCredit(s, r, data, credit) ==
  \A sid \in StreamId :
    {s.streams[sid].state, r.streams[sid].state} \cap {"Absent", "Closed"} = {} =>
      r.streams[sid].recvWindow = s.streams[sid].sendWindow + DataOn(data, sid) + CreditOn(credit, sid)

\* The two ends of every flow-control window never drift apart: for the
\* connection and for every open stream, in both directions, the receiver's
\* window is the sender's window plus what is on the wires, whatever mix of DATA,
\* resets and window updates crosses.
CreditConserved ==
  Alive(client) /\ Alive(server) =>
    /\ ConnectionCredit(client, server, toServer, toClient)
    /\ ConnectionCredit(server, client, toClient, toServer)
    /\ StreamCredit(client, server, toServer, toClient)
    /\ StreamCredit(server, client, toClient, toServer)

\* Two endpoints that use the class as documented never tear the connection
\* down, however their requests, responses, trailers and resets cross.
NoConnectionError == client.state # "Closed" /\ server.state # "Closed"

Quiet ==
  /\ Alive(client) /\ Alive(server)
  /\ toServer = << >> /\ toClient = << >>
  /\ client.cb = NoCallback /\ server.cb = NoCallback

\* The state the other end should see.
Mirror(state) ==
  CASE state = "Open" -> "Open"
    [] state = "HalfClosedLocal" -> "HalfClosedRemote"
    [] state = "HalfClosedRemote" -> "HalfClosedLocal"
    [] OTHER -> "Gone"

\* Once everything sent has been received, client and server agree on the state
\* of every stream: no stream is left half-open on one side only.
StatesAgree ==
  Quiet => \A sid \in StreamId :
             Mirror(Mirror(client.streams[sid].state)) = Mirror(server.streams[sid].state)

\* "We restore the consumed bytes immediately to avoid stalling peers on large
\* transfers" (handleDataFrame): once everything sent has been received, the
\* server's connection window is as wide as configured.
CreditRestored == Quiet => server.recvWindow = server.cfg.connectionWindow

\* SETTINGS_INITIAL_WINDOW_SIZE is the "initial flow control window size for
\* streams" (http2-config.hpp): the server accepts on a stream all that it has
\* allowed the client to send there.
StreamWindowHonoured ==
  \A sid \in StreamId :
    {client.streams[sid].state, server.streams[sid].state} \cap {"Absent", "Closed"} = {} =>
      server.streams[sid].recvWindow >= client.streams[sid].sendWindow + DataOn(toServer, sid)
=============================================================================
