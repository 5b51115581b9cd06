---------------------------- MODULE Http2Handler ----------------------------
(***************************************************************************)
(* The server's side of an HTTP/2 connection: Http2ProtocolHandler         *)
(* (http2/src/http2-protocol-handler.cpp) on top of the connection object  *)
(* of Http2Endpoint, with the part of SingleHttpServer that drives it: the *)
(* input loop processSpecialProtocolHandler, completions of asynchronous   *)
(* handlers, the sweep of request deadlines and the upstream sockets of    *)
(* CONNECT tunnels.                                                        *)
(*                                                                         *)
(* The handler is a record h.  As in Http2Endpoint a method is an operator *)
(* that takes h and gives the h it leaves behind; the callbacks that the   *)
(* connection makes while it processes a frame happen inside of it.  What  *)
(* the application does with a request is an answer of the set app.        *)
(* Of the output only its presence is kept: h.output says that the         *)
(* connection holds bytes that drainOutputBuffer has not taken.  An assert *)
(* that fails, or the use of a map entry that is gone, ends the behaviour  *)
(* (h.aborted).                                                            *)
(***************************************************************************)
EXTENDS Http2Endpoint, SequencesExt

CONSTANTS ServerConfig,
          Incoming,      \* the frames the client may send
          Applications,  \* what an application does: a set of answers each, see Answer
          Fds,           \* file descriptors of upstream sockets
          MaxUpstream    \* bound: bytes of an upstream read ahead

NoFd == 0
ClientIds == {s \in StreamId : s % 2 = 1}

\* What becomes of a request: what decides the path through the handler, the
\* rest describes the response.  A "short" file ends before its length, and a
\* file is sent without trailers.
Answer == {a \in [what     : {"none", "early", "reset", "discard", "reply", "stream", "async",
                             "async now", "connect", "refuse", "broken"},
                 body     : Nat,
                 source   : {"memory", "file", "short"},
                 trailers : BOOLEAN,
                 timed    : BOOLEAN] : a.trailers => a.source = "memory"}

ASSUME HandlerAssumption ==
  /\ ServerConfig \in Config /\ ServerConfig.isServer
  /\ Incoming \subseteq Frame /\ Applications \subseteq SUBSET Answer
  /\ Fds \subseteq Nat \ {NoFd} /\ MaxUpstream \in Nat

VARIABLES h,
          pc,    \* where the server is in processSpecialProtocolHandler
          app    \* the answers of the application that runs

vars == << h, pc, app >>

\* StreamState: request says hasRequest(), pending which alternative of
\* PendingWork is there, left and trailers what it still has to send.
Entry == [present  : BOOLEAN,
          request  : BOOLEAN,
          pending  : {"none", "memory", "file", "short", "async"},
          left     : Nat,
          trailers : BOOLEAN,
          fd       : Fds \cup {NoFd},
          timed    : BOOLEAN]

NoEntry == [present |-> FALSE, request |-> FALSE, pending |-> "none", left |-> 0,
            trailers |-> FALSE, fd |-> NoFd, timed |-> FALSE]

\* The ConnectionState of an upstream socket; sid is its peerStreamId, 0 when
\* there is no such socket.
Upstream == [sid : 0 .. MaxStreamId, connecting : BOOLEAN, buffered : 0 .. MaxUpstream,
             eof : BOOLEAN]
NoUpstream == [sid |-> 0, connecting |-> FALSE, buffered |-> 0, eof |-> FALSE]

Handler == [conn    : Connection,
            output  : BOOLEAN,
            streams : [StreamId -> Entry],
            tunnels : [Fds -> 0 .. MaxStreamId],    \* _tunnelUpstreams
            up      : [Fds -> Upstream],
            aborted : BOOLEAN]

\* A connection that has read the client's preface and SETTINGS and has sent its own.
Init ==
  /\ h = [conn    |-> Drained(SettingsSeen(ProcessPreface(NewConnection(ServerConfig), TRUE))),
          output  |-> FALSE,
          streams |-> [s \in StreamId |-> NoEntry],
          tunnels |-> [fd \in Fds |-> 0],
          up      |-> [fd \in Fds |-> NoUpstream],
          aborted |-> FALSE]
  /\ pc = "idle"
  /\ app \in Applications

-----------------------------------------------------------------------------
(* The connection underneath *)

Erase(g, sid) == [g EXCEPT !.streams[sid] = NoEntry]

\* cleanupTunnel, with closeTunnel of the bridge.
CleanupTunnel(g, sid) ==
  LET fd == g.streams[sid].fd
  IN  IF fd = NoFd THEN g
      ELSE [g EXCEPT !.tunnels[fd] = 0, !.streams[sid].fd = NoFd, !.up[fd] = NoUpstream]

\* Mutated: the upstream of a closed stream is forgotten.
EraseOnly(g, sid) == Erase(g, sid)

\* Mutated: the entry of a closed stream stays.
CleanupOnly(g, sid) == CleanupTunnel(g, sid)

\* onStreamClosed and onStreamReset
OnStreamClosed(g, sid) == Erase(CleanupTunnel(g, sid), sid)

\* A call on the connection gives c: its output waits, and if it has reported
\* a stream closed the callbacks have run.
Becomes(g, c) ==
  LET d      == [g EXCEPT !.conn = Drained(c), !.output = @ \/ c.out # << >>]
      closed == {s \in StreamId : c.streams[s].closedNotified /\ ~g.conn.streams[s].closedNotified}
  IN  IF closed = {} THEN d ELSE OnStreamClosed(d, CHOOSE s \in closed : TRUE)

Asserting(g, holds) == IF holds THEN g ELSE [g EXCEPT !.aborted = TRUE]


Credit(g, sid) == Min({g.conn.streams[sid].sendWindow, g.conn.sendWindow})

-----------------------------------------------------------------------------
(* Responses *)

\* As much of a body as the windows let through, and the trailers after its end.
SendPart(g, sid, left, trailers) ==
  LET n    == Min({left, Credit(g, sid)})
      data == IF n = 0 THEN g
              ELSE Asserting(Becomes(g, SendData(g.conn, sid, n, n = left /\ ~trailers)),
                             SendDataError(g.conn, sid, n) = "NoError")
  IN  IF n = left /\ trailers THEN Becomes(data, SendHeaders(data.conn, sid, 0, TRUE)) ELSE data

Defer(g, sid, source, left, trailers) ==
  [g EXCEPT !.streams[sid].present = TRUE, !.streams[sid].pending = source,
            !.streams[sid].left = left, !.streams[sid].trailers = trailers]

\* A file that cannot be read is noticed when there is a window to fill.
SendResponse(g, sid, a) ==
  LET ends == a.body = 0 /\ ~a.trailers
      d    == Asserting(Becomes(g, SendHeaders(g.conn, sid, 0, ends)),
                        SendHeadersError(g.conn, sid) = "NoError")
      win  == Credit(d, sid)
      e    == SendPart(d, sid, a.body, a.trailers)
  IN  IF d.aborted \/ ends \/ (a.source = "short" /\ win > 0) THEN d
      ELSE IF a.body <= win THEN e
      ELSE Defer(e, sid, a.source, a.body - win, a.trailers)

\* Http2WriterTransport: a body, written in one piece, is sent at once or, when
\* the windows are too small for it, kept whole for later, as a file always is.
WriteBody(g, sid, a) ==
  LET data == IF a.body = 0 THEN g ELSE Becomes(g, SendData(g.conn, sid, a.body, FALSE))
  IN  IF a.source # "memory" \/ a.body > Credit(g, sid)
      THEN Defer(g, sid, a.source, a.body, a.trailers)
      ELSE IF a.trailers THEN Becomes(data, SendHeaders(data.conn, sid, 0, TRUE))
      ELSE Becomes(data, SendData(data.conn, sid, 0, TRUE))

\* handleStreamingRequest: the entry stays, without its request.
StreamingRequest(g, sid, a) ==
  [WriteBody(Becomes(g, SendHeaders(g.conn, sid, 0, FALSE)), sid, a)
    EXCEPT !.streams[sid].request = FALSE]

\* Mutated: the entry goes although a body is deferred.
SettleErases(g, sid) == Erase(g, sid)

\* The end of dispatchRequest: a deferred body keeps the entry.
Settle(g, sid) ==
  IF g.streams[sid].pending # "none" THEN [g EXCEPT !.streams[sid].request = FALSE]
  ELSE Erase(g, sid)

\* Mutated: the closed stream is not finalized.
AsyncTaskCompletedOnly(g, sid, a) ==
  Settle(SendResponse([g EXCEPT !.streams[sid].pending = "none"], sid, a), sid)

\* onAsyncTaskCompleted
AsyncTaskCompleted(g, sid, a) ==
  LET d == Settle(SendResponse([g EXCEPT !.streams[sid].pending = "none"], sid, a), sid)
  IN  IF d.streams[sid].present THEN d
      ELSE Becomes(d, FinalizeSendClosedStream(d.conn, sid))

\* startAsyncHandler: the coroutine suspends, or completes at once.
StartAsync(g, sid, a) ==
  IF a.what = "async now" THEN AsyncTaskCompleted(g, sid, a)
  ELSE [g EXCEPT !.streams[sid].request = FALSE, !.streams[sid].pending = "async"]

-----------------------------------------------------------------------------
(* CONNECT tunnels *)

\* closeConnection of an upstream socket, with closeTunnelByUpstreamFd: the
\* tunnel's stream is ended, whatever sendData returns.
CloseUpstream(g, fd) ==
  LET sid == g.tunnels[fd]
      d   == [g EXCEPT !.tunnels[fd] = 0, !.up[fd] = NoUpstream]
  IN  IF sid = 0 THEN d
      ELSE LET e == IF d.streams[sid].present THEN [d EXCEPT !.streams[sid].fd = NoFd] ELSE d
           IN  Becomes(e, SendData(e.conn, sid, 0, TRUE))

\* handleConnectRequest once a socket is there.  sendHeaders comes first: it is
\* asserted to succeed.
OpenTunnel(g, sid, fd) ==
  LET d == Asserting(Becomes(g, SendHeaders(g.conn, sid, 0, FALSE)),
                     SendHeadersError(g.conn, sid) = "NoError")
  IN  [d EXCEPT !.streams[sid].fd = fd, !.streams[sid].request = FALSE, !.tunnels[fd] = sid,
                !.up[fd] = [NoUpstream EXCEPT !.sid = sid, !.connecting = TRUE]]

\* tunnelConnectFailed, then closeConnection of the upstream.
TunnelConnectFailed(g, fd) ==
  LET sid == g.up[fd].sid
      d   == IF g.streams[sid].fd = NoFd THEN g
             ELSE [g EXCEPT !.tunnels[g.streams[sid].fd] = 0, !.streams[sid].fd = NoFd]
  IN  CloseUpstream(Becomes(d, SendRstStream(d.conn, sid)), fd)

-----------------------------------------------------------------------------
(* Deferred bodies *)

\* One round of flushPendingFileSends or flushPendingStreamingSends for a
\* stream.  When a file cannot be read the stream is reset, the callback erases
\* the entry, and the round goes on with the erased entry.
FlushOne(g, sid, sources) ==
  LET e    == g.streams[sid]
      left == e.left - Min({e.left, Credit(g, sid)})
      d    == Asserting(SendPart(g, sid, e.left, e.trailers), Has(g.conn, sid))
      done == [d EXCEPT !.streams[sid].pending = "none"]
  IN  IF ~e.present \/ e.pending \notin sources THEN g
      ELSE IF e.pending = "short" /\ e.left > left
      THEN [Becomes(g, SendRstStream(g.conn, sid)) EXCEPT !.aborted = TRUE]
      ELSE IF left > 0 THEN [d EXCEPT !.streams[sid].left = left]
      ELSE IF e.request \/ e.fd # NoFd THEN done
      ELSE Becomes(Erase(d, sid), FinalizeSendClosedStream(d.conn, sid))

FlushAll(g, order, sources) ==
  FoldLeft(LAMBDA d, sid : FlushOne(d, sid, sources), g, order)

\* flushPendingFileSends, flushPendingStreamingSends; order is the map's.
Flush(g, order) == FlushAll(FlushAll(g, order, {"file", "short"}), order, {"memory"})

\* Mutated: onOutputWritten flushes files only.
DrainFlushingFiles(g, order) ==
  IF g.output THEN FlushAll([g EXCEPT !.output = FALSE], order, {"file", "short"}) ELSE g

\* drainOutputBuffer: onOutputWritten flushes after the output has been taken.
Drain(g, order) == IF g.output THEN Flush([g EXCEPT !.output = FALSE], order) ELSE g

\* Mutated: a whole window is taken from the buffer, whatever it holds.
InjectWindow(g, fd, order) ==
  LET sid == g.up[fd].sid
      n   == Credit(g, sid)
  IN  IF n = 0 THEN g
      ELSE Drain(Becomes([g EXCEPT !.up[fd].buffered = @ - n],
                         SendData(g.conn, sid, n, FALSE)), order)

\* handleInH2Tunneling for what has been read from an upstream, and the close
\* that its result asks for.
Inject(g, fd, order) ==
  LET sid == g.up[fd].sid
      n   == Min({g.up[fd].buffered, Credit(g, sid)})
      d   == IF n = 0 THEN g
             ELSE Drain(Becomes([g EXCEPT !.up[fd].buffered = @ - n],
                                SendData(g.conn, sid, n, FALSE)), order)
  IN  IF ~Has(g.conn, sid) \/ (n > 0 /\ SendDataError(g.conn, sid, n) # "NoError")
      THEN CloseUpstream(g, fd)
      ELSE IF d.up[fd].buffered = 0 /\ d.up[fd].eof THEN CloseUpstream(d, fd)
      ELSE d

-----------------------------------------------------------------------------
(* The callbacks of the connection *)

FreeFds(g) == {fd \in Fds : g.up[fd].sid = 0}

\* What may come of a request that is complete.
Final == {"reset", "discard", "reply", "stream", "async", "async now"}

\* The answers that fit the stream of a callback.  A header block on a stream
\* that has its response already is one of trailers: it has no :path.
Fits(g, cb, a) ==
  LET e == g.streams[cb.sid]
  IN  IF cb = NoCallback THEN a.what = "none"
      ELSE IF e.present /\ e.fd # NoFd THEN a.what \in {"none", "broken"}
      ELSE IF ~CanSend(g.conn.streams[cb.sid]) THEN a.what = "reset"
      ELSE IF e.present THEN a.what \in Final
      ELSE /\ a.what \in {"early", "connect", "refuse"} \cup (IF cb.endStream THEN Final ELSE {"none"})
           /\ a.what = "connect" => FreeFds(g) # {}

\* dispatchRequest: "reset" is a request without :path, "discard" a reply after
\* which the entry is erased whatever is left of it, "refuse" a CONNECT that
\* gets an error.
Dispatch(g, sid, a) ==
  LET d == [g EXCEPT !.streams[sid].timed = a.timed]
  IN  CASE a.what = "reset"     -> Erase(Becomes(g, SendRstStream(g.conn, sid)), sid)
        [] a.what = "discard"   -> Erase(SendResponse(g, sid, a), sid)
        [] a.what = "reply"     -> Settle(SendResponse(d, sid, a), sid)
        [] a.what = "stream"    -> StreamingRequest(d, sid, a)
        [] a.what \in {"async", "async now"} -> StartAsync(d, sid, a)
        [] a.what = "connect"   -> OpenTunnel(g, sid, Min(FreeFds(g)))
        [] a.what = "refuse"    -> [SendResponse(g, sid, a) EXCEPT !.streams[sid].request = FALSE]

\* onTrailersReceived: a second header block ends a request that waits for its body.
OnTrailers(g, sid, endStream, a) ==
  LET e == g.streams[sid]
  IN  IF ~e.request \/ e.fd # NoFd \/ ~endStream
      THEN Erase(Becomes(g, SendRstStream(g.conn, sid)), sid)
      ELSE Dispatch(g, sid, a)

\* onHeadersDecodedReceived.  "early" is the 400 or 406 that does not wait for the body.
OnHeadersDecoded(g, sid, endStream, a) ==
  LET d == [g EXCEPT !.streams[sid] = [NoEntry EXCEPT !.present = TRUE, !.request = TRUE]]
  IN  IF g.streams[sid].present THEN OnTrailers(g, sid, endStream, a)
      ELSE IF a.what = "early" THEN Erase(SendResponse(d, sid, a), sid)
      ELSE IF endStream \/ a.what \in {"connect", "refuse"} THEN Dispatch(d, sid, a)
      ELSE d

\* onDataReceived: a write to the upstream may fail.
OnData(g, sid, endStream, a) ==
  LET e == g.streams[sid]
  IN  IF ~e.present THEN g
      ELSE IF e.fd # NoFd THEN IF a.what = "broken" THEN CloseUpstream(g, e.fd) ELSE g
      ELSE IF e.request /\ endStream THEN Dispatch(g, sid, a)
      ELSE g

\* onTunnelWindowUpdate of the bridge: a tunnel that waits for credit goes on.
OnTunnelWindowUpdate(g, sid, order) ==
  LET fd == g.streams[sid].fd
  IN  IF fd = NoFd \/ (g.up[fd].buffered = 0 /\ ~g.up[fd].eof) THEN g
      ELSE Inject(g, fd, order)

\* setOnWindowUpdate.  For stream 0 the loop is over the map that the calls may erase from.
OnWindowUpdate(g, sid, order) ==
  LET all == FoldLeft(LAMBDA d, s : OnTunnelWindowUpdate(d, s, order), g, order)
  IN  IF sid # 0 THEN OnTunnelWindowUpdate(g, sid, order)
      ELSE Asserting(all, \A s \in StreamId : g.streams[s].present => all.streams[s].present)

\* One frame, with the callbacks it leads to.
OnFrame(g, f, a, order) ==
  LET d  == Becomes(g, ProcessFrame(g.conn, f))
      cb == d.conn.cb
      e  == IF cb.kind = "Data" THEN OnData(d, cb.sid, cb.endStream, a)
            ELSE OnHeadersDecoded(d, cb.sid, cb.endStream, a)
  IN  IF cb # NoCallback THEN Becomes(e, FinishCallback(e.conn))
      ELSE IF f.type = "WINDOW_UPDATE" /\ ProcessFrame(g.conn, f).code = "NoError"
      THEN OnWindowUpdate(d, f.sid, order)
      ELSE d

-----------------------------------------------------------------------------
(* What the event loop does *)

\* The orders in which a loop may visit the map of entries.
Orders == SetToSeqs({s \in StreamId : h.streams[s].present})
Idle == pc \in {"idle", "closing"} /\ ~h.aborted

\* processFrames: frames are taken while the connection is open.
ReceiveFrame ==
  /\ pc \in {"idle", "reading"} /\ ~h.aborted
  /\ h.conn.state = "Open"
  /\ \E f \in Incoming :
       LET d == Becomes(h, ProcessFrame(h.conn, f))
       IN  \E a \in {x \in app : Fits(d, d.conn.cb, x)}, order \in Orders :
             h' = OnFrame(h, f, a, order)
  /\ pc' = "reading"
  /\ UNCHANGED app

\* The rest of processInput and of the loop of processSpecialProtocolHandler.
EndOfInput ==
  /\ pc = "reading" /\ ~h.aborted
  /\ \E order \in Orders :
       h' = Drain(IF h.output THEN h ELSE Flush(h, order), order)
  /\ pc' = IF h.conn.state = "Open" THEN "idle" ELSE "closing"
  /\ UNCHANGED app

\* Work of the event loop between two inputs, on the record.
Between(g) == Idle /\ h' = g /\ UNCHANGED << pc, app >>

\* applyPendingUpdates resumes a coroutine, which completes.
ResumeAsync ==
  \E sid \in ClientIds, a \in app, order \in Orders :
    /\ h.streams[sid].pending = "async" /\ a.what = "async"
    /\ Between(Drain(AsyncTaskCompleted(h, sid, a), order))

\* sweepStreams for the entries whose deadline has passed: nothing is drained.
Sweep ==
  \E sid \in ClientIds :
    LET timeout == [what |-> "reply", body |-> 0, source |-> "memory", trailers |-> FALSE,
                    timed |-> FALSE]
        d == Erase(SendResponse(h, sid, timeout), sid)
    IN  /\ h.streams[sid].present /\ h.streams[sid].timed
        /\ Between(Becomes(d, SendRstStream(d.conn, sid)))

UpstreamConnected ==
  \E fd \in Fds : /\ h.up[fd].connecting
                  /\ Between([h EXCEPT !.up[fd].connecting = FALSE])

UpstreamConnectFails ==
  \E fd \in Fds : /\ h.up[fd].connecting
                  /\ Between(TunnelConnectFailed(h, fd))

\* Bytes from the upstream, or its end.
UpstreamReads ==
  \E fd \in Fds, order \in Orders :
    /\ h.up[fd].sid # 0 /\ ~h.up[fd].connecting /\ ~h.up[fd].eof
    /\ \/ /\ h.up[fd].buffered < MaxUpstream
          /\ Between(Inject([h EXCEPT !.up[fd].buffered = @ + 1], fd, order))
       \/ Between(Inject([h EXCEPT !.up[fd].eof = TRUE], fd, order))

UpstreamError ==
  \E fd \in Fds : /\ h.up[fd].sid # 0 /\ ~h.up[fd].connecting
                  /\ Between(CloseUpstream(h, fd))

\* closeConnection of the client's socket: the handler goes, and the upstreams
\* that _tunnelUpstreams names.
CloseConnection ==
  /\ Idle
  /\ h' = [h EXCEPT !.streams = [s \in StreamId |-> NoEntry],
                    !.tunnels = [fd \in Fds |-> 0],
                    !.up = [fd \in Fds |-> IF h.tunnels[fd] # 0 THEN NoUpstream ELSE h.up[fd]]]
  /\ pc' = "closed"
  /\ UNCHANGED app

Next == \/ ReceiveFrame \/ EndOfInput \/ ResumeAsync \/ Sweep \/ UpstreamConnected
        \/ UpstreamConnectFails \/ UpstreamReads \/ UpstreamError \/ CloseConnection

Spec == Init /\ [][Next]_vars

-----------------------------------------------------------------------------
(* Properties *)

\* The type invariant.
TypeOK == /\ h \in Handler
          /\ pc \in {"idle", "reading", "closing", "closed"}
          /\ app \in Applications


\* A body that waits for credit belongs to a stream that can still carry it:
\* onStreamClosed and onStreamReset have erased the others, as the comments in
\* flushPendingFileSends and flushPendingStreamingSends say.
PendingHasStream ==
  \A s \in StreamId :
    LET e == h.streams[s]
    IN  e.present /\ e.pending \in {"memory", "file", "short"}
          => CanSend(h.conn.streams[s]) /\ ~h.conn.streams[s].closedNotified

\* The three records of a tunnel agree: the entry of the stream, the map
\* _tunnelUpstreams and the upstream socket.  No socket outlives the connection.
TunnelsAgree ==
  \A fd \in Fds :
    LET sid == h.up[fd].sid
    IN  /\ h.tunnels[fd] = sid
        /\ sid # 0 => h.streams[sid].present /\ h.streams[sid].fd = fd
        /\ \A s \in StreamId : h.streams[s].fd = fd => sid = s

\* A stream that the peer still expects something on has something coming: a
\* request that is not complete, a body or a coroutine that is pending, or a tunnel.
NothingAbandoned ==
  pc \in {"idle", "reading"} /\ ~h.aborted =>
    \A s \in StreamId :
      LET e == h.streams[s]
      IN  CanSend(h.conn.streams[s]) =>
            e.present /\ (e.request \/ e.pending # "none" \/ e.fd # NoFd)

\* A stream that has ended on both sides and that the handler has forgotten has
\* been closed in the connection, too: it is not counted as active any more.
ForgottenIsClosed ==
  \A s \in StreamId :
    LET stream == h.conn.streams[s]
    IN  pc # "closed" /\ IsClosed(stream) /\ ~h.streams[s].present => stream.closedNotified

\* Between two inputs no deferred body waits that the windows would let through.
CreditIsUsed ==
  pc = "idle" /\ ~h.aborted =>
    \A s \in StreamId :
      h.streams[s].pending \in {"memory", "file", "short"} => Credit(h, s) = 0

\* Stated by protocol-handler.hpp of drainOutputBuffer, "Drains all pending
\* output into dest": the server waits for input only when it holds all output.
OutputHandedOver == pc = "idle" /\ ~h.aborted => ~h.output

\* Stated by http2-connection.hpp of finalizeSendClosedStream: a stream that a
\* send has closed does not stay accounted as active.
ClosedReported ==
  pc = "idle" /\ ~h.aborted =>
    \A s \in StreamId : IsClosed(h.conn.streams[s]) => h.conn.streams[s].closedNotified
=============================================================================
