-------------------------- MODULE Http2Connection --------------------------
(***************************************************************************)
(* An Http2Connection object in the most general setting: a peer that may  *)
(* send any frame of Incoming in any order, and an application that may    *)
(* call any public method at any moment, also from inside a callback (the  *)
(* object is single-threaded: a call never overlaps the processing of a    *)
(* frame in any other way).  What holds here holds for every peer and for  *)
(* every user of the class, the server's protocol handler and the client's *)
(* engine included.                                                        *)
(***************************************************************************)
EXTENDS Http2Endpoint

CONSTANTS Configs,    \* the local settings to start from
          Incoming,   \* the frames the peer may send
          Sizes       \* header block and payload sizes of the application

ASSUME ConnectionAssumption ==
  /\ Configs \subseteq Config
  /\ Incoming \subseteq Frame
  /\ Sizes \subseteq Nat

VARIABLE conn

Init == \E cfg \in Configs : conn = NewConnection(cfg)

-----------------------------------------------------------------------------
(* Received bytes *)

ReceivePreface ==
  /\ conn.cfg.isServer /\ conn.state = "AwaitingPreface"
  /\ \E valid \in BOOLEAN : conn' = Drained(ProcessPreface(conn, valid))

Receive(type) ==
  /\ Receiving(conn)
  /\ \E f \in Incoming : f.type = type /\ conn' = Drained(ProcessFrame(conn, f))

ReceiveFrame == \E type \in FrameTypes : Receive(type)

\* The application's callback returns and the handler finishes.
CallbackReturns ==
  /\ conn.cb # NoCallback
  /\ conn' = Drained(FinishCallback(conn))

-----------------------------------------------------------------------------
(* Calls of the application *)

\* The server's preface is the first call after construction, and only over TLS
\* (CreateHttp2ProtocolHandler); the client's engine always begins with its own.
CallSendServerPreface ==
  /\ conn.cfg.isServer /\ conn.state = "AwaitingPreface"
  /\ conn' = Drained(SendServerPreface(conn))

CallSendClientPreface ==
  /\ ~conn.cfg.isServer
  /\ conn' = Drained(SendClientPreface(conn))

Ready == conn.cfg.isServer \/ conn.settingsSent

CallSendHeaders ==
  /\ Ready
  /\ \E sid \in StreamId, size \in Sizes, endStream \in BOOLEAN :
       conn' = Drained(SendHeaders(conn, sid, size, endStream))

CallSendData ==
  /\ Ready
  /\ \E sid \in StreamId, size \in Sizes, endStream \in BOOLEAN :
       conn' = Drained(SendData(conn, sid, size, endStream))

CallSendRstStream ==
  /\ Ready
  /\ \E sid \in StreamId : conn' = Drained(SendRstStream(conn, sid))

CallFinalizeSendClosedStream ==
  /\ Ready
  /\ \E sid \in StreamId : conn' = Drained(FinalizeSendClosedStream(conn, sid))

CallInitiateGoAway == Ready /\ conn' = Drained(InitiateGoAway(conn))

Next ==
  \/ ReceivePreface
  \/ ReceiveFrame
  \/ CallbackReturns
  \/ CallSendServerPreface
  \/ CallSendClientPreface
  \/ CallSendHeaders
  \/ CallSendData
  \/ CallSendRstStream
  \/ CallFinalizeSendClosedStream
  \/ CallInitiateGoAway

Spec == Init /\ [][Next]_conn

-----------------------------------------------------------------------------
(* Properties *)

\* The fields of the object keep their types; in particular no window leaves
\* 0 .. kMaxWindowSize and the active-stream counter never wraps below zero
\* (the assert of closeStream).
TypeOK == conn \in Connection

\* Streams that count against the concurrency limits.
Live(streams) == {s \in StreamId : IsPresent(streams[s]) /\ ~streams[s].closedNotified}

\* Closed streams kept for late frames.
Kept(streams) == {s \in StreamId : IsPresent(streams[s]) /\ streams[s].closedNotified}

\* _activeStreamCount is exactly the number of streams in the map whose closing
\* has not been reported, whatever mix of END_STREAM, RST_STREAM in both
\* directions, finalizeSendClosedStream and callbacks closes them: closeStream
\* counts every stream down once and only once.
ActiveCountExact == conn.active = Cardinality(Live(conn.streams))

FifoExact(streams, fifo) ==
  /\ Range(fifo) = Kept(streams)
  /\ \A i, j \in DOMAIN fifo : fifo[i] = fifo[j] => i = j
  /\ \A s \in Kept(streams) : IsClosed(streams[s])
  /\ Len(fifo) <= Retained

\* _closedStreamsFifo holds each closed and reported stream of the map exactly
\* once, all of them Closed, and never more than kClosedStreamsMaxRetained: the
\* asserts of pruneClosedStreams hold and the map cannot grow with dead streams.
ClosedFifoExact == FifoExact(conn.streams, conn.closedFifo)

\* The flow-control windows of a stream stay within 0 .. kMaxWindowSize under
\* any sequence of DATA, WINDOW_UPDATE and SETTINGS_INITIAL_WINDOW_SIZE.
WindowsInRange ==
  \A s \in StreamId : /\ conn.streams[s].sendWindow \in 0 .. MaxWindow
                      /\ conn.streams[s].recvWindow \in 0 .. MaxWindow

\* A server that has sent GOAWAY(L) and has not had one from the peer admits no
\* new stream: "GOAWAY sent, no new streams, draining existing streams".
NoStreamAfterGoAway ==
  [][ conn.cfg.isServer /\ conn.state = "GoAwaySent" =>
        \A s \in StreamId : IsPresent(conn'.streams[s]) => IsPresent(conn.streams[s]) ]_conn

\* Closed is final, and a closed stream is never heard of again: once the peer
\* or the application has been told that a stream is closed, no step reopens it
\* while it is in the map.
ClosedIsFinal ==
  [][ /\ conn.state = "Closed" => conn'.state = "Closed"
      /\ \A s \in StreamId :
           IsClosed(conn.streams[s]) => conn'.streams[s].state \in {"Closed", "Absent"} ]_conn
=============================================================================
