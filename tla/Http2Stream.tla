---------------------------- MODULE Http2Stream ----------------------------
(***************************************************************************)
(* One HTTP/2 stream (http2/src/http2-stream.cpp, http2-stream.hpp): the   *)
(* RFC 9113 section 5.1 state machine and the two flow-control windows of  *)
(* a stream, as operators on a stream record.  Http2Endpoint keeps a       *)
(* function from stream identifiers to these records.                      *)
(*                                                                         *)
(* A method of Http2Stream that can fail is a pair of operators: a         *)
(* predicate that says when it returns NoError and the record (or state)   *)
(* it then leaves behind; when it fails the stream is unchanged.           *)
(* Priority and the last error code are not kept: nothing reads them.      *)
(***************************************************************************)
EXTENDS Integers

CONSTANT MaxWindow          \* kMaxWindowSize, 2^31 - 1 in the code

ASSUME MaxWindowAssumption == MaxWindow \in Nat \ {0}

\* enum class StreamState; "Absent" stands for a stream that is not in the map.
StreamStates == {"Absent", "Idle", "ReservedLocal", "ReservedRemote", "Open",
                 "HalfClosedLocal", "HalfClosedRemote", "Closed"}

Window == -MaxWindow .. MaxWindow       \* int32_t

Stream == [state             : StreamStates,
           sendWindow        : Window,
           recvWindow        : Window,
           initialSendWindow : 0 .. MaxWindow,
           closedNotified    : BOOLEAN]

\* The constructor: one value fills the send window, the receive window and
\* the initial window remembered for later SETTINGS.
NewStream(initialWindow) ==
  [state |-> "Idle", sendWindow |-> initialWindow, recvWindow |-> initialWindow,
   initialSendWindow |-> initialWindow, closedNotified |-> FALSE]

NoStream ==
  [state |-> "Absent", sendWindow |-> 0, recvWindow |-> 0,
   initialSendWindow |-> 0, closedNotified |-> FALSE]

CanSend(s)    == s.state \in {"Open", "HalfClosedRemote"}
CanReceive(s) == s.state \in {"Open", "HalfClosedLocal"}
IsClosed(s)   == s.state = "Closed"
IsPresent(s)  == s.state # "Absent"

-----------------------------------------------------------------------------
(* State transitions *)

CanSendHeaders(s) == s.state \in {"Idle", "ReservedLocal", "Open", "HalfClosedRemote"}

OnSendHeaders(s, endStream) ==
  [s EXCEPT !.state =
     CASE @ \in {"Idle", "Open"} -> IF endStream THEN "HalfClosedLocal" ELSE "Open"
       [] @ \in {"ReservedLocal", "HalfClosedRemote"} ->
            IF endStream THEN "Closed" ELSE "HalfClosedRemote"
       [] OTHER -> @]

CanRecvHeaders(s) == s.state \in {"Idle", "ReservedRemote", "Open", "HalfClosedLocal"}

OnRecvHeaders(s, endStream) ==
  [s EXCEPT !.state =
     CASE @ \in {"Idle", "Open"} -> IF endStream THEN "HalfClosedRemote" ELSE "Open"
       [] @ \in {"ReservedRemote", "HalfClosedLocal"} ->
            IF endStream THEN "Closed" ELSE "HalfClosedLocal"
       [] OTHER -> @]

\* Called only when CanSend(s), see Http2Connection::sendData.
OnSendData(s, endStream) ==
  [s EXCEPT !.state = CASE ~endStream       -> @
                        [] @ = "Open"       -> "HalfClosedLocal"
                        [] OTHER            -> "Closed"]

\* Mutated: END_STREAM from the peer only ever half-closes.
OnRecvDataHalfCloses(s, endStream) ==
  [s EXCEPT !.state = IF endStream /\ @ = "Open" THEN "HalfClosedRemote" ELSE @]

\* Called only when CanReceive(s), see Http2Connection::handleDataFrame.
OnRecvData(s, endStream) ==
  [s EXCEPT !.state = CASE ~endStream       -> @
                        [] @ = "Open"       -> "HalfClosedRemote"
                        [] OTHER            -> "Closed"]

\* onSendRstStream and onRecvRstStream
OnRstStream(s) == [s EXCEPT !.state = "Closed"]

-----------------------------------------------------------------------------
(* Flow control *)

CanConsumeSend(s, bytes) == s.sendWindow >= bytes
ConsumeSendWindow(s, bytes) == [s EXCEPT !.sendWindow = @ - bytes]

CanConsumeRecv(s, bytes) == s.recvWindow >= bytes
ConsumeRecvWindow(s, bytes) == [s EXCEPT !.recvWindow = @ - bytes]

\* An increment of 0 is a ProtocolError, one beyond the maximum a FlowControlError.
CanIncreaseSend(s, increment) == increment # 0 /\ s.sendWindow + increment <= MaxWindow
IncreaseSendWindow(s, increment) == [s EXCEPT !.sendWindow = @ + increment]

\* The result of increaseRecvWindow is dropped by its caller: an overflow
\* leaves the window as it was.
IncreaseRecvWindow(s, increment) ==
  [s EXCEPT !.recvWindow = IF @ + increment > MaxWindow THEN @ ELSE @ + increment]

\* SETTINGS_INITIAL_WINDOW_SIZE moves the send window by the difference; the
\* code refuses a result outside 0 .. MaxWindow.
ResizedSendWindow(s, newInitial) == s.sendWindow + (newInitial - s.initialSendWindow)
\* Mutated: only the upper bound is tested.
CanUpdateInitialWindowDownward(s, newInitial) == ResizedSendWindow(s, newInitial) <= MaxWindow
CanUpdateInitialWindow(s, newInitial) == ResizedSendWindow(s, newInitial) \in 0 .. MaxWindow
UpdateInitialWindowSize(s, newInitial) ==
  [s EXCEPT !.sendWindow = ResizedSendWindow(s, newInitial), !.initialSendWindow = newInitial]

\* markClosedNotified
MarkClosedNotified(s) == [s EXCEPT !.closedNotified = TRUE]
=============================================================================
