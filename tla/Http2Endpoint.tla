--------------------------- MODULE Http2Endpoint ---------------------------
(***************************************************************************)
(* One Http2Connection object (http2/src/http2-connection.cpp), the object *)
(* that both the server and the client of aeronet keep per HTTP/2          *)
(* connection.  The object is a record c; each method of the class is an   *)
(* operator that takes c and gives the c it leaves behind, so that the     *)
(* calls a method makes compose the way they do in the code.  The modules  *)
(* Http2Connection and Http2Pair turn the operators into actions.          *)
(*                                                                         *)
(* A handler that calls back into the application before it is finished    *)
(* (decodeAndEmitHeaders, _onData) is cut at the call: the first half      *)
(* leaves what the second half needs in c.cb, and FinishCallback is the    *)
(* second half.  While c.cb is not NoCallback only calls of the            *)
(* application can happen, never another frame.                            *)
(*                                                                         *)
(* Payloads, header lists, priorities and debug data are left out.  A      *)
(* frame is its type, its stream, one number (payload length, increment,   *)
(* error or last stream id), its settings and its flags; the flags         *)
(* MALFORMED, UNDECODABLE and SELF_DEPENDENCY say what the parser of that  *)
(* frame, the HPACK decoder or the priority check finds in its payload.    *)
(***************************************************************************)
EXTENDS Http2Stream, Sequences, FiniteSets, Functions

CONSTANTS MaxStreamId,      \* largest stream identifier, 2^31 - 1
          DefaultWindow,    \* kDefaultInitialWindowSize, 65535
          DefaultStreams,   \* PeerSettings::maxConcurrentStreams before SETTINGS, 100
          MinFrameSize,     \* smallest legal SETTINGS_MAX_FRAME_SIZE, 16384
          MaxFrameSize,     \* largest legal SETTINGS_MAX_FRAME_SIZE, 2^24 - 1
          Retained,         \* kClosedStreamsMaxRetained, 16
          MaxHeaderBlock,   \* kMaxHeaderBlockAccumulationSize
          MaxIdlePriority   \* kMaxIdlePriorityFrames

ASSUME EndpointAssumption ==
  /\ {MaxStreamId, MinFrameSize, MaxFrameSize, Retained} \subseteq Nat \ {0}
  /\ {DefaultStreams, MaxHeaderBlock, MaxIdlePriority} \subseteq Nat
  /\ DefaultWindow \in 0 .. MaxWindow
  /\ MinFrameSize <= MaxFrameSize

StreamId == 1 .. MaxStreamId

FrameTypes == {"DATA", "HEADERS", "PRIORITY", "RST_STREAM", "SETTINGS", "PUSH_PROMISE",
               "PING", "GOAWAY", "WINDOW_UPDATE", "CONTINUATION", "UNKNOWN"}
FrameFlags == {"END_STREAM", "END_HEADERS", "ACK", "MALFORMED", "UNDECODABLE",
               "SELF_DEPENDENCY"}

\* SettingsFrame::entries: the value of each parameter, or NotSet.  Parameters
\* that no modelled state depends on (header table and list size) are left out.
Parameters == {"ENABLE_PUSH", "MAX_CONCURRENT_STREAMS", "INITIAL_WINDOW_SIZE", "MAX_FRAME_SIZE"}
NotSet == -1
Settings == [Parameters -> Nat \cup {NotSet}]
NoSettings == [p \in Parameters |-> NotSet]

Frame == [type : FrameTypes, sid : 0 .. MaxStreamId, n : Nat, flags : SUBSET FrameFlags,
          settings : Settings]

MkFrame(type, sid, n, flags) ==
  [type |-> type, sid |-> sid, n |-> n, flags |-> flags, settings |-> NoSettings]
MkSettings(settings) ==
  [type |-> "SETTINGS", sid |-> 0, n |-> 0, flags |-> {}, settings |-> settings]

ConnectionStates == {"AwaitingPreface", "AwaitingSettings", "Open", "GoAwaySent",
                     "GoAwayReceived", "Closed"}
ErrorCodes == {"NoError", "ProtocolError", "InternalError", "FlowControlError",
               "StreamClosed", "FrameSizeError", "RefusedStream", "CompressionError",
               "EnhanceYourCalm"}

NoCallback == [kind |-> "None", sid |-> 0, n |-> 0, endStream |-> FALSE]

\* Http2Config: the local settings that the connection reads.
Config == [isServer : BOOLEAN, initialWindow : 0 .. MaxWindow,
           connectionWindow : 0 .. MaxWindow, maxConcurrent : Nat, maxFrame : Nat \ {0}]

Connection ==
  [cfg               : Config,
   state             : ConnectionStates,
   settingsSent      : BOOLEAN,
   streams           : [StreamId -> Stream],
   closedFifo        : Seq(StreamId),
   active            : Nat,
   lastPeer          : 0 .. MaxStreamId,
   goAwayLast        : Nat,
   idlePriority      : Nat,
   sendWindow        : 0 .. MaxWindow,
   recvWindow        : 0 .. MaxWindow,
   peerInitialWindow : 0 .. MaxWindow,
   peerMaxConcurrent : Nat,
   peerMaxFrame      : MinFrameSize .. MaxFrameSize,
   expecting         : BOOLEAN,
   headerBlock       : [sid : 0 .. MaxStreamId, size : Nat, endStream : BOOLEAN],
   cb                : [kind : {"None", "Headers", "Continuation", "Data"},
                        sid : 0 .. MaxStreamId, n : Nat, endStream : BOOLEAN],
   code              : ErrorCodes,
   out               : Seq(Frame)]

\* The constructor.  goAwayLast starts at UINT32_MAX, which no stream id exceeds.
NewConnection(cfg) ==
  [cfg |-> cfg, state |-> "AwaitingPreface", settingsSent |-> FALSE,
   streams |-> [s \in StreamId |-> NoStream], closedFifo |-> << >>, active |-> 0,
   lastPeer |-> 0, goAwayLast |-> MaxStreamId, idlePriority |-> 0,
   sendWindow |-> DefaultWindow, recvWindow |-> cfg.connectionWindow,
   peerInitialWindow |-> DefaultWindow, peerMaxConcurrent |-> DefaultStreams,
   peerMaxFrame |-> MinFrameSize, expecting |-> FALSE,
   headerBlock |-> [sid |-> 0, size |-> 0, endStream |-> FALSE],
   cb |-> NoCallback, code |-> "NoError", out |-> << >>]

\* onOutputWritten for the whole buffer: the transport has taken the output and
\* the caller its error code.
Drained(c) == [c EXCEPT !.out = << >>, !.code = "NoError"]

Emit(c, frames) == [c EXCEPT !.out = @ \o frames]

Has(c, sid) == sid \in StreamId /\ IsPresent(c.streams[sid])

-----------------------------------------------------------------------------
(* GOAWAY, errors, settings *)

\* Mutated: the state is tested for GoAwaySent only.
InitiateGoAwayWhenClosed(c) ==
  IF c.state = "GoAwaySent" THEN c
  ELSE [Emit(c, << MkFrame("GOAWAY", 0, c.lastPeer, {}) >>)
          EXCEPT !.state = "GoAwaySent", !.goAwayLast = c.lastPeer]

InitiateGoAway(c) ==
  IF c.state \in {"Closed", "GoAwaySent"} THEN c
  ELSE [Emit(c, << MkFrame("GOAWAY", 0, c.lastPeer, {}) >>)
          EXCEPT !.state = "GoAwaySent", !.goAwayLast = c.lastPeer]

ConnectionError(c, code) == [InitiateGoAway(c) EXCEPT !.state = "Closed", !.code = code]

SendSettings(c) ==
  LET settings == [NoSettings EXCEPT !["ENABLE_PUSH"]            = 0,
                                     !["MAX_CONCURRENT_STREAMS"] = c.cfg.maxConcurrent,
                                     !["INITIAL_WINDOW_SIZE"]    = c.cfg.initialWindow,
                                     !["MAX_FRAME_SIZE"]         = c.cfg.maxFrame]
      boost == IF c.cfg.connectionWindow > DefaultWindow
               THEN << MkFrame("WINDOW_UPDATE", 0, c.cfg.connectionWindow - DefaultWindow, {}) >>
               ELSE << >>
  IN  [Emit(c, << MkSettings(settings) >> \o boost) EXCEPT !.settingsSent = TRUE]

SendServerPreface(c) ==
  IF ~c.cfg.isServer \/ c.settingsSent THEN c ELSE SendSettings(c)

\* The magic string itself is the PREFACE marker of Http2Pair's wire.
SendClientPreface(c) ==
  IF c.cfg.isServer \/ c.settingsSent THEN c
  ELSE [SendSettings(c) EXCEPT !.state = "AwaitingSettings"]

\* processPreface on the server: valid says whether the 24 bytes are the preface.
ProcessPreface(c, valid) ==
  IF ~valid THEN ConnectionError(c, "ProtocolError")
  ELSE LET d == [c EXCEPT !.state = "AwaitingSettings"]
       IN  IF d.settingsSent THEN d ELSE SendSettings(d)

-----------------------------------------------------------------------------
(* Stream management *)

CanCreateStreams(c) ==
  /\ c.active < c.peerMaxConcurrent
  /\ \/ c.state = "Open"
     \/ ~c.cfg.isServer /\ c.state = "AwaitingSettings"

\* Mutated: the loop stops one stream late.
PruneClosedStreamsLate(c) ==
  LET excess == Len(c.closedFifo) - Retained - 1
      pruned == {c.closedFifo[i] : i \in 1 .. excess}
  IN  IF excess <= 0 THEN c
      ELSE [c EXCEPT !.closedFifo = SubSeq(@, excess + 1, Len(@)),
                     !.streams = [s \in StreamId |-> IF s \in pruned THEN NoStream ELSE @[s]]]


\* The loop of pruneClosedStreams: the oldest closed streams beyond Retained
\* leave the FIFO and the map.
PruneClosedStreams(c) ==
  LET excess == Len(c.closedFifo) - Retained
      pruned == {c.closedFifo[i] : i \in 1 .. excess}
  IN  IF excess <= 0 THEN c
      ELSE [c EXCEPT !.closedFifo = SubSeq(@, excess + 1, Len(@)),
                     !.streams = [s \in StreamId |-> IF s \in pruned THEN NoStream ELSE @[s]]]

\* Mutated: the result of markClosedNotified is not looked at.
CloseStreamAgain(c, sid) ==
  PruneClosedStreams([c EXCEPT !.streams[sid] = MarkClosedNotified(@),
                               !.active = @ - 1,
                               !.closedFifo = Append(@, sid)])

\* closeStream acts at most once per stream (markClosedNotified).
CloseStream(c, sid) ==
  IF c.streams[sid].closedNotified THEN c
  ELSE PruneClosedStreams([c EXCEPT !.streams[sid] = MarkClosedNotified(@),
                                    !.active = @ - 1,
                                    !.closedFifo = Append(@, sid)])

SendRstStream(c, sid) ==
  LET d == Emit(c, << MkFrame("RST_STREAM", sid, 0, {}) >>)
  IN  IF Has(c, sid) THEN CloseStream([d EXCEPT !.streams[sid] = OnRstStream(@)], sid) ELSE d

StreamError(c, sid, code) == [SendRstStream(c, sid) EXCEPT !.code = code]

FinalizeSendClosedStream(c, sid) ==
  IF Has(c, sid) /\ IsClosed(c.streams[sid]) THEN CloseStream(c, sid) ELSE c

-----------------------------------------------------------------------------
(* Frame sending *)

\* How a block of n bytes is cut into frames of at most max bytes: at least one.
ChunkCount(n, max) == IF n <= max THEN 1 ELSE (n + max - 1) \div max
ChunkSize(n, max, i) == IF i = ChunkCount(n, max) THEN n - (i - 1) * max ELSE max

EndStreamFlag(set) == IF set THEN {"END_STREAM"} ELSE {}

\* encodeHeaders: HEADERS, then as many CONTINUATION frames as the peer's maximum
\* frame size asks for; END_STREAM is on the first, END_HEADERS on the last.
HeaderFrames(c, sid, size, endStream) ==
  LET count == ChunkCount(size, c.peerMaxFrame)
  IN  [i \in 1 .. count |->
         MkFrame(IF i = 1 THEN "HEADERS" ELSE "CONTINUATION", sid,
                 ChunkSize(size, c.peerMaxFrame, i),
                 (IF i = 1 THEN EndStreamFlag(endStream) ELSE {})
                   \cup (IF i = count THEN {"END_HEADERS"} ELSE {}))]

\* prepareSendHeaders returns RefusedStream, StreamClosed or NoError.
SendHeadersError(c, sid) ==
  IF ~Has(c, sid) THEN IF CanCreateStreams(c) THEN "NoError" ELSE "RefusedStream"
  ELSE IF CanSendHeaders(c.streams[sid]) THEN "NoError" ELSE "StreamClosed"

\* Mutated: a stream opened by the local side is not counted.
SendHeadersUncounted(c, sid, size, endStream) ==
  IF SendHeadersError(c, sid) # "NoError" THEN [c EXCEPT !.code = SendHeadersError(c, sid)]
  ELSE LET stream == IF Has(c, sid) THEN c.streams[sid] ELSE NewStream(c.peerInitialWindow)
       IN  [Emit(c, HeaderFrames(c, sid, size, endStream))
              EXCEPT !.streams[sid] = OnSendHeaders(stream, endStream)]

\* sendHeaders and sendRequestHeaders, with a header block of size bytes.
SendHeaders(c, sid, size, endStream) ==
  IF SendHeadersError(c, sid) # "NoError" THEN [c EXCEPT !.code = SendHeadersError(c, sid)]
  ELSE LET isNew  == ~Has(c, sid)
           stream == IF isNew THEN NewStream(c.peerInitialWindow) ELSE c.streams[sid]
       IN  [Emit(c, HeaderFrames(c, sid, size, endStream))
              EXCEPT !.streams[sid] = OnSendHeaders(stream, endStream),
                     !.active = IF isNew THEN @ + 1 ELSE @]

\* An empty DATA frame is written only to carry END_STREAM.
DataFrames(c, sid, size, endStream) ==
  LET count == IF size = 0 /\ ~endStream THEN 0 ELSE ChunkCount(size, c.peerMaxFrame)
  IN  [i \in 1 .. count |->
         MkFrame("DATA", sid, ChunkSize(size, c.peerMaxFrame, i),
                 EndStreamFlag(endStream /\ i = count))]

\* Mutated: the connection's own window is forgotten.
SendDataErrorOfStream(c, sid, size) ==
  IF ~Has(c, sid) THEN "ProtocolError"
  ELSE IF ~CanSend(c.streams[sid]) THEN "StreamClosed"
  ELSE IF ~CanConsumeSend(c.streams[sid], size) THEN "FlowControlError"
  ELSE "NoError"

SendDataError(c, sid, size) ==
  IF ~Has(c, sid) THEN "ProtocolError"
  ELSE IF ~CanSend(c.streams[sid]) THEN "StreamClosed"
  ELSE IF ~CanConsumeSend(c.streams[sid], size) \/ c.sendWindow < size THEN "FlowControlError"
  ELSE "NoError"

SendData(c, sid, size, endStream) ==
  IF SendDataError(c, sid, size) # "NoError"
  THEN [c EXCEPT !.code = SendDataError(c, sid, size)]
  ELSE [Emit(c, DataFrames(c, sid, size, endStream))
          EXCEPT !.sendWindow = @ - size,
                 !.streams[sid] = OnSendData(ConsumeSendWindow(@, size), endStream)]

\* Mutated: the peer gets its credit, the connection's own window stays.
SendWindowUpdateOfStream(c, sid, increment) ==
  LET d == Emit(c, << MkFrame("WINDOW_UPDATE", sid, increment, {}) >>)
  IN  IF Has(c, sid) THEN [d EXCEPT !.streams[sid] = IncreaseRecvWindow(@, increment)] ELSE d

SendWindowUpdate(c, sid, increment) ==
  LET d == Emit(c, << MkFrame("WINDOW_UPDATE", sid, increment, {}) >>)
  IN  IF sid = 0 THEN [d EXCEPT !.recvWindow =
                         IF @ + increment > MaxWindow THEN MaxWindow ELSE @ + increment]
      ELSE IF Has(c, sid) THEN [d EXCEPT !.streams[sid] = IncreaseRecvWindow(@, increment)]
      ELSE d

-----------------------------------------------------------------------------
(* Frame processing *)

\* A malformed frame always ends the connection; the code tells bad padding
\* (ProtocolError) from a bad length, here both are FrameSizeError.
Malformed(f) == "MALFORMED" \in f.flags
EndsStream(f) == "END_STREAM" \in f.flags

\* The stream an application callback is about, and what the rest of the
\* handler needs when the callback returns.
Callback(kind, sid, n, endStream) ==
  [kind |-> kind, sid |-> sid, n |-> n, endStream |-> endStream]

\* Up to the call of _onData.  Every DATA payload is charged to the connection
\* window before the stream is looked up.
HandleDataFrame(c, f) ==
  LET d      == [c EXCEPT !.recvWindow = @ - f.n]
      stream == d.streams[f.sid]
  IN  IF f.sid = 0 THEN ConnectionError(c, "ProtocolError")
      ELSE IF Malformed(f) THEN ConnectionError(c, "FrameSizeError")
      ELSE IF f.n > c.recvWindow THEN ConnectionError(c, "FlowControlError")
      ELSE IF ~Has(c, f.sid) THEN d
      ELSE IF ~CanReceive(stream) THEN StreamError(d, f.sid, "StreamClosed")
      ELSE IF ~CanConsumeRecv(stream, f.n) THEN StreamError(d, f.sid, "FlowControlError")
      ELSE [d EXCEPT !.streams[f.sid] = OnRecvData(ConsumeRecvWindow(@, f.n), EndsStream(f)),
                     !.cb = Callback("Data", f.sid, f.n, EndsStream(f))]

\* What handleHeadersFrame and handleContinuationFrame do with a complete header
\* block, up to the call of _onHeadersDecoded.  The block is decoded only when
\* the stream accepts HEADERS.
DeliverHeaders(c, f, kind, endStream) ==
  IF ~CanRecvHeaders(c.streams[f.sid]) THEN StreamError(c, f.sid, "StreamClosed")
  ELSE LET d == [c EXCEPT !.streams[f.sid] = OnRecvHeaders(@, endStream)]
       IN  IF "UNDECODABLE" \in f.flags THEN ConnectionError(d, "CompressionError")
           ELSE [d EXCEPT !.cb = Callback(kind, f.sid, 0, endStream)]

\* Mutated: stream ids need not increase.
RefusesNewStreamOnLimitOnly(c, sid) ==
  \/ c.cfg.isServer /\ sid % 2 = 0
  \/ c.active >= c.cfg.maxConcurrent

\* The tests on a HEADERS frame that would create a stream.
RefusesNewStream(c, sid) ==
  \/ c.cfg.isServer /\ (sid % 2 = 0 \/ sid <= c.lastPeer)
  \/ c.active >= c.cfg.maxConcurrent

HandleHeadersFrame(c, f) ==
  LET d == IF Has(c, f.sid) THEN c
           ELSE [c EXCEPT !.streams[f.sid] = NewStream(c.peerInitialWindow),
                          !.active = @ + 1, !.lastPeer = f.sid]
  IN  IF f.sid = 0 THEN ConnectionError(c, "ProtocolError")
      ELSE IF c.state \in {"GoAwaySent", "GoAwayReceived"} /\ f.sid > c.goAwayLast THEN c
      ELSE IF Malformed(f) THEN ConnectionError(c, "FrameSizeError")
      ELSE IF ~Has(c, f.sid) /\ RefusesNewStream(c, f.sid) THEN ConnectionError(c, "ProtocolError")
      ELSE IF "SELF_DEPENDENCY" \in f.flags THEN StreamError(d, f.sid, "ProtocolError")
      ELSE IF "END_HEADERS" \in f.flags THEN DeliverHeaders(d, f, "Headers", EndsStream(f))
      ELSE IF f.n > MaxHeaderBlock THEN ConnectionError(d, "EnhanceYourCalm")
      ELSE [d EXCEPT !.expecting = TRUE,
                     !.headerBlock = [sid |-> f.sid, size |-> f.n, endStream |-> EndsStream(f)]]

HandleContinuationFrame(c, f) ==
  LET d == [c EXCEPT !.headerBlock.size = @ + f.n]
      e == [d EXCEPT !.expecting = FALSE]
  IN  IF ~c.expecting \/ f.sid # c.headerBlock.sid THEN ConnectionError(c, "ProtocolError")
      ELSE IF d.headerBlock.size > MaxHeaderBlock THEN ConnectionError(c, "EnhanceYourCalm")
      ELSE IF "END_HEADERS" \notin f.flags THEN d
      ELSE IF ~Has(c, f.sid) THEN ConnectionError(e, "InternalError")
      ELSE DeliverHeaders(e, f, "Continuation", c.headerBlock.endStream)

\* The rest of the handler that called the application: DATA restores both
\* receive windows, then a stream that both sides have ended is closed.  A stream
\* the callback has got pruned was closed and notified: nothing is left to do.
FinishCallback(c) ==
  LET cb       == c.cb
      restored == IF cb.kind = "Data" /\ cb.n > 0
                  THEN SendWindowUpdate(SendWindowUpdate(c, cb.sid, cb.n), 0, cb.n) ELSE c
      closed   == IF cb.endStream /\ IsClosed(restored.streams[cb.sid])
                  THEN CloseStream(restored, cb.sid) ELSE restored
      cleared  == IF cb.kind = "Continuation"
                  THEN [closed EXCEPT !.headerBlock.sid = 0, !.headerBlock.size = 0] ELSE closed
  IN  [cleared EXCEPT !.cb = NoCallback]

HandlePriorityFrame(c, f) ==
  LET d == [c EXCEPT !.idlePriority = @ + 1]
  IN  IF f.sid = 0 THEN ConnectionError(c, "ProtocolError")
      ELSE IF Malformed(f) THEN ConnectionError(c, "FrameSizeError")
      ELSE IF "SELF_DEPENDENCY" \in f.flags THEN StreamError(c, f.sid, "ProtocolError")
      ELSE IF Has(c, f.sid) THEN c
      ELSE IF d.idlePriority > MaxIdlePriority THEN ConnectionError(d, "EnhanceYourCalm")
      ELSE d

HandleRstStreamFrame(c, f) ==
  IF f.sid = 0 THEN ConnectionError(c, "ProtocolError")
  ELSE IF Malformed(f) THEN ConnectionError(c, "FrameSizeError")
  ELSE IF ~Has(c, f.sid) THEN c
  ELSE CloseStream([c EXCEPT !.streams[f.sid] = OnRstStream(@)], f.sid)

\* The value f gives to parameter p, or the value in force.
Setting(f, p, old) == IF f.settings[p] = NotSet THEN old ELSE f.settings[p]
ResizesWindows(f) == f.settings["INITIAL_WINDOW_SIZE"] # NotSet

\* The first entry that is refused.  The connection is then Closed; that the
\* entries before it have been applied to it is not told apart.
SettingsError(c, f) ==
  LET window == Setting(f, "INITIAL_WINDOW_SIZE", c.peerInitialWindow)
  IN  IF \/ Setting(f, "ENABLE_PUSH", 0) > 1
         \/ Setting(f, "MAX_FRAME_SIZE", MinFrameSize) \notin MinFrameSize .. MaxFrameSize
      THEN "ProtocolError"
      ELSE IF /\ ResizesWindows(f)
              /\ \/ window > MaxWindow
                 \/ \E s \in StreamId : Has(c, s) /\ ~CanUpdateInitialWindow(c.streams[s], window)
      THEN "FlowControlError"
      ELSE "NoError"

\* SETTINGS_INITIAL_WINDOW_SIZE moves the send window of every stream in the map.
ApplySettings(c, f) ==
  LET window == Setting(f, "INITIAL_WINDOW_SIZE", c.peerInitialWindow)
  IN  [c EXCEPT
         !.peerMaxConcurrent = Setting(f, "MAX_CONCURRENT_STREAMS", @),
         !.peerMaxFrame      = Setting(f, "MAX_FRAME_SIZE", @),
         !.peerInitialWindow = window,
         !.streams = [s \in StreamId |-> IF ResizesWindows(f) /\ IsPresent(@[s])
                                            THEN UpdateInitialWindowSize(@[s], window) ELSE @[s]]]

\* An ACK, too, takes the connection from AwaitingSettings to Open.
SettingsSeen(c) == [c EXCEPT !.state = IF @ = "AwaitingSettings" THEN "Open" ELSE @]

HandleSettingsFrame(c, f) ==
  IF f.sid # 0 THEN ConnectionError(c, "ProtocolError")
  ELSE IF Malformed(f) THEN ConnectionError(c, "FrameSizeError")
  ELSE IF "ACK" \in f.flags THEN SettingsSeen(c)
  ELSE IF SettingsError(c, f) # "NoError" THEN ConnectionError(c, SettingsError(c, f))
  ELSE SettingsSeen(Emit(ApplySettings(c, f), << MkFrame("SETTINGS", 0, 0, {"ACK"}) >>))

HandlePingFrame(c, f) ==
  IF f.sid # 0 THEN ConnectionError(c, "ProtocolError")
  ELSE IF Malformed(f) THEN ConnectionError(c, "FrameSizeError")
  ELSE IF "ACK" \in f.flags THEN c
  ELSE Emit(c, << MkFrame("PING", 0, 0, {"ACK"}) >>)

HandleGoAwayFrame(c, f) ==
  IF f.sid # 0 THEN ConnectionError(c, "ProtocolError")
  ELSE IF Malformed(f) THEN ConnectionError(c, "FrameSizeError")
  ELSE [c EXCEPT !.state = "GoAwayReceived", !.goAwayLast = f.n]

HandleWindowUpdateFrame(c, f) ==
  IF Malformed(f) THEN ConnectionError(c, "FrameSizeError")
  ELSE IF f.n = 0 THEN IF f.sid = 0 THEN ConnectionError(c, "ProtocolError")
                       ELSE StreamError(c, f.sid, "ProtocolError")
  ELSE IF f.sid = 0 THEN IF c.sendWindow + f.n > MaxWindow
                         THEN ConnectionError(c, "FlowControlError")
                         ELSE [c EXCEPT !.sendWindow = @ + f.n]
  ELSE IF ~Has(c, f.sid) THEN c
  ELSE IF ~CanIncreaseSend(c.streams[f.sid], f.n) THEN StreamError(c, f.sid, "FlowControlError")
  ELSE [c EXCEPT !.streams[f.sid] = IncreaseSendWindow(@, f.n)]

\* processFrames refuses a frame longer than the local maximum, processFrame
\* anything but a CONTINUATION inside a header block.
PayloadLength(f) == IF f.type \in {"DATA", "HEADERS", "CONTINUATION", "UNKNOWN"} THEN f.n ELSE 0

ProcessFrame(c, f) ==
  IF PayloadLength(f) > c.cfg.maxFrame THEN ConnectionError(c, "FrameSizeError")
  ELSE IF c.expecting /\ f.type # "CONTINUATION" THEN ConnectionError(c, "ProtocolError")
  ELSE CASE f.type = "DATA"          -> HandleDataFrame(c, f)
         [] f.type = "HEADERS"       -> HandleHeadersFrame(c, f)
         [] f.type = "PRIORITY"      -> HandlePriorityFrame(c, f)
         [] f.type = "RST_STREAM"    -> HandleRstStreamFrame(c, f)
         [] f.type = "SETTINGS"      -> HandleSettingsFrame(c, f)
         [] f.type = "PUSH_PROMISE"  -> ConnectionError(c, "ProtocolError")
         [] f.type = "PING"          -> HandlePingFrame(c, f)
         [] f.type = "GOAWAY"        -> HandleGoAwayFrame(c, f)
         [] f.type = "WINDOW_UPDATE" -> HandleWindowUpdateFrame(c, f)
         [] f.type = "CONTINUATION"  -> HandleContinuationFrame(c, f)
         [] f.type = "UNKNOWN"       -> c

\* processInput takes frames in these states.
Receiving(c) == c.cb = NoCallback /\ c.state \notin {"AwaitingPreface", "Closed"}
=============================================================================
