------------------------- MODULE MCHttp2Connection -------------------------
(***************************************************************************)
(* Http2Connection on two instances that share one module: stream life     *)
(* cycles (three stream identifiers, an even one among them, and room for  *)
(* one closed stream, with payloads of zero bytes), and flow control (one  *)
(* stream, payloads and increments that overrun every window).             *)
(***************************************************************************)
EXTENDS Http2Connection

MCConfigs ==
  {[isServer |-> b, initialWindow |-> 1, connectionWindow |-> 1, maxConcurrent |-> 2,
    maxFrame |-> 1] : b \in BOOLEAN}

StreamFrames(type, sids, sizes, flagSets) ==
  {MkFrame(type, sid, n, flags) : sid \in sids, n \in sizes, flags \in flagSets}

SettingsFrames(p, values) == {MkSettings([NoSettings EXCEPT ![p] = v]) : v \in values}

\* Frames that end the connection whatever its state, one of each kind.
BrokenFrames ==
  StreamFrames("DATA", {0}, {0}, {{}})
  \cup StreamFrames("DATA", {1}, {0}, {{"MALFORMED"}})
  \cup StreamFrames("HEADERS", {0}, {0}, {{"END_HEADERS"}})
  \cup StreamFrames("HEADERS", {1}, {0}, {{"MALFORMED"}})
  \cup StreamFrames("PRIORITY", {0, 1}, {0}, {{"MALFORMED"}})
  \cup StreamFrames("RST_STREAM", {0, 1}, {0}, {{"MALFORMED"}})
  \cup StreamFrames("PING", {0, 1}, {0}, {{"MALFORMED"}})
  \cup StreamFrames("GOAWAY", {0, 1}, {0}, {{"MALFORMED"}})
  \cup StreamFrames("SETTINGS", {0, 1}, {0}, {{"MALFORMED"}})
  \cup StreamFrames("PUSH_PROMISE", {1}, {0}, {{}})
  \cup StreamFrames("UNKNOWN", {1}, {2}, {{}})
  \cup SettingsFrames("ENABLE_PUSH", {2})

MCLifeCycleFrames ==
  BrokenFrames
  \cup StreamFrames("DATA", StreamId, {0}, SUBSET {"END_STREAM"})
  \cup StreamFrames("HEADERS", StreamId, {0},
                    {{"END_HEADERS"}, {"END_HEADERS", "END_STREAM"}, {}, {"END_STREAM"},
                     {"SELF_DEPENDENCY"}})
  \cup StreamFrames("CONTINUATION", {1, 3}, {0, 1}, {{}, {"END_HEADERS"}})
  \cup StreamFrames("PRIORITY", {1}, {0}, {{}, {"SELF_DEPENDENCY"}})
  \cup StreamFrames("RST_STREAM", StreamId, {0}, {{}})
  \cup StreamFrames("PING", {0}, {0}, {{}, {"ACK"}})
  \cup StreamFrames("GOAWAY", {0}, {0, 3}, {{}})
  \cup StreamFrames("UNKNOWN", {1}, {0}, {{}})
  \cup StreamFrames("SETTINGS", {0}, {0}, {{"ACK"}})
  \cup SettingsFrames("MAX_CONCURRENT_STREAMS", {1})
  \cup SettingsFrames("MAX_FRAME_SIZE", {0, 1})

MCFlowFrames ==
  StreamFrames("DATA", {1}, {0, 1, 2, 3}, SUBSET {"END_STREAM"})
  \cup StreamFrames("HEADERS", {1}, {1}, {{"END_HEADERS"}, {"END_HEADERS", "END_STREAM"},
                                           {"END_HEADERS", "UNDECODABLE"}})
  \cup StreamFrames("PRIORITY", {1}, {0}, {{}})
  \cup StreamFrames("RST_STREAM", {1}, {0}, {{}})
  \cup StreamFrames("WINDOW_UPDATE", {0, 1}, {0, 1, 2, 3}, {{}})
  \cup StreamFrames("WINDOW_UPDATE", {1}, {0}, {{"MALFORMED"}})
  \cup SettingsFrames("INITIAL_WINDOW_SIZE", 0 .. 4)
  \cup SettingsFrames("MAX_FRAME_SIZE", {1, 2})
=============================================================================
