--------------------------- MODULE MCHttp2Handler ---------------------------
(***************************************************************************)
(* Http2Handler on small instances: two requests or tunnels, bodies of up  *)
(* to two bytes and windows of one or two.                                 *)
(***************************************************************************)
EXTENDS Http2Handler

MCConfig == [isServer |-> TRUE, initialWindow |-> 2, connectionWindow |-> 2,
             maxConcurrent |-> 2, maxFrame |-> 2]

Flags == {{"END_HEADERS"}, {"END_HEADERS", "END_STREAM"}}

MCIncoming ==
  {MkFrame("HEADERS", s, 0, flags) : s \in ClientIds, flags \in Flags}
    \cup {MkFrame("DATA", s, n, flags) : s \in ClientIds, n \in {0, 1}, flags \in {{}, {"END_STREAM"}}}
    \cup {MkFrame("WINDOW_UPDATE", s, 1, {}) : s \in ClientIds}
    \cup {MkFrame("WINDOW_UPDATE", 0, n, {}) : n \in {1, 2}}
    \cup {MkFrame("RST_STREAM", s, 0, {}) : s \in ClientIds}
    \cup {MkFrame("GOAWAY", 0, 0, {})}

MkAnswer(what, body, source, trailers, timed) ==
  [what |-> what, body |-> body, source |-> source, trailers |-> trailers, timed |-> timed]

Plain(what) == MkAnswer(what, 0, "memory", FALSE, FALSE)

\* Handlers, coroutines and streaming handlers, with bodies that wait for credit.
Responses ==
  {Plain("none"), Plain("early"), Plain("reset"), Plain("discard"),
   MkAnswer("reply", 2, "memory", TRUE, FALSE), MkAnswer("reply", 2, "file", FALSE, FALSE),
   MkAnswer("stream", 2, "memory", TRUE, TRUE), MkAnswer("stream", 1, "file", FALSE, FALSE),
   MkAnswer("async", 1, "memory", FALSE, TRUE), MkAnswer("async now", 0, "memory", FALSE, FALSE)}

\* A proxy: CONNECT is accepted or refused.
Tunnels == {Plain("none"), Plain("broken"), Plain("connect"), Plain("refuse"), Plain("reset")}

MCApplications == {Responses, Tunnels}

\* Streaming handlers that answer with a large body, with an empty file and with
\* a file that cannot be read; a request refused early with a body of its own; a
\* proxy; and one that also serves large bodies.
LargeBody == {{Plain("none"), Plain("reset"), MkAnswer("stream", 2, "memory", FALSE, FALSE)}}
EmptyFile == {{Plain("none"), Plain("reset"), MkAnswer("stream", 0, "file", FALSE, FALSE)}}
BrokenFile == {{Plain("none"), Plain("reset"), MkAnswer("stream", 1, "short", FALSE, FALSE)}}
EarlyBody == {{Plain("none"), Plain("reset"), MkAnswer("early", 2, "memory", FALSE, FALSE)}}
Proxy == {Tunnels}
Mixed == {{Plain("none"), Plain("reset"), Plain("connect"),
           MkAnswer("reply", 2, "memory", FALSE, FALSE)}}
=============================================================================
