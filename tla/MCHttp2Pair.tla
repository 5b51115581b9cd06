---------------------------- MODULE MCHttp2Pair ----------------------------
(***************************************************************************)
(* Http2Pair with two request streams and windows of a few bytes.          *)
(***************************************************************************)
EXTENDS Http2Pair

MCConfig(isServer, window, connectionWindow, streams) ==
  [isServer |-> isServer, initialWindow |-> window, connectionWindow |-> connectionWindow,
   maxConcurrent |-> streams, maxFrame |-> 1]

\* The default windows, and connection windows that have to be announced.
MCClient == MCConfig(FALSE, 2, 3, 2)
MCServer == MCConfig(TRUE, 2, 3, 2)

\* One request at a time.
MCSequentialClient == MCConfig(FALSE, 2, 3, 1)
MCSequentialServer == MCConfig(TRUE, 2, 3, 1)

\* A server that announces a wider stream window than the client's.
MCWideServer == MCConfig(TRUE, 3, 3, 1)
=============================================================================
