----------------------- MODULE Http2ConnectionProofs -----------------------
(***************************************************************************)
(* Proofs about Http2Connection for every value of its constants: any      *)
(* number of streams, any window sizes, any peer and any application.      *)
(*                                                                         *)
(* The bookkeeping of closed streams is a relation between three fields of *)
(* the record (Books); it is proved for each way the map can change        *)
(* (a stream updated, inserted, closed) before the methods that make these *)
(* changes are looked at one by one.                                       *)
(***************************************************************************)
EXTENDS Http2Connection, FiniteSetTheorems, SequenceTheorems, TLAPS

Books(streams, active, fifo) ==
  /\ active = Cardinality(Live(streams))
  /\ FifoExact(streams, fifo)

WindowsOK(st) == st.sendWindow \in 0 .. MaxWindow /\ st.recvWindow \in 0 .. MaxWindow

\* The inductive invariant of the record.
Inv(c) ==
  /\ c \in Connection
  /\ Books(c.streams, c.active, c.closedFifo)
  /\ \A s \in StreamId : WindowsOK(c.streams[s])
  /\ c.cfg.isServer /\ c.state = "GoAwaySent" => c.goAwayLast = c.lastPeer
  /\ c.cb.kind # "None" => c.cb.sid \in StreamId
  /\ c.cb.kind = "None" => c.cb = NoCallback

\* What a method does to the life of streams when it creates none.
Calm(c, d) ==
  /\ d.cfg = c.cfg /\ (c.settingsSent => d.settingsSent)
  /\ c.state = "Closed" => d.state = "Closed"
  /\ \A s \in StreamId : ~IsPresent(c.streams[s]) => ~IsPresent(d.streams[s])
  /\ \A s \in StreamId : IsClosed(c.streams[s]) => d.streams[s].state \in {"Closed", "Absent"}

-----------------------------------------------------------------------------
(* The books *)

\* The streams of a connection are finitely many, so every set of them has a size.
LEMMA LiveIsFinite ==
  ASSUME NEW streams
  PROVE  IsFiniteSet(Live(streams))
<1>1. IsFiniteSet(StreamId)
  BY FS_Interval, EndpointAssumption DEF StreamId
<1>2. Live(streams) \subseteq StreamId
  BY DEF Live
<1> QED BY <1>1, <1>2, FS_Subset

\* A change of a stream's state or windows that keeps it in the map and does not
\* touch its closed mark leaves the books as they were.
LEMMA BooksUpdate ==
  ASSUME NEW streams \in [StreamId -> Stream], NEW active, NEW fifo,
         Books(streams, active, fifo),
         NEW sid \in StreamId, NEW st \in Stream,
         IsPresent(st) <=> IsPresent(streams[sid]),
         st.closedNotified = streams[sid].closedNotified,
         st.closedNotified => IsClosed(st)
  PROVE  Books([streams EXCEPT ![sid] = st], active, fifo)
<1> DEFINE new == [streams EXCEPT ![sid] = st]
<1>1. \A s \in StreamId : new[s] = IF s = sid THEN st ELSE streams[s]
  OBVIOUS
<1>2. Live(new) = Live(streams)
  BY <1>1 DEF Live
<1>3. Kept(new) = Kept(streams)
  BY <1>1 DEF Kept
<1>4. \A s \in Kept(new) : IsClosed(new[s])
  BY <1>1, <1>3 DEF Kept, Books, FifoExact
<1> HIDE DEF new
<1>5. Books(new, active, fifo)
  BY <1>2, <1>3, <1>4 DEF Books, FifoExact
<1> QED BY <1>5 DEF new

\* A stream that enters the map is one more active stream.
LEMMA BooksInsert ==
  ASSUME NEW streams \in [StreamId -> Stream], NEW active, NEW fifo,
         Books(streams, active, fifo),
         NEW sid \in StreamId, NEW st \in Stream,
         ~IsPresent(streams[sid]), IsPresent(st), ~st.closedNotified
  PROVE  Books([streams EXCEPT ![sid] = st], active + 1, fifo)
<1> DEFINE new == [streams EXCEPT ![sid] = st]
<1>1. \A s \in StreamId : new[s] = IF s = sid THEN st ELSE streams[s]
  OBVIOUS
<1>2. Live(new) = Live(streams) \cup {sid} /\ sid \notin Live(streams)
  BY <1>1 DEF Live
<1>3. Kept(new) = Kept(streams)
  BY <1>1 DEF Kept
<1>4. \A s \in Kept(new) : IsClosed(new[s])
  BY <1>1, <1>3 DEF Kept, Books, FifoExact
<1> HIDE DEF new
<1>5. Cardinality(Live(new)) = Cardinality(Live(streams)) + 1
  BY <1>2, LiveIsFinite, FS_AddElement
<1>6. Books(new, active + 1, fifo)
  BY <1>3, <1>4, <1>5 DEF Books, FifoExact
<1> QED BY <1>6 DEF new

\* closeStream marks a Closed stream, counts it down and appends it to the FIFO;
\* pruneClosedStreams then drops at most the oldest one.
LEMMA BooksClose ==
  ASSUME NEW streams \in [StreamId -> Stream], NEW active, NEW fifo \in Seq(StreamId),
         Books(streams, active, fifo),
         NEW sid \in StreamId, IsClosed(streams[sid]), ~streams[sid].closedNotified
  PROVE  LET marked == [streams EXCEPT ![sid] = MarkClosedNotified(@)]
             longer == Append(fifo, sid)
             first  == longer[1]
         IN  /\ active \in Nat \ {0}
             /\ Len(longer) <= Retained => Books(marked, active - 1, longer)
             /\ Len(longer) > Retained =>
                  /\ Len(longer) - Retained = 1
                  /\ first \in StreamId
                  /\ Books([marked EXCEPT ![first] = NoStream], active - 1,
                           SubSeq(longer, 2, Len(longer)))
<1> DEFINE marked == [streams EXCEPT ![sid] = MarkClosedNotified(@)]
           longer == Append(fifo, sid)
           first  == longer[1]
           rest   == SubSeq(longer, 2, Len(longer))
           pruned == [marked EXCEPT ![first] = NoStream]
<1>1. \A s \in StreamId : marked[s] = IF s = sid THEN MarkClosedNotified(streams[sid]) ELSE streams[s]
  OBVIOUS
<1>2. /\ MarkClosedNotified(streams[sid]) \in Stream
      /\ MarkClosedNotified(streams[sid]).closedNotified
      /\ MarkClosedNotified(streams[sid]).state = streams[sid].state
      /\ IsPresent(streams[sid])
  BY DEF MarkClosedNotified, Stream, IsClosed, IsPresent
<1>3. /\ Live(marked) = Live(streams) \ {sid} /\ sid \in Live(streams)
      /\ Kept(marked) = Kept(streams) \cup {sid} /\ sid \notin Kept(streams)
  BY <1>1, <1>2 DEF Live, Kept, IsPresent
<1>4. \A s \in Kept(marked) : IsClosed(marked[s])
  <2>1. \A s \in Kept(streams) : s \in StreamId /\ IsClosed(streams[s])
    BY DEF Books, FifoExact, Kept
  <2> HIDE DEF marked
  <2> QED BY <2>1, <1>1, <1>2, <1>3 DEF IsClosed
<1>5. marked \in [StreamId -> Stream]
  BY <1>1, <1>2
<1>6. /\ longer \in Seq(StreamId) /\ Len(longer) = Len(fifo) + 1
      /\ \A i \in 1 .. Len(fifo) : longer[i] = fifo[i]
      /\ longer[Len(fifo) + 1] = sid
      /\ DOMAIN longer = 1 .. Len(fifo) + 1 /\ DOMAIN fifo = 1 .. Len(fifo)
      /\ Len(fifo) \in Nat
  OBVIOUS
<1>7. Range(longer) = Kept(marked)
  <2>1. Range(fifo) = Kept(streams)
    BY DEF Books, FifoExact
  <2> HIDE DEF longer, marked
  <2>2. ASSUME NEW x \in Range(longer) PROVE x \in Range(fifo) \cup {sid}
    <3>1. PICK i \in 1 .. Len(fifo) + 1 : x = longer[i]
      BY <1>6 DEF Range
    <3>2. CASE i = Len(fifo) + 1
      BY <3>1, <3>2, <1>6
    <3>3. CASE i \in 1 .. Len(fifo)
      BY <3>1, <3>3, <1>6 DEF Range
    <3> QED BY <3>2, <3>3, <1>6
  <2>3. ASSUME NEW x \in Range(fifo) PROVE x \in Range(longer)
    <3>1. PICK i \in 1 .. Len(fifo) : x = fifo[i]
      BY <1>6 DEF Range
    <3>2. i \in 1 .. Len(fifo) + 1
      BY <1>6
    <3> QED BY <3>1, <3>2, <1>6 DEF Range
  <2>4. sid \in Range(longer)
    BY <1>6 DEF Range
  <2> QED BY <2>1, <2>2, <2>3, <2>4, <1>3
<1>8. \A i, j \in DOMAIN longer : longer[i] = longer[j] => i = j
  <2>1. \A i \in 1 .. Len(fifo) : fifo[i] # sid
    BY <1>3, <1>6 DEF Books, FifoExact, Range
  <2>2. \A i \in 1 .. Len(fifo) : longer[i] # sid
    BY <2>1, <1>6
  <2>3. \A i, j \in 1 .. Len(fifo) : longer[i] = longer[j] => i = j
    BY <1>6 DEF Books, FifoExact
  <2>4. \A i \in DOMAIN longer : i \in 1 .. Len(fifo) \/ i = Len(fifo) + 1
    BY <1>6
  <2> QED BY <2>2, <2>3, <2>4, <1>6
<1> HIDE DEF marked, longer
<1>9. /\ active = Cardinality(Live(streams)) /\ active \in Nat \ {0}
      /\ Cardinality(Live(marked)) = active - 1
  <2>1. Cardinality(Live(streams)) \in Nat /\ Cardinality(Live(streams)) # 0
    BY <1>3, LiveIsFinite, FS_CardinalityType, FS_EmptySet
  <2> QED BY <2>1, <1>3, LiveIsFinite, FS_RemoveElement DEF Books
<1>10. ASSUME Len(longer) <= Retained
       PROVE  Books(marked, active - 1, longer)
  BY <1>4, <1>7, <1>8, <1>9, <1>10 DEF Books, FifoExact
<1>11. ASSUME Len(longer) > Retained
       PROVE  /\ Len(longer) - Retained = 1
              /\ first \in StreamId
              /\ Books(pruned, active - 1, rest)
  <2>1. Len(longer) = Retained + 1 /\ Retained \in Nat \ {0}
    <3>1. Retained \in Nat \ {0}
      BY EndpointAssumption
    <3>2. Len(fifo) <= Retained
      BY DEF Books, FifoExact
    <3> QED BY <3>1, <3>2, <1>6, <1>11
  <2>2. first \in StreamId /\ first \in Kept(marked)
    BY <2>1, <1>6, <1>7 DEF Range
  <2>3. \A s \in StreamId : pruned[s] = IF s = first THEN NoStream ELSE marked[s]
    BY <1>5, <2>2
  <2>4. Live(pruned) = Live(marked) /\ Kept(pruned) = Kept(marked) \ {first}
    BY <2>2, <2>3 DEF Live, Kept, NoStream, IsPresent
  <2>5. /\ Len(rest) = Retained /\ DOMAIN rest = 1 .. Retained
        /\ \A i \in 1 .. Retained : rest[i] = longer[i + 1]
    BY <2>1, <1>6
  <2>6. \A i \in 1 .. Retained : i + 1 \in DOMAIN longer /\ i + 1 # 1
    BY <2>1, <1>6
  <2>7. \A i, j \in DOMAIN rest : rest[i] = rest[j] => i = j
    BY <2>5, <2>6, <1>8, <2>1
  <2>8. Range(rest) = Kept(pruned)
    <3> HIDE DEF rest, pruned
    <3>1. ASSUME NEW x \in Range(rest) PROVE x \in Kept(marked) \ {first}
      <4>1. PICK i \in 1 .. Retained : x = longer[i + 1]
        BY <2>5 DEF Range
      <4>2. x \in Range(longer)
        BY <4>1, <2>6 DEF Range
      <4>3. x # first
        BY <4>1, <2>6, <2>1, <1>6, <1>8
      <4> QED BY <4>2, <4>3, <1>7
    <3>2. ASSUME NEW x \in Kept(marked) \ {first} PROVE x \in Range(rest)
      <4>1. PICK k \in 1 .. Retained + 1 : x = longer[k]
        BY <1>6, <1>7, <2>1 DEF Range
      <4>2. k # 1
        BY <4>1
      <4>3. k - 1 \in 1 .. Retained /\ (k - 1) + 1 = k
        BY <4>2, <2>1
      <4> QED BY <4>1, <4>3, <2>5 DEF Range
    <3> QED BY <3>1, <3>2, <2>4
  <2>9. \A s \in Kept(pruned) : IsClosed(pruned[s])
    BY <1>4, <2>3, <2>4 DEF Kept
  <2> HIDE DEF pruned, rest
  <2> QED BY <2>1, <2>2, <2>4, <2>5, <2>7, <2>8, <2>9, <1>9 DEF Books, FifoExact
<1> QED BY <1>9, <1>10, <1>11 DEF marked, longer

-----------------------------------------------------------------------------
(* Methods that create no stream *)

\* Calm steps compose.
LEMMA CalmTransitive ==
  ASSUME NEW c, NEW d, NEW e, Calm(c, d), Calm(d, e)
  PROVE  Calm(c, e)
BY DEF Calm, IsPresent, IsClosed

\* A step that leaves the streams and their books alone.
SameStreams(c, d) ==
  /\ d.cfg = c.cfg /\ (c.settingsSent => d.settingsSent) /\ d.streams = c.streams
  /\ d.active = c.active /\ d.closedFifo = c.closedFifo

SameControl(c, d) ==
  /\ d.state = c.state /\ d.goAwayLast = c.goAwayLast
  /\ d.lastPeer = c.lastPeer /\ d.cb = c.cb

\* A method that leaves the stream map, its counter, its queue and the
\* control state alone keeps the invariant.
LEMMA SameStreamsInv ==
  ASSUME NEW c, Inv(c), NEW d \in Connection, SameStreams(c, d),
         d.cfg.isServer /\ d.state = "GoAwaySent" => d.goAwayLast = d.lastPeer,
         d.cb.kind # "None" => d.cb.sid \in StreamId,
         d.cb.kind = "None" => d.cb = NoCallback
  PROVE  /\ Inv(d)
         /\ (c.state = "Closed" => d.state = "Closed") => Calm(c, d)
BY DEF Inv, Calm, SameStreams, IsClosed

\* Such a method is calm: it neither moves the connection nor a stream.
LEMMA SameControlInv ==
  ASSUME NEW c, Inv(c), NEW d \in Connection, SameStreams(c, d), SameControl(c, d)
  PROVE  Inv(d) /\ Calm(c, d)
BY DEF Inv, Calm, SameStreams, SameControl, IsClosed

\* Writing frames to the output buffer, and taking them from it, touches
\* nothing else.
LEMMA EmitInv ==
  ASSUME NEW c, Inv(c), NEW frames \in Seq(Frame)
  PROVE  /\ Inv(Emit(c, frames)) /\ Calm(c, Emit(c, frames))
         /\ SameStreams(c, Emit(c, frames)) /\ SameControl(c, Emit(c, frames))
         /\ Emit(c, frames) \in Connection
<1>1. c \in Connection
  BY DEF Inv
<1>2. c.out \o frames \in Seq(Frame)
  BY <1>1 DEF Connection
<1>3. Emit(c, frames) \in Connection
  BY <1>1, <1>2 DEF Connection, Emit
<1>4. SameStreams(c, Emit(c, frames)) /\ SameControl(c, Emit(c, frames))
  BY <1>1 DEF Connection, Emit, SameStreams, SameControl
<1> QED BY <1>3, <1>4, SameControlInv

\* Taking the output (onOutputWritten) keeps the invariant.
LEMMA DrainedInv ==
  ASSUME NEW c, Inv(c)
  PROVE  Inv(Drained(c)) /\ Calm(c, Drained(c))
<1>1. c \in Connection
  BY DEF Inv
<1>2. << >> \in Seq(Frame) /\ "NoError" \in ErrorCodes
  BY DEF ErrorCodes
<1>3. Drained(c) \in Connection
  BY <1>1, <1>2 DEF Connection, Drained
<1>4. SameStreams(c, Drained(c)) /\ SameControl(c, Drained(c))
  BY <1>1 DEF Connection, Drained, SameStreams, SameControl
<1> QED BY <1>3, <1>4, SameControlInv

\* The frames the connection writes are frames.
LEMMA MkFrameType ==
  ASSUME NEW type \in FrameTypes, NEW sid \in 0 .. MaxStreamId, NEW n \in Nat,
         NEW flags \in SUBSET FrameFlags
  PROVE  MkFrame(type, sid, n, flags) \in Frame /\ << MkFrame(type, sid, n, flags) >> \in Seq(Frame)
<1>1. MkFrame(type, sid, n, flags) \in Frame
  BY DEF MkFrame, Frame, Settings, NoSettings, NotSet
<1> QED BY <1>1

\* The two changes that methods make to the map besides closing.
WithStream(c, sid, st) == [c EXCEPT !.streams[sid] = st]
WithNewStream(c, sid, st) == [c EXCEPT !.streams[sid] = st, !.active = @ + 1]

\* A method that changes one stream of the map.
LEMMA UpdateStreamInv ==
  ASSUME NEW c, Inv(c), NEW sid \in StreamId, NEW st \in Stream, WindowsOK(st),
         IsPresent(st) <=> IsPresent(c.streams[sid]),
         st.closedNotified = c.streams[sid].closedNotified,
         st.closedNotified => IsClosed(st)
  PROVE  LET d == WithStream(c, sid, st)
         IN  /\ Inv(d) /\ SameControl(c, d) /\ d.streams = [c.streams EXCEPT ![sid] = st]
             /\ (IsClosed(c.streams[sid]) => IsClosed(st)) => Calm(c, d)
<1> DEFINE d == WithStream(c, sid, st)
<1> USE DEF WithStream
<1>1. c \in Connection /\ c.streams \in [StreamId -> Stream]
  BY DEF Inv, Connection
<1>2. d \in Connection /\ d.streams = [c.streams EXCEPT ![sid] = st]
  BY <1>1 DEF Connection
<1>3. Books(d.streams, d.active, d.closedFifo)
  BY <1>1, <1>2, BooksUpdate DEF Inv, Connection
<1>4. Inv(d)
  BY <1>1, <1>2, <1>3 DEF Inv, Connection
<1>5. (IsClosed(c.streams[sid]) => IsClosed(st)) => Calm(c, d)
  BY <1>1, <1>2 DEF Calm, Connection, IsClosed
<1>6. SameControl(c, d)
  BY <1>1 DEF Connection, SameControl
<1> QED BY <1>2, <1>4, <1>5, <1>6

\* closeStream on a Closed stream, reported before or not.
LEMMA CloseStreamInv ==
  ASSUME NEW c, Inv(c), NEW sid \in StreamId, IsClosed(c.streams[sid])
  PROVE  /\ Inv(CloseStream(c, sid)) /\ Calm(c, CloseStream(c, sid))
         /\ SameControl(c, CloseStream(c, sid))
<1> USE DEF SameControl
<1>1. c \in Connection /\ c.streams \in [StreamId -> Stream] /\ c.closedFifo \in Seq(StreamId)
  BY DEF Inv, Connection
<1>2. CASE c.streams[sid].closedNotified
  BY <1>2 DEF CloseStream, Calm, IsClosed
<1>3. CASE ~c.streams[sid].closedNotified
  <2> DEFINE marked == [c.streams EXCEPT ![sid] = MarkClosedNotified(@)]
             longer == Append(c.closedFifo, sid)
             d == [c EXCEPT !.streams[sid] = MarkClosedNotified(@), !.active = @ - 1,
                            !.closedFifo = Append(@, sid)]
             pruned == [marked EXCEPT ![longer[1]] = NoStream]
             rest == SubSeq(longer, 2, Len(longer))
  <2>1. /\ c.active \in Nat \ {0}
        /\ Len(longer) <= Retained => Books(marked, c.active - 1, longer)
        /\ Len(longer) > Retained =>
             /\ Len(longer) - Retained = 1
             /\ longer[1] \in StreamId
             /\ Books(pruned, c.active - 1, rest)
    BY <1>1, <1>3, BooksClose DEF Inv
  <2>2. /\ MarkClosedNotified(c.streams[sid]) \in Stream
        /\ WindowsOK(MarkClosedNotified(c.streams[sid]))
        /\ IsClosed(MarkClosedNotified(c.streams[sid]))
        /\ NoStream \in Stream /\ WindowsOK(NoStream)
    <3>1. NoStream \in Stream /\ WindowsOK(NoStream)
      BY MaxWindowAssumption DEF Stream, WindowsOK, NoStream, StreamStates, Window
    <3>2. c.streams[sid] \in Stream /\ WindowsOK(c.streams[sid])
      BY <1>1 DEF Inv
    <3> QED BY <3>1, <3>2 DEF MarkClosedNotified, Stream, WindowsOK, IsClosed
  <2>3. marked \in [StreamId -> Stream] /\ longer \in Seq(StreamId) /\ Len(longer) \in Nat
    BY <1>1, <2>2
  <2>4. /\ d \in Connection /\ d.streams = marked /\ d.active = c.active - 1
        /\ d.closedFifo = longer /\ d.cfg = c.cfg /\ d.state = c.state /\ d.cb = c.cb
        /\ d.goAwayLast = c.goAwayLast /\ d.lastPeer = c.lastPeer
        /\ d.settingsSent = c.settingsSent
    <3>1. d = [c EXCEPT !.streams = marked, !.active = c.active - 1, !.closedFifo = longer]
      BY <1>1 DEF Connection
    <3>2. c.active - 1 \in Nat
      BY <2>1
    <3> HIDE DEF marked, longer, d
    <3> QED BY <1>1, <2>3, <3>1, <3>2 DEF Connection
  <2>5. CloseStream(c, sid) = PruneClosedStreams(d)
    BY <1>3 DEF CloseStream
  <2>6. \A s \in StreamId : marked[s] = IF s = sid THEN MarkClosedNotified(c.streams[sid]) ELSE c.streams[s]
    BY <1>1
  <2>7. (\A s \in StreamId : WindowsOK(marked[s])) /\ Calm(c, d)
    BY <2>2, <2>4, <2>6 DEF Inv, Calm, IsClosed, IsPresent
  <2> HIDE DEF marked, longer, d
  <2>8. CASE Len(longer) <= Retained
    <3>1. PruneClosedStreams(d) = d
      BY <2>4, <2>8, <2>3, EndpointAssumption DEF PruneClosedStreams
    <3> QED BY <3>1, <2>1, <2>4, <2>5, <2>7, <2>8 DEF Inv
  <2>9. CASE Len(longer) > Retained
    <3> DEFINE e == PruneClosedStreams(d)
    <3>1. Len(longer) - Retained = 1 /\ {longer[i] : i \in 1 .. 1} = {longer[1]}
      BY <2>1, <2>9
    <3>2. PruneClosedStreams(d) = [d EXCEPT !.closedFifo = rest, !.streams = pruned]
      <4>1. [s \in StreamId |-> IF s \in {longer[1]} THEN NoStream ELSE marked[s]] = pruned
        BY <2>1, <2>3, <2>9
      <4>2. rest = SubSeq(longer, 1 + 1, Len(longer))
        OBVIOUS
      <4>3. /\ Len(d.closedFifo) - Retained = 1 /\ ~(1 <= 0)
            /\ {d.closedFifo[i] : i \in 1 .. 1} = {longer[1]}
            /\ d.streams = marked /\ d.closedFifo = longer
        BY <3>1, <2>4
      <4> HIDE DEF pruned, rest
      <4> QED BY <4>1, <4>2, <4>3, <2>4 DEF PruneClosedStreams
    <3>3. pruned \in [StreamId -> Stream] /\ rest \in Seq(StreamId)
      BY <2>1, <2>2, <2>3, <2>9
    <3>4. \A s \in StreamId : pruned[s] = IF s = longer[1] THEN NoStream ELSE marked[s]
      BY <2>1, <2>3, <2>9
    <3> HIDE DEF pruned, rest
    <3>5. /\ e \in Connection /\ e.streams = pruned /\ e.active = c.active - 1
          /\ e.closedFifo = rest /\ e.cfg = c.cfg /\ e.state = c.state /\ e.cb = c.cb
          /\ e.goAwayLast = c.goAwayLast /\ e.lastPeer = c.lastPeer
          /\ e.settingsSent = c.settingsSent
      BY ZenonT(60), <2>4, <3>2, <3>3 DEF Connection
    <3> HIDE DEF e
    <3>6. Inv(e)
      BY <3>4, <3>5, <2>1, <2>2, <2>7, <2>9 DEF Inv
    <3>7. Calm(c, e)
      BY <3>4, <3>5, <2>4, <2>7 DEF Calm, NoStream, IsPresent, IsClosed
    <3> QED BY <3>5, <3>6, <3>7, <2>5 DEF e
  <2> QED BY <2>8, <2>9, <2>3, EndpointAssumption
<1> QED BY <1>2, <1>3

\* initiateGoAway: one frame and the state GoAwaySent, unless it was sent before.
LEMMA InitiateGoAwayInv ==
  ASSUME NEW c, Inv(c)
  PROVE  Inv(InitiateGoAway(c)) /\ Calm(c, InitiateGoAway(c))
<1>1. CASE c.state \in {"Closed", "GoAwaySent"}
  BY <1>1 DEF InitiateGoAway, Calm, IsClosed
<1>2. CASE c.state \notin {"Closed", "GoAwaySent"}
  <2> DEFINE d == Emit(c, << MkFrame("GOAWAY", 0, c.lastPeer, {}) >>)
             e == [d EXCEPT !.state = "GoAwaySent", !.goAwayLast = c.lastPeer]
  <2>1. c \in Connection /\ c.lastPeer \in 0 .. MaxStreamId /\ c.lastPeer \in Nat
    BY EndpointAssumption DEF Inv, Connection
  <2>2. << MkFrame("GOAWAY", 0, c.lastPeer, {}) >> \in Seq(Frame)
    <3>1. "GOAWAY" \in FrameTypes /\ 0 \in 0 .. MaxStreamId /\ {} \in SUBSET FrameFlags
      BY EndpointAssumption DEF FrameTypes
    <3> QED BY <3>1, <2>1, MkFrameType
  <2>3. Inv(d) /\ Calm(c, d) /\ SameStreams(c, d) /\ SameControl(c, d)
    BY <2>2, EmitInv
  <2> HIDE DEF d
  <2>4. /\ e \in Connection /\ SameStreams(d, e)
        /\ e.state = "GoAwaySent" /\ e.goAwayLast = c.lastPeer
        /\ e.lastPeer = d.lastPeer /\ e.cb = d.cb
    BY <2>1, <2>3 DEF Inv, Connection, SameStreams, ConnectionStates
  <2>5. Inv(e) /\ (c.state # "Closed" => Calm(c, e))
    BY <2>3, <2>4, SameStreamsInv DEF Inv, Calm, SameControl, SameStreams, IsClosed
  <2> QED BY <1>2, <2>5 DEF InitiateGoAway, d
<1> QED BY <1>1, <1>2

\* connectionError: GOAWAY, then Closed.
LEMMA ConnectionErrorInv ==
  ASSUME NEW c, Inv(c), NEW code \in ErrorCodes
  PROVE  /\ Inv(ConnectionError(c, code)) /\ Calm(c, ConnectionError(c, code))
         /\ ConnectionError(c, code).state = "Closed"
<1> DEFINE d == InitiateGoAway(c)
           e == [d EXCEPT !.state = "Closed", !.code = code]
<1>1. Inv(d) /\ Calm(c, d) /\ d \in Connection
  BY InitiateGoAwayInv DEF Inv
<1> HIDE DEF d
<1>2. /\ e \in Connection /\ SameStreams(d, e) /\ e.state = "Closed" /\ e.cb = d.cb
  BY <1>1 DEF Connection, SameStreams, ConnectionStates
<1>3. Inv(e) /\ Calm(d, e)
  BY <1>1, <1>2, SameStreamsInv DEF Inv
<1> QED BY <1>1, <1>2, <1>3, CalmTransitive DEF ConnectionError, d

\* sendRstStream, for a stream of the map or for any other identifier.
LEMMA SendRstStreamInv ==
  ASSUME NEW c, Inv(c), NEW sid \in 0 .. MaxStreamId
  PROVE  Inv(SendRstStream(c, sid)) /\ Calm(c, SendRstStream(c, sid))
<1> DEFINE d == Emit(c, << MkFrame("RST_STREAM", sid, 0, {}) >>)
           st == OnRstStream(d.streams[sid])
           e == WithStream(d, sid, st)
<1>1. << MkFrame("RST_STREAM", sid, 0, {}) >> \in Seq(Frame)
  <2>1. "RST_STREAM" \in FrameTypes /\ {} \in SUBSET FrameFlags
    BY DEF FrameTypes
  <2> QED BY <2>1, MkFrameType
<1>2. Inv(d) /\ Calm(c, d) /\ d.streams = c.streams /\ d \in Connection
  <2>1. Inv(d) /\ Calm(c, d) /\ SameStreams(c, d) /\ d \in Connection
    BY <1>1, EmitInv
  <2> QED BY <2>1 DEF SameStreams
<1> HIDE DEF d
<1>3. CASE ~Has(c, sid)
  BY <1>2, <1>3 DEF SendRstStream, d
<1>4. CASE Has(c, sid)
  <2>1. sid \in StreamId /\ IsPresent(d.streams[sid])
    BY <1>2, <1>4 DEF Has
  <2>2. d.streams \in [StreamId -> Stream] /\ WindowsOK(d.streams[sid])
    BY <1>2, <2>1 DEF Inv, Connection
  <2>3. /\ st \in Stream /\ WindowsOK(st) /\ IsClosed(st) /\ IsPresent(st)
        /\ st.closedNotified = d.streams[sid].closedNotified
    BY <2>1, <2>2 DEF OnRstStream, Stream, StreamStates, WindowsOK, IsClosed, IsPresent
  <2> HIDE DEF st
  <2>4. Inv(e) /\ Calm(d, e)
    BY <1>2, <2>1, <2>3, UpdateStreamInv
  <2>5. IsClosed(e.streams[sid])
    BY <1>2, <2>1, <2>2, <2>3 DEF Connection, WithStream
  <2>6. SendRstStream(c, sid) = CloseStream(e, sid)
    BY <1>4 DEF SendRstStream, d, st, WithStream
  <2> QED BY <1>2, <2>1, <2>4, <2>5, <2>6, CloseStreamInv, CalmTransitive
<1> QED BY <1>3, <1>4

\* The error code a method returns is no part of the connection's life.
LEMMA CodeInv ==
  ASSUME NEW c, Inv(c), NEW code \in ErrorCodes
  PROVE  Inv([c EXCEPT !.code = code]) /\ Calm(c, [c EXCEPT !.code = code])
<1> DEFINE d == [c EXCEPT !.code = code]
<1>1. d \in Connection /\ SameStreams(c, d) /\ SameControl(c, d)
  BY DEF Inv, Connection, SameStreams, SameControl
<1> QED BY <1>1, SameControlInv

\* streamError: sendRstStream and a code.
LEMMA StreamErrorInv ==
  ASSUME NEW c, Inv(c), NEW sid \in 0 .. MaxStreamId, NEW code \in ErrorCodes
  PROVE  Inv(StreamError(c, sid, code)) /\ Calm(c, StreamError(c, sid, code))
BY SendRstStreamInv, CodeInv, CalmTransitive DEF StreamError

\* finalizeSendClosedStream closes a stream only when it is Closed.
LEMMA FinalizeInv ==
  ASSUME NEW c, Inv(c), NEW sid \in StreamId
  PROVE  Inv(FinalizeSendClosedStream(c, sid)) /\ Calm(c, FinalizeSendClosedStream(c, sid))
<1>1. Calm(c, c)
  BY DEF Calm, IsClosed
<1> QED BY <1>1, CloseStreamInv DEF FinalizeSendClosedStream

-----------------------------------------------------------------------------
(* Sending *)

\* Cutting n bytes into frames of at most max bytes never yields a negative length.
LEMMA ChunkType ==
  ASSUME NEW n \in Nat, NEW max \in Nat \ {0}, NEW i \in 1 .. ChunkCount(n, max)
  PROVE  ChunkCount(n, max) \in Nat /\ ChunkSize(n, max, i) \in Nat
<1>1. CASE n <= max
  BY <1>1 DEF ChunkCount, ChunkSize
<1>2. CASE ~(n <= max)
  <2> DEFINE k == (n + max - 1) \div max
  <2>1. ChunkCount(n, max) = k
    BY <1>2 DEF ChunkCount
  <2>2. k \in Nat /\ max * k <= n + max - 1
    OBVIOUS
  <2>3. max * (k - 1) = max * k - max
    BY <2>2
  <2>4. (k - 1) * max = max * (k - 1)
    BY <2>2
  <2> HIDE DEF k
  <2>5. n - (k - 1) * max >= 0 /\ n - (k - 1) * max \in Int
    BY <2>2, <2>3, <2>4
  <2> QED BY <2>1, <2>2, <2>5 DEF ChunkSize
<1> QED BY <1>1, <1>2

\* encodeHeaders writes frames: HEADERS and its CONTINUATIONs.
LEMMA HeaderFramesType ==
  ASSUME NEW c, Inv(c), NEW sid \in StreamId, NEW size \in Nat, NEW endStream \in BOOLEAN
  PROVE  HeaderFrames(c, sid, size, endStream) \in Seq(Frame)
<1> DEFINE count == ChunkCount(size, c.peerMaxFrame)
           fs == HeaderFrames(c, sid, size, endStream)
<1>1. c.peerMaxFrame \in Nat \ {0}
  <2>1. c.peerMaxFrame \in MinFrameSize .. MaxFrameSize
    BY DEF Inv, Connection
  <2>2. MinFrameSize \in Nat \ {0} /\ MaxFrameSize \in Nat
    BY EndpointAssumption
  <2> QED BY <2>1, <2>2
<1>2. count \in Nat
  BY <1>1 DEF ChunkCount
<1>3. ASSUME NEW i \in 1 .. count PROVE fs[i] \in Frame
  <2>1. ChunkSize(size, c.peerMaxFrame, i) \in Nat
    BY <1>1, ChunkType
  <2>2. sid \in 0 .. MaxStreamId
    BY EndpointAssumption DEF StreamId
  <2>3. (IF i = 1 THEN "HEADERS" ELSE "CONTINUATION") \in FrameTypes
    BY DEF FrameTypes
  <2>4. (IF i = 1 THEN EndStreamFlag(endStream) ELSE {})
          \cup (IF i = count THEN {"END_HEADERS"} ELSE {}) \in SUBSET FrameFlags
    BY DEF FrameFlags, EndStreamFlag
  <2> HIDE DEF count
  <2> QED BY <2>1, <2>2, <2>3, <2>4, MkFrameType DEF HeaderFrames, count
<1>4. fs = [i \in 1 .. count |-> fs[i]]
  BY DEF HeaderFrames
<1> HIDE DEF fs, count
<1>5. fs \in Seq(Frame)
  BY <1>2, <1>3, <1>4
<1> QED BY <1>5 DEF fs

\* sendData writes frames.
LEMMA DataFramesType ==
  ASSUME NEW c, Inv(c), NEW sid \in StreamId, NEW size \in Nat, NEW endStream \in BOOLEAN
  PROVE  DataFrames(c, sid, size, endStream) \in Seq(Frame)
<1> DEFINE count == IF size = 0 /\ ~endStream THEN 0 ELSE ChunkCount(size, c.peerMaxFrame)
           fs == DataFrames(c, sid, size, endStream)
<1>1. c.peerMaxFrame \in Nat \ {0}
  <2>1. c.peerMaxFrame \in MinFrameSize .. MaxFrameSize
    BY DEF Inv, Connection
  <2>2. MinFrameSize \in Nat \ {0} /\ MaxFrameSize \in Nat
    BY EndpointAssumption
  <2> QED BY <2>1, <2>2
<1>2. count \in Nat /\ (count # 0 => count = ChunkCount(size, c.peerMaxFrame))
  BY <1>1 DEF ChunkCount
<1>3. ASSUME NEW i \in 1 .. count PROVE fs[i] \in Frame
  <2>1. ChunkSize(size, c.peerMaxFrame, i) \in Nat
    BY <1>1, <1>2, ChunkType
  <2>2. sid \in 0 .. MaxStreamId /\ "DATA" \in FrameTypes
    BY EndpointAssumption DEF StreamId, FrameTypes
  <2>3. EndStreamFlag(endStream /\ i = count) \in SUBSET FrameFlags
    BY DEF FrameFlags, EndStreamFlag
  <2> HIDE DEF count
  <2> QED BY <2>1, <2>2, <2>3, MkFrameType DEF DataFrames, count
<1>4. fs = [i \in 1 .. count |-> fs[i]]
  BY DEF DataFrames
<1> HIDE DEF fs, count
<1>5. fs \in Seq(Frame)
  BY <1>2, <1>3, <1>4
<1> QED BY <1>5 DEF fs

\* A stream record fresh from the constructor.
LEMMA NewStreamType ==
  ASSUME NEW w \in 0 .. MaxWindow
  PROVE  /\ NewStream(w) \in Stream /\ WindowsOK(NewStream(w)) /\ IsPresent(NewStream(w))
         /\ ~NewStream(w).closedNotified /\ ~IsClosed(NewStream(w))
BY MaxWindowAssumption
DEF NewStream, Stream, StreamStates, Window, WindowsOK, IsPresent, IsClosed

\* A state change by HEADERS or DATA, in either direction, of a stream that is
\* not Closed keeps windows, mark and presence.
LEMMA TransitionType ==
  ASSUME NEW st \in Stream, WindowsOK(st), IsPresent(st), NEW b \in BOOLEAN
  PROVE  \A t \in {OnSendHeaders(st, b), OnRecvHeaders(st, b), OnSendData(st, b), OnRecvData(st, b)} :
            /\ t \in Stream /\ WindowsOK(t) /\ IsPresent(t)
            /\ t.closedNotified = st.closedNotified
            /\ IsClosed(st) => IsClosed(t)
BY DEF OnSendHeaders, OnRecvHeaders, OnSendData, OnRecvData, Stream, StreamStates, WindowsOK,
       IsPresent, IsClosed

\* try_emplace followed by a state change: a stream enters the map.
LEMMA InsertStreamInv ==
  ASSUME NEW c, Inv(c), NEW sid \in StreamId, ~IsPresent(c.streams[sid]),
         NEW st \in Stream, WindowsOK(st), IsPresent(st), ~st.closedNotified
  PROVE  LET d == WithNewStream(c, sid, st)
         IN  /\ Inv(d) /\ d.cfg = c.cfg /\ d.settingsSent = c.settingsSent /\ SameControl(c, d)
             /\ d.streams = [c.streams EXCEPT ![sid] = st]
<1> DEFINE d == WithNewStream(c, sid, st)
<1> USE DEF WithNewStream
<1>1. c \in Connection /\ c.streams \in [StreamId -> Stream] /\ c.active + 1 \in Nat
  BY SMTT(30) DEF Inv, Connection
<1>2. [c.streams EXCEPT ![sid] = st] \in [StreamId -> Stream]
  BY <1>1
<1>3. /\ d \in Connection /\ d.streams = [c.streams EXCEPT ![sid] = st]
      /\ d.active = c.active + 1 /\ d.closedFifo = c.closedFifo
      /\ d.cfg = c.cfg /\ d.state = c.state /\ d.cb = c.cb
      /\ d.goAwayLast = c.goAwayLast /\ d.lastPeer = c.lastPeer
      /\ d.settingsSent = c.settingsSent
  BY <1>1, <1>2 DEF Connection
<1>4. Books(d.streams, d.active, d.closedFifo)
  BY <1>1, <1>3, BooksInsert DEF Inv
<1>5. \A s \in StreamId : WindowsOK(d.streams[s])
  BY <1>1, <1>3 DEF Inv
<1> HIDE DEF d
<1>6. Inv(d)
  BY <1>3, <1>4, <1>5 DEF Inv
<1> QED BY <1>3, <1>6 DEF SameControl, d

\* What every method does: Closed is final, for the connection and for a stream
\* while it is in the map, and a server that has sent GOAWAY creates no stream.
Proper(c, d) ==
  /\ d.cfg = c.cfg /\ (c.settingsSent => d.settingsSent)
  /\ c.state = "Closed" => d.state = "Closed"
  /\ \A s \in StreamId : IsClosed(c.streams[s]) => d.streams[s].state \in {"Closed", "Absent"}
  /\ c.cfg.isServer /\ c.state = "GoAwaySent" =>
       \A s \in StreamId : ~IsPresent(c.streams[s]) => ~IsPresent(d.streams[s])

\* A calm step is a proper one, and stays one when calm steps follow a proper one.
LEMMA CalmIsProper ==
  ASSUME NEW c, NEW d, Calm(c, d)
  PROVE  Proper(c, d)
BY DEF Calm, Proper

\* A proper step followed by a calm one is proper.
LEMMA ProperThenCalm ==
  ASSUME NEW c, NEW d, NEW e, Proper(c, d), Calm(d, e)
  PROVE  Proper(c, e)
BY DEF Calm, Proper, IsPresent, IsClosed

\* sendHeaders and sendRequestHeaders, which may create the stream.
LEMMA SendHeadersInv ==
  ASSUME NEW c, Inv(c), NEW sid \in StreamId, NEW size \in Nat, NEW endStream \in BOOLEAN
  PROVE  Inv(SendHeaders(c, sid, size, endStream)) /\ Proper(c, SendHeaders(c, sid, size, endStream))
<1> DEFINE d == Emit(c, HeaderFrames(c, sid, size, endStream))
           r == SendHeaders(c, sid, size, endStream)
<1>0. c \in Connection /\ c.streams \in [StreamId -> Stream]
  BY DEF Inv, Connection
<1>1. CASE SendHeadersError(c, sid) # "NoError"
  <2>1. SendHeadersError(c, sid) \in ErrorCodes
    BY DEF SendHeadersError, ErrorCodes
  <2>2. r = [c EXCEPT !.code = SendHeadersError(c, sid)]
    BY <1>1 DEF SendHeaders
  <2> QED BY <2>1, <2>2, CodeInv, CalmIsProper
<1>2. /\ Inv(d) /\ Calm(c, d) /\ d.streams = c.streams /\ d.state = c.state /\ d.cfg = c.cfg
      /\ d \in Connection /\ (c.settingsSent => d.settingsSent)
  <2>1. HeaderFrames(c, sid, size, endStream) \in Seq(Frame)
    BY HeaderFramesType
  <2>2. Inv(d) /\ Calm(c, d) /\ SameStreams(c, d) /\ SameControl(c, d) /\ d \in Connection
    BY <2>1, EmitInv
  <2> HIDE DEF d
  <2> QED BY <2>2 DEF SameStreams, SameControl
<1>3. ASSUME SendHeadersError(c, sid) = "NoError", ~Has(c, sid)
      PROVE  Inv(r) /\ Proper(c, r)
  <2> DEFINE st == OnSendHeaders(NewStream(c.peerInitialWindow), endStream)
             e == WithNewStream(d, sid, st)
  <2>1. c.peerInitialWindow \in 0 .. MaxWindow
    BY DEF Inv, Connection
  <2>2. st \in Stream /\ WindowsOK(st) /\ IsPresent(st) /\ ~st.closedNotified
    BY <2>1, NewStreamType, TransitionType
  <2>3. ~IsPresent(c.streams[sid])
    BY <1>3 DEF Has
  <2>4. r = e
    BY <1>3 DEF SendHeaders, WithNewStream
  <2> HIDE DEF st, d
  <2>5. /\ Inv(e) /\ e.cfg = d.cfg /\ e.state = d.state /\ e.settingsSent = d.settingsSent
        /\ e.streams = [d.streams EXCEPT ![sid] = st]
    <3>1. ~IsPresent(d.streams[sid])
      BY <1>2, <2>3
    <3> QED BY <1>2, <2>2, <3>1, InsertStreamInv DEF SameControl
  <2>6. c.cfg.isServer => c.state = "Open"
    BY <1>3 DEF SendHeadersError, CanCreateStreams
  <2>7. \A s \in StreamId : IsClosed(c.streams[s]) => e.streams[s].state \in {"Closed", "Absent"}
    BY <1>0, <1>2, <2>3, <2>5 DEF IsClosed, IsPresent
  <2> HIDE DEF r, e
  <2> QED BY <1>2, <2>4, <2>5, <2>6, <2>7 DEF Proper
<1>4. ASSUME SendHeadersError(c, sid) = "NoError", Has(c, sid)
      PROVE  Inv(r) /\ Proper(c, r)
  <2> DEFINE st == OnSendHeaders(c.streams[sid], endStream)
             e == WithStream(d, sid, st)
  <2>1. IsPresent(c.streams[sid]) /\ c.streams[sid] \in Stream /\ WindowsOK(c.streams[sid])
    BY <1>0, <1>4 DEF Has, Inv
  <2>2. /\ st \in Stream /\ WindowsOK(st) /\ IsPresent(st)
        /\ st.closedNotified = c.streams[sid].closedNotified
        /\ IsClosed(c.streams[sid]) => IsClosed(st)
    BY <2>1, TransitionType
  <2>3. st.closedNotified => IsClosed(st)
    BY <2>1, <2>2 DEF Inv, Books, FifoExact, Kept
  <2>4. r = e
    <3>1. r = [d EXCEPT !.streams[sid] = st, !.active = @]
      BY <1>4 DEF SendHeaders
    <3> HIDE DEF d, st
    <3> QED BY <1>2, <3>1 DEF Connection, WithStream
  <2> HIDE DEF st, d
  <2>5. Inv(e) /\ Calm(d, e)
    BY <1>2, <2>1, <2>2, <2>3, UpdateStreamInv
  <2> HIDE DEF r, e
  <2> QED BY <1>2, <2>4, <2>5, CalmTransitive, CalmIsProper
<1> QED BY <1>1, <1>3, <1>4

\* A stream of the map that is reported closed is Closed.
LEMMA NotifiedIsClosed ==
  ASSUME NEW c, Inv(c), NEW s \in StreamId, IsPresent(c.streams[s])
  PROVE  c.streams[s].closedNotified => IsClosed(c.streams[s])
BY DEF Inv, Books, FifoExact, Kept

\* sendData consumes no more than both windows hold and never closes the books
\* of the stream itself.
LEMMA SendDataInv ==
  ASSUME NEW c, Inv(c), NEW sid \in StreamId, NEW size \in Nat, NEW endStream \in BOOLEAN
  PROVE  Inv(SendData(c, sid, size, endStream)) /\ Calm(c, SendData(c, sid, size, endStream))
<1> DEFINE d == Emit(c, DataFrames(c, sid, size, endStream))
           r == SendData(c, sid, size, endStream)
<1>0. c \in Connection /\ c.streams \in [StreamId -> Stream]
  BY DEF Inv, Connection
<1>1. CASE SendDataError(c, sid, size) # "NoError"
  <2>1. SendDataError(c, sid, size) \in ErrorCodes
    BY DEF SendDataError, ErrorCodes
  <2> QED BY <1>1, <2>1, CodeInv DEF SendData
<1>2. CASE SendDataError(c, sid, size) = "NoError"
  <2> DEFINE used == ConsumeSendWindow(c.streams[sid], size)
             st == OnSendData(used, endStream)
             e == [d EXCEPT !.sendWindow = @ - size]
             f == WithStream(e, sid, st)
  <2>1. /\ Has(c, sid) /\ CanSend(c.streams[sid]) /\ CanConsumeSend(c.streams[sid], size)
        /\ c.sendWindow >= size
    <3>1. Has(c, sid) /\ CanSend(c.streams[sid]) /\ CanConsumeSend(c.streams[sid], size)
      BY <1>2 DEF SendDataError
    <3>2. ~(c.sendWindow < size)
      BY <1>2 DEF SendDataError
    <3> QED BY SMTT(30), <1>0, <3>1, <3>2 DEF Connection
  <2>2. Inv(d) /\ Calm(c, d) /\ SameStreams(c, d) /\ d \in Connection /\ d.sendWindow = c.sendWindow
    <3>1. Inv(d) /\ Calm(c, d) /\ SameStreams(c, d) /\ d \in Connection
      <4>1. DataFrames(c, sid, size, endStream) \in Seq(Frame)
        BY DataFramesType
      <4> QED BY <4>1, EmitInv
    <3>2. d.sendWindow = c.sendWindow
      BY <1>0 DEF Emit, Connection
    <3> QED BY <3>1, <3>2
  <2>3. IsPresent(c.streams[sid]) /\ c.streams[sid] \in Stream /\ WindowsOK(c.streams[sid])
    BY <1>0, <2>1 DEF Has, Inv
  <2>4. /\ used \in Stream /\ WindowsOK(used) /\ IsPresent(used)
        /\ used.closedNotified = c.streams[sid].closedNotified
        /\ used.state = c.streams[sid].state
    BY <2>1, <2>3, MaxWindowAssumption
    DEF ConsumeSendWindow, CanConsumeSend, Stream, WindowsOK, IsPresent, Window
  <2> HIDE DEF used
  <2>5. /\ st \in Stream /\ WindowsOK(st) /\ IsPresent(st)
        /\ st.closedNotified = c.streams[sid].closedNotified
        /\ IsClosed(c.streams[sid]) => IsClosed(st)
    BY ZenonT(60), <2>4, TransitionType DEF IsClosed
  <2>6. r = f
    <3>1. r = [d EXCEPT !.sendWindow = @ - size,
                        !.streams[sid] = OnSendData(ConsumeSendWindow(@, size), endStream)]
      BY <1>2 DEF SendData
    <3>2. d.streams[sid] = c.streams[sid]
      BY <2>2 DEF SameStreams
    <3> HIDE DEF d
    <3> QED BY <3>1, <3>2, <2>2 DEF Connection, used, WithStream
  <2> HIDE DEF st, d
  <2>7. Inv(e) /\ Calm(d, e) /\ e.streams = c.streams
    <3>1. d.sendWindow - size \in 0 .. MaxWindow
      <4>1. c.sendWindow \in 0 .. MaxWindow
        BY <1>0 DEF Connection
      <4> QED BY <4>1, <2>1, <2>2, MaxWindowAssumption
    <3>2. e \in Connection /\ SameStreams(d, e) /\ SameControl(d, e)
      BY <2>2, <3>1 DEF Connection, SameStreams, SameControl
    <3> QED BY <2>2, <3>2, SameControlInv DEF SameStreams
  <2> HIDE DEF e
  <2>8. Inv(f) /\ Calm(e, f)
    <3>2. st.closedNotified => IsClosed(st)
      BY <2>3, <2>5, NotifiedIsClosed
    <3> QED BY <2>3, <2>5, <2>7, <3>2, UpdateStreamInv
  <2> QED BY <2>2, <2>6, <2>7, <2>8, CalmTransitive
<1> QED BY <1>1, <1>2

\* sendWindowUpdate keeps the widened receive window within its bound, on the
\* connection, on a stream of the map and on any other identifier.
LEMMA SendWindowUpdateInv ==
  ASSUME NEW c, Inv(c), NEW sid \in 0 .. MaxStreamId, NEW n \in Nat
  PROVE  /\ Inv(SendWindowUpdate(c, sid, n)) /\ Calm(c, SendWindowUpdate(c, sid, n))
         /\ SendWindowUpdate(c, sid, n).cb = c.cb
<1> DEFINE d == Emit(c, << MkFrame("WINDOW_UPDATE", sid, n, {}) >>)
           r == SendWindowUpdate(c, sid, n)
<1>1. << MkFrame("WINDOW_UPDATE", sid, n, {}) >> \in Seq(Frame)
  <2>1. "WINDOW_UPDATE" \in FrameTypes /\ {} \in SUBSET FrameFlags
    BY DEF FrameTypes
  <2> QED BY <2>1, MkFrameType
<1>2. Inv(d) /\ Calm(c, d) /\ d.streams = c.streams /\ d.cb = c.cb /\ d \in Connection
  <2>1. Inv(d) /\ Calm(c, d) /\ SameStreams(c, d) /\ SameControl(c, d) /\ d \in Connection
    BY <1>1, EmitInv
  <2> QED BY <2>1 DEF SameStreams, SameControl
<1> HIDE DEF d
<1>3. CASE sid = 0
  <2> DEFINE e == [d EXCEPT !.recvWindow = IF @ + n > MaxWindow THEN MaxWindow ELSE @ + n]
  <2>0. (IF d.recvWindow + n > MaxWindow THEN MaxWindow ELSE d.recvWindow + n) \in 0 .. MaxWindow
    <3>1. d.recvWindow \in 0 .. MaxWindow
      BY <1>2 DEF Connection
    <3> QED BY <3>1, MaxWindowAssumption
  <2>1. e \in Connection /\ SameStreams(d, e) /\ SameControl(d, e)
    BY <1>2, <2>0 DEF Connection, SameStreams, SameControl
  <2>2. r = e
    BY <1>3 DEF SendWindowUpdate, d
  <2>3. Inv(e) /\ Calm(d, e) /\ e.cb = c.cb
    BY <1>2, <2>1, SameControlInv DEF SameControl
  <2> QED BY <1>2, <2>2, <2>3, CalmTransitive
<1>4. CASE sid # 0 /\ ~Has(c, sid)
  BY <1>2, <1>4 DEF SendWindowUpdate, d
<1>5. CASE sid # 0 /\ Has(c, sid)
  <2> DEFINE st == IncreaseRecvWindow(d.streams[sid], n)
             e == WithStream(d, sid, st)
  <2>1. sid \in StreamId /\ IsPresent(d.streams[sid])
    BY <1>2, <1>5 DEF Has
  <2>2. d.streams[sid] \in Stream /\ WindowsOK(d.streams[sid])
    BY <1>2, <2>1 DEF Inv, Connection
  <2>3. /\ st \in Stream /\ WindowsOK(st) /\ IsPresent(st)
        /\ st.closedNotified = d.streams[sid].closedNotified
        /\ st.state = d.streams[sid].state
    BY <2>1, <2>2, MaxWindowAssumption
    DEF IncreaseRecvWindow, Stream, WindowsOK, IsPresent, Window
  <2>4. r = e
    BY <1>5 DEF SendWindowUpdate, d, WithStream
  <2> HIDE DEF st
  <2>5. Inv(e) /\ Calm(d, e) /\ e.cb = d.cb
    <3>1. st.closedNotified => IsClosed(st)
      BY <1>2, <2>1, <2>3, NotifiedIsClosed DEF IsClosed
    <3> QED BY <1>2, <2>1, <2>3, <3>1, UpdateStreamInv DEF IsClosed, SameControl
  <2> QED BY <1>2, <2>4, <2>5, CalmTransitive
<1> QED BY <1>3, <1>4, <1>5

-----------------------------------------------------------------------------
(* Preface and callbacks *)

\* sendSettings writes the settings and, for a large connection window, the
\* WINDOW_UPDATE that announces it.
LEMMA SendSettingsInv ==
  ASSUME NEW c, Inv(c)
  PROVE  /\ Inv(SendSettings(c)) /\ Calm(c, SendSettings(c))
         /\ SendSettings(c).settingsSent /\ SendSettings(c).state = c.state
<1> DEFINE settings == [NoSettings EXCEPT !["ENABLE_PUSH"]            = 0,
                                          !["MAX_CONCURRENT_STREAMS"] = c.cfg.maxConcurrent,
                                          !["INITIAL_WINDOW_SIZE"]    = c.cfg.initialWindow,
                                          !["MAX_FRAME_SIZE"]         = c.cfg.maxFrame]
           boost == IF c.cfg.connectionWindow > DefaultWindow
                    THEN << MkFrame("WINDOW_UPDATE", 0, c.cfg.connectionWindow - DefaultWindow, {}) >>
                    ELSE << >>
           d == Emit(c, << MkSettings(settings) >> \o boost)
           e == [d EXCEPT !.settingsSent = TRUE]
<1>1. c \in Connection /\ c.cfg \in Config
  BY DEF Inv, Connection
<1>2. c.cfg.maxConcurrent \in Nat /\ c.cfg.initialWindow \in Nat /\ c.cfg.maxFrame \in Nat
      /\ c.cfg.connectionWindow \in Nat /\ DefaultWindow \in Nat
  BY <1>1, MaxWindowAssumption, EndpointAssumption DEF Config
<1>3. settings \in Settings
  BY <1>2 DEF Settings, NoSettings, Parameters, NotSet
<1> HIDE DEF settings
<1>4. << MkSettings(settings) >> \in Seq(Frame)
  <2>1. MkSettings(settings) \in Frame
    BY <1>3, EndpointAssumption DEF MkSettings, Frame, FrameTypes
  <2> QED BY <2>1
<1>5. boost \in Seq(Frame)
  <2>1. CASE c.cfg.connectionWindow > DefaultWindow
    <3>1. /\ "WINDOW_UPDATE" \in FrameTypes /\ {} \in SUBSET FrameFlags /\ 0 \in 0 .. MaxStreamId
          /\ c.cfg.connectionWindow - DefaultWindow \in Nat
      BY <1>2, <2>1, EndpointAssumption DEF FrameTypes
    <3> QED BY <2>1, <3>1, MkFrameType
  <2>2. CASE ~(c.cfg.connectionWindow > DefaultWindow)
    BY <2>2
  <2> QED BY <2>1, <2>2
<1> HIDE DEF boost
<1>6. << MkSettings(settings) >> \o boost \in Seq(Frame)
  BY <1>4, <1>5
<1>7. /\ Inv(d) /\ Calm(c, d) /\ d \in Connection /\ d.state = c.state
  <2>1. Inv(d) /\ Calm(c, d) /\ SameControl(c, d) /\ d \in Connection
    BY <1>6, EmitInv
  <2> QED BY <2>1 DEF SameControl
<1>8. SendSettings(c) = e
  BY DEF SendSettings, settings, boost
<1> HIDE DEF d
<1>9. /\ e \in Connection /\ SameStreams(d, e) /\ SameControl(d, e) /\ e.settingsSent
  BY <1>7 DEF Connection, SameStreams, SameControl
<1>10. Inv(e) /\ Calm(d, e) /\ e.state = c.state
  BY <1>7, <1>9, SameControlInv DEF SameControl
<1> QED BY <1>7, <1>8, <1>9, <1>10, CalmTransitive

\* A change of state to AwaitingSettings or Open.
LEMMA StateInv ==
  ASSUME NEW c, Inv(c), c.state # "Closed", NEW st \in {"AwaitingSettings", "Open"}
  PROVE  Inv([c EXCEPT !.state = st]) /\ Calm(c, [c EXCEPT !.state = st])
<1> DEFINE d == [c EXCEPT !.state = st]
<1>1. c \in Connection /\ st \in ConnectionStates
  BY DEF Inv, ConnectionStates
<1>2. /\ d \in Connection /\ SameStreams(c, d) /\ d.state = st /\ d.cb = c.cb
  BY <1>1 DEF Connection, SameStreams
<1> HIDE DEF d
<1>3. Inv(d) /\ Calm(c, d)
  BY <1>2, SameStreamsInv DEF Inv
<1> QED BY <1>3 DEF d

\* The prefaces of both sides.
LEMMA PrefaceInv ==
  ASSUME NEW c, Inv(c), NEW valid \in BOOLEAN
  PROVE  /\ Inv(SendServerPreface(c)) /\ Calm(c, SendServerPreface(c))
         /\ c.state # "Closed" =>
              /\ Inv(SendClientPreface(c)) /\ Calm(c, SendClientPreface(c))
              /\ ~c.cfg.isServer => SendClientPreface(c).settingsSent
              /\ Inv(ProcessPreface(c, valid)) /\ Calm(c, ProcessPreface(c, valid))
<1>1. Inv(SendServerPreface(c)) /\ Calm(c, SendServerPreface(c))
  BY SendSettingsInv DEF SendServerPreface, Calm, IsClosed
<1>2. ASSUME c.state # "Closed"
      PROVE  /\ Inv(SendClientPreface(c)) /\ Calm(c, SendClientPreface(c))
             /\ ~c.cfg.isServer => SendClientPreface(c).settingsSent
  <2>1. CASE c.cfg.isServer \/ c.settingsSent
    BY <2>1 DEF SendClientPreface, Calm, IsClosed
  <2>2. CASE ~(c.cfg.isServer \/ c.settingsSent)
    <3> DEFINE d == SendSettings(c)
               e == [d EXCEPT !.state = "AwaitingSettings"]
    <3>1. Inv(d) /\ Calm(c, d) /\ d.settingsSent /\ d.state # "Closed"
      BY <1>2, SendSettingsInv
    <3>2. SendClientPreface(c) = e
      BY <2>2 DEF SendClientPreface
    <3> HIDE DEF d
    <3>3. Inv(e) /\ Calm(d, e) /\ e.settingsSent
      BY <3>1, StateInv DEF Calm
    <3> QED BY <3>1, <3>2, <3>3, CalmTransitive
  <2> QED BY <2>1, <2>2
<1>3. ASSUME c.state # "Closed"
      PROVE  Inv(ProcessPreface(c, valid)) /\ Calm(c, ProcessPreface(c, valid))
  <2> DEFINE d == [c EXCEPT !.state = "AwaitingSettings"]
  <2>1. Inv(d) /\ Calm(c, d)
    BY <1>3, StateInv
  <2> HIDE DEF d
  <2>2. Inv(SendSettings(d)) /\ Calm(c, SendSettings(d))
    BY <2>1, SendSettingsInv, CalmTransitive
  <2>3. "ProtocolError" \in ErrorCodes
    BY DEF ErrorCodes
  <2>4. ProcessPreface(c, valid) \in {ConnectionError(c, "ProtocolError"), d, SendSettings(d)}
    BY DEF ProcessPreface, d
  <2> QED BY <2>1, <2>2, <2>3, <2>4, ConnectionErrorInv
<1> QED BY <1>1, <1>2, <1>3

\* The record of the callback under way is set when the application is called
\* and reset when it returns.
LEMMA CallbackInv ==
  ASSUME NEW c, Inv(c),
         NEW cb, \/ cb = NoCallback
                 \/ \E kind \in {"Headers", "Continuation", "Data"}, sid \in StreamId, n \in Nat,
                       endStream \in BOOLEAN : cb = Callback(kind, sid, n, endStream)
  PROVE  Inv([c EXCEPT !.cb = cb]) /\ Calm(c, [c EXCEPT !.cb = cb])
<1> DEFINE d == [c EXCEPT !.cb = cb]
<1>1. /\ cb \in [kind : {"None", "Headers", "Continuation", "Data"}, sid : 0 .. MaxStreamId,
                 n : Nat, endStream : BOOLEAN]
      /\ cb.kind # "None" => cb.sid \in StreamId
      /\ cb.kind = "None" => cb = NoCallback
  <2>1. CASE cb = NoCallback
    BY <2>1, EndpointAssumption DEF NoCallback
  <2>2. ASSUME NEW kind \in {"Headers", "Continuation", "Data"}, NEW sid \in StreamId,
               NEW n \in Nat, NEW endStream \in BOOLEAN, cb = Callback(kind, sid, n, endStream)
        PROVE  /\ cb \in [kind : {"None", "Headers", "Continuation", "Data"}, sid : 0 .. MaxStreamId,
                           n : Nat, endStream : BOOLEAN]
               /\ cb.kind # "None" /\ cb.sid \in StreamId
    BY <2>2, EndpointAssumption DEF Callback, StreamId
  <2> QED BY <2>1, <2>2
<1>2. c \in Connection
  BY DEF Inv
<1>3. /\ d \in Connection /\ SameStreams(c, d) /\ d.cb = cb /\ d.state = c.state
      /\ d.goAwayLast = c.goAwayLast /\ d.lastPeer = c.lastPeer
  BY <1>1, <1>2 DEF Connection, SameStreams
<1> HIDE DEF d
<1>4. d.cfg.isServer /\ d.state = "GoAwaySent" => d.goAwayLast = d.lastPeer
  BY <1>3 DEF Inv, SameStreams
<1>5. Inv(d) /\ Calm(c, d)
  BY <1>1, <1>3, <1>4, SameStreamsInv
<1> QED BY <1>5 DEF d

\* The second half of a handler that called the application.
LEMMA FinishCallbackInv ==
  ASSUME NEW c, Inv(c), c.cb # NoCallback
  PROVE  Inv(FinishCallback(c)) /\ Calm(c, FinishCallback(c))
<1> DEFINE cb == c.cb
           once == SendWindowUpdate(c, cb.sid, cb.n)
           twice == SendWindowUpdate(once, 0, cb.n)
           restored == IF cb.kind = "Data" /\ cb.n > 0 THEN twice ELSE c
           closed == IF cb.endStream /\ IsClosed(restored.streams[cb.sid])
                     THEN CloseStream(restored, cb.sid) ELSE restored
           reset == [closed EXCEPT !.headerBlock.sid = 0, !.headerBlock.size = 0]
           cleared == IF cb.kind = "Continuation" THEN reset ELSE closed
<1>1. cb.sid \in StreamId /\ cb.n \in Nat
  BY DEF Inv, Connection
<1>2. Inv(restored) /\ Calm(c, restored)
  <2>1. cb.sid \in 0 .. MaxStreamId /\ 0 \in 0 .. MaxStreamId
    BY <1>1, EndpointAssumption DEF StreamId
  <2> HIDE DEF cb
  <2>2. Inv(once) /\ Calm(c, once)
    BY <1>1, <2>1, SendWindowUpdateInv
  <2> HIDE DEF once
  <2>3. Inv(twice) /\ Calm(c, twice)
    BY <1>1, <2>1, <2>2, SendWindowUpdateInv, CalmTransitive
  <2> HIDE DEF twice
  <2>4. Inv(c) /\ Calm(c, c)
    BY DEF Calm, IsClosed
  <2> QED BY <2>3, <2>4
<1>3. FinishCallback(c) = [cleared EXCEPT !.cb = NoCallback]
  BY DEF FinishCallback
<1> HIDE DEF restored, cb
<1>4. Inv(closed) /\ Calm(c, closed)
  <2>1. CASE cb.endStream /\ IsClosed(restored.streams[cb.sid])
    <3>1. Inv(CloseStream(restored, cb.sid)) /\ Calm(restored, CloseStream(restored, cb.sid))
      BY <1>1, <1>2, <2>1, CloseStreamInv
    <3> QED BY <1>2, <2>1, <3>1, CalmTransitive
  <2>2. CASE ~(cb.endStream /\ IsClosed(restored.streams[cb.sid]))
    BY <1>2, <2>2
  <2> QED BY <2>1, <2>2
<1> HIDE DEF closed
<1>5. Inv(reset) /\ Calm(c, reset)
  <2>1. closed \in Connection
    BY <1>4 DEF Inv
  <2>2. /\ closed.headerBlock \in [sid : 0 .. MaxStreamId, size : Nat, endStream : BOOLEAN]
        /\ 0 \in 0 .. MaxStreamId
    BY <2>1, EndpointAssumption DEF Connection
  <2> DEFINE block == [closed.headerBlock EXCEPT !.sid = 0, !.size = 0]
  <2>3. block \in [sid : 0 .. MaxStreamId, size : Nat, endStream : BOOLEAN]
    BY <2>2
  <2>4. reset = [closed EXCEPT !.headerBlock = block]
    BY <2>1 DEF Connection
  <2> HIDE DEF block, reset
  <2>5. reset \in Connection /\ SameStreams(closed, reset) /\ SameControl(closed, reset)
    BY <2>1, <2>3, <2>4 DEF Connection, SameStreams, SameControl
  <2> QED BY <1>4, <2>5, SameControlInv, CalmTransitive
<1> HIDE DEF reset
<1>6. Inv(cleared) /\ Calm(c, cleared)
  BY <1>4, <1>5
<1> HIDE DEF cleared
<1>7. Inv([cleared EXCEPT !.cb = NoCallback]) /\ Calm(cleared, [cleared EXCEPT !.cb = NoCallback])
  BY <1>6, CallbackInv
<1> QED BY <1>3, <1>6, <1>7, CalmTransitive

-----------------------------------------------------------------------------
(* Frames *)

\* What a handler returns on an error, and when it ignores the frame.
LEMMA ErrorsInv ==
  ASSUME NEW c, Inv(c), NEW sid \in 0 .. MaxStreamId, NEW code \in ErrorCodes
  PROVE  /\ Inv(ConnectionError(c, code)) /\ Calm(c, ConnectionError(c, code))
         /\ Inv(StreamError(c, sid, code)) /\ Calm(c, StreamError(c, sid, code))
         /\ Calm(c, c)
<1>1. Calm(c, c)
  BY DEF Calm, IsClosed
<1> QED BY <1>1, ConnectionErrorInv, StreamErrorInv

\* DATA: charged to the connection, then to the stream, then delivered.
LEMMA HandleDataFrameInv ==
  ASSUME NEW c, Inv(c), NEW f \in Frame
  PROVE  Inv(HandleDataFrame(c, f)) /\ Calm(c, HandleDataFrame(c, f))
<1> DEFINE d == [c EXCEPT !.recvWindow = @ - f.n]
           used == ConsumeRecvWindow(d.streams[f.sid], f.n)
           st == OnRecvData(used, EndsStream(f))
           e == WithStream(d, f.sid, st)
           cb == Callback("Data", f.sid, f.n, EndsStream(f))
           g == [e EXCEPT !.cb = cb]
           r == HandleDataFrame(c, f)
<1>0. f.sid \in 0 .. MaxStreamId /\ f.n \in Nat /\ EndsStream(f) \in BOOLEAN /\ c \in Connection
  BY DEF Frame, EndsStream, Inv
<1>1. {"ProtocolError", "FrameSizeError", "FlowControlError", "StreamClosed"} \subseteq ErrorCodes
  BY DEF ErrorCodes
<1>2. CASE f.sid = 0 \/ Malformed(f) \/ f.n > c.recvWindow
  <2>1. \E code \in {"ProtocolError", "FrameSizeError", "FlowControlError"} : r = ConnectionError(c, code)
    BY <1>2 DEF HandleDataFrame
  <2> QED BY <1>0, <1>1, <2>1, ErrorsInv
<1>3. ASSUME ~(f.sid = 0 \/ Malformed(f) \/ f.n > c.recvWindow)
      PROVE  Inv(r) /\ Calm(c, r)
  <2>1. Inv(d) /\ Calm(c, d) /\ d.streams = c.streams /\ d \in Connection
    <3>1. c.recvWindow \in 0 .. MaxWindow
      BY <1>0 DEF Connection
    <3>2. c.recvWindow - f.n \in 0 .. MaxWindow
      BY <1>0, <1>3, <3>1, MaxWindowAssumption
    <3>3. d \in Connection /\ SameStreams(c, d) /\ SameControl(c, d)
      BY <1>0, <3>2 DEF Connection, SameStreams, SameControl
    <3> QED BY <3>3, SameControlInv DEF SameStreams
  <2>2. r = IF ~Has(c, f.sid) THEN d
            ELSE IF ~CanReceive(d.streams[f.sid]) THEN StreamError(d, f.sid, "StreamClosed")
            ELSE IF ~CanConsumeRecv(d.streams[f.sid], f.n) THEN StreamError(d, f.sid, "FlowControlError")
            ELSE [d EXCEPT !.streams[f.sid] = st, !.cb = cb]
    BY <1>3 DEF HandleDataFrame
  <2> HIDE DEF d, r, cb
  <2>3. \A code \in {"StreamClosed", "FlowControlError"} :
           Inv(StreamError(d, f.sid, code)) /\ Calm(c, StreamError(d, f.sid, code))
    BY <1>0, <1>1, <2>1, ErrorsInv, CalmTransitive
  <2>4. ASSUME Has(c, f.sid), CanConsumeRecv(d.streams[f.sid], f.n)
        PROVE  /\ Inv(g) /\ Calm(c, g)
               /\ g = [d EXCEPT !.streams[f.sid] = st, !.cb = cb]
    <3>1. /\ f.sid \in StreamId /\ IsPresent(d.streams[f.sid])
          /\ d.streams[f.sid] \in Stream /\ WindowsOK(d.streams[f.sid])
      BY <2>1, <2>4 DEF Has, Inv, Connection
    <3>2. /\ used \in Stream /\ WindowsOK(used) /\ IsPresent(used)
          /\ used.closedNotified = d.streams[f.sid].closedNotified
          /\ used.state = d.streams[f.sid].state
      BY <1>0, <2>4, <3>1, MaxWindowAssumption
      DEF ConsumeRecvWindow, CanConsumeRecv, Stream, WindowsOK, IsPresent, Window
    <3> HIDE DEF used
    <3>3. /\ st \in Stream /\ WindowsOK(st) /\ IsPresent(st)
          /\ st.closedNotified = d.streams[f.sid].closedNotified
          /\ IsClosed(d.streams[f.sid]) => IsClosed(st)
      BY ZenonT(60), <1>0, <3>2, TransitionType DEF IsClosed
    <3> HIDE DEF st
    <3>4. st.closedNotified => IsClosed(st)
      BY <2>1, <3>1, <3>3, NotifiedIsClosed
    <3>5. Inv(e) /\ Calm(c, e)
      BY <2>1, <3>1, <3>3, <3>4, UpdateStreamInv, CalmTransitive
    <3>6. g = [d EXCEPT !.streams[f.sid] = st, !.cb = cb]
      BY DEF WithStream
    <3> HIDE DEF e
    <3>7. Inv(g) /\ Calm(e, g)
      BY <1>0, <3>1, <3>5, CallbackInv DEF cb
    <3> QED BY <3>5, <3>6, <3>7, CalmTransitive
  <2> HIDE DEF g, st
  <2> QED BY <2>1, <2>2, <2>3, <2>4
<1> QED BY <1>2, <1>3

\* A complete header block on a stream of the map.
LEMMA DeliverHeadersInv ==
  ASSUME NEW c, Inv(c), NEW f \in Frame, Has(c, f.sid), NEW endStream \in BOOLEAN,
         NEW kind \in {"Headers", "Continuation"}
  PROVE  /\ Inv(DeliverHeaders(c, f, kind, endStream))
         /\ Calm(c, DeliverHeaders(c, f, kind, endStream))
<1> DEFINE st == OnRecvHeaders(c.streams[f.sid], endStream)
           e == WithStream(c, f.sid, st)
           cb == Callback(kind, f.sid, 0, endStream)
           r == DeliverHeaders(c, f, kind, endStream)
<1>1. /\ f.sid \in StreamId /\ f.sid \in 0 .. MaxStreamId /\ IsPresent(c.streams[f.sid])
      /\ c.streams[f.sid] \in Stream /\ WindowsOK(c.streams[f.sid])
  BY DEF Has, Inv, Connection, Frame
<1>2. /\ st \in Stream /\ WindowsOK(st) /\ IsPresent(st)
      /\ st.closedNotified = c.streams[f.sid].closedNotified
      /\ IsClosed(c.streams[f.sid]) => IsClosed(st)
  BY <1>1, TransitionType
<1>3. r \in {StreamError(c, f.sid, "StreamClosed"), ConnectionError(e, "CompressionError"),
             [e EXCEPT !.cb = cb]}
  BY DEF DeliverHeaders, WithStream
<1> HIDE DEF st
<1>4. st.closedNotified => IsClosed(st)
  BY <1>1, <1>2, NotifiedIsClosed
<1>5. Inv(e) /\ Calm(c, e)
  BY <1>1, <1>2, <1>4, UpdateStreamInv
<1> HIDE DEF e, r
<1>6. Inv([e EXCEPT !.cb = cb]) /\ Calm(c, [e EXCEPT !.cb = cb])
  BY <1>1, <1>5, CallbackInv, CalmTransitive
<1>7. {"StreamClosed", "CompressionError"} \subseteq ErrorCodes
  BY DEF ErrorCodes
<1>8. /\ Inv(StreamError(c, f.sid, "StreamClosed")) /\ Calm(c, StreamError(c, f.sid, "StreamClosed"))
      /\ Inv(ConnectionError(e, "CompressionError")) /\ Calm(c, ConnectionError(e, "CompressionError"))
  BY <1>1, <1>5, <1>7, ErrorsInv, CalmTransitive
<1> QED BY <1>3, <1>6, <1>8 DEF r

\* The start of a header block that needs CONTINUATION frames, and its growth.
LEMMA HeaderBlockInv ==
  ASSUME NEW c, Inv(c), NEW expecting \in BOOLEAN,
         NEW block \in [sid : 0 .. MaxStreamId, size : Nat, endStream : BOOLEAN]
  PROVE  LET d == [c EXCEPT !.expecting = expecting, !.headerBlock = block]
         IN  Inv(d) /\ Calm(c, d) /\ d.streams = c.streams
<1> DEFINE d == [c EXCEPT !.expecting = expecting, !.headerBlock = block]
<1>1. c \in Connection
  BY DEF Inv
<1>2. d \in Connection /\ SameStreams(c, d) /\ SameControl(c, d)
  BY <1>1 DEF Connection, SameStreams, SameControl
<1> QED BY <1>2, SameControlInv DEF SameStreams

\* HEADERS that opens a stream: the tests before it exclude a server that has
\* sent GOAWAY, because it refuses ids above the announced one as late, and the
\* others as not increasing.
LEMMA OpenStreamInv ==
  ASSUME NEW c, Inv(c), NEW sid \in StreamId, ~Has(c, sid), ~RefusesNewStream(c, sid),
         ~(c.state \in {"GoAwaySent", "GoAwayReceived"} /\ sid > c.goAwayLast)
  PROVE  LET d == [c EXCEPT !.streams[sid] = NewStream(c.peerInitialWindow),
                            !.active = @ + 1, !.lastPeer = sid]
         IN  Inv(d) /\ Proper(c, d) /\ Has(d, sid)
<1> DEFINE st == NewStream(c.peerInitialWindow)
           e == WithNewStream(c, sid, st)
           d == [e EXCEPT !.lastPeer = sid]
<1>1. c \in Connection /\ c.peerInitialWindow \in 0 .. MaxWindow /\ c.streams \in [StreamId -> Stream]
  BY DEF Inv, Connection
<1>2. st \in Stream /\ WindowsOK(st) /\ IsPresent(st) /\ ~st.closedNotified
  BY <1>1, NewStreamType
<1>3. ~IsPresent(c.streams[sid])
  BY DEF Has
<1>4. ~(c.cfg.isServer /\ c.state = "GoAwaySent")
  <2> SUFFICES ASSUME c.cfg.isServer, c.state = "GoAwaySent" PROVE FALSE
    OBVIOUS
  <2>1. c.goAwayLast = c.lastPeer /\ c.lastPeer \in 0 .. MaxStreamId
    BY DEF Inv, Connection
  <2>2. ~(sid <= c.lastPeer)
    BY DEF RefusesNewStream
  <2> QED BY <2>1, <2>2, EndpointAssumption DEF StreamId
<1>5. d = [c EXCEPT !.streams[sid] = st, !.active = @ + 1, !.lastPeer = sid]
  BY DEF WithNewStream
<1> HIDE DEF st
<1>6. /\ Inv(e) /\ e.cfg = c.cfg /\ e.settingsSent = c.settingsSent /\ SameControl(c, e)
      /\ e.streams = [c.streams EXCEPT ![sid] = st]
  BY SMTT(60), ZenonT(60), <1>2, <1>3, InsertStreamInv
<1> HIDE DEF e
<1>7. e \in Connection /\ sid \in 0 .. MaxStreamId
  BY SMTT(30), <1>6, EndpointAssumption DEF Inv, StreamId
<1>8. /\ d \in Connection /\ SameStreams(e, d) /\ d.state = e.state /\ d.cb = e.cb
  BY <1>7 DEF Connection, SameStreams
<1> HIDE DEF d
<1>9. Inv(d)
  <2>1. ~(d.cfg.isServer /\ d.state = "GoAwaySent")
    BY <1>4, <1>6, <1>8 DEF SameStreams, SameControl
  <2>2. /\ d.cb.kind # "None" => d.cb.sid \in StreamId
        /\ d.cb.kind = "None" => d.cb = NoCallback
    BY <1>6, <1>8 DEF Inv
  <2> QED BY <1>6, <1>8, <2>1, <2>2, SameStreamsInv
<1>10. d.streams = [c.streams EXCEPT ![sid] = st]
  BY <1>6, <1>8 DEF SameStreams
<1>11. \A s \in StreamId : IsClosed(c.streams[s]) => d.streams[s].state \in {"Closed", "Absent"}
  BY <1>1, <1>3, <1>10 DEF IsClosed, IsPresent
<1>12. /\ d.cfg = c.cfg /\ (c.settingsSent => d.settingsSent)
       /\ c.state = "Closed" => d.state = "Closed"
  BY <1>6, <1>8 DEF SameStreams, SameControl
<1>13. Proper(c, d)
  BY <1>4, <1>11, <1>12 DEF Proper
<1>14. Has(d, sid)
  BY <1>1, <1>2, <1>10 DEF Has
<1> QED BY <1>5, <1>9, <1>13, <1>14 DEF st

\* HEADERS, for a new stream or for one of the map.
LEMMA HandleHeadersFrameInv ==
  ASSUME NEW c, Inv(c), NEW f \in Frame
  PROVE  Inv(HandleHeadersFrame(c, f)) /\ Proper(c, HandleHeadersFrame(c, f))
<1> DEFINE new == [c EXCEPT !.streams[f.sid] = NewStream(c.peerInitialWindow),
                            !.active = @ + 1, !.lastPeer = f.sid]
           d == IF Has(c, f.sid) THEN c ELSE new
           late == c.state \in {"GoAwaySent", "GoAwayReceived"} /\ f.sid > c.goAwayLast
           refused == ~Has(c, f.sid) /\ RefusesNewStream(c, f.sid)
           block == [sid |-> f.sid, size |-> f.n, endStream |-> EndsStream(f)]
           begun == [d EXCEPT !.expecting = TRUE, !.headerBlock = block]
           r == HandleHeadersFrame(c, f)
<1>1. f.sid \in 0 .. MaxStreamId /\ f.n \in Nat /\ EndsStream(f) \in BOOLEAN /\ Calm(c, c)
  BY DEF Frame, EndsStream, Calm, IsClosed
<1>2. {"ProtocolError", "FrameSizeError", "EnhanceYourCalm"} \subseteq ErrorCodes
  BY DEF ErrorCodes
<1>3. CASE f.sid = 0 \/ late \/ Malformed(f) \/ refused
  <2>1. r = c \/ \E code \in {"ProtocolError", "FrameSizeError"} : r = ConnectionError(c, code)
    BY <1>3 DEF HandleHeadersFrame
  <2> QED BY <1>1, <1>2, <2>1, ErrorsInv, CalmIsProper
<1>4. ASSUME ~(f.sid = 0 \/ late \/ Malformed(f) \/ refused)
      PROVE  Inv(r) /\ Proper(c, r)
  <2>1. f.sid \in StreamId
    BY SMTT(30), <1>1, <1>4, EndpointAssumption DEF StreamId
  <2>2. Inv(d) /\ Proper(c, d) /\ Has(d, f.sid)
    <3>1. CASE Has(c, f.sid)
      BY <1>1, <3>1, CalmIsProper
    <3>2. CASE ~Has(c, f.sid)
      <4>1. Inv(new) /\ Proper(c, new) /\ Has(new, f.sid)
        BY <1>4, <2>1, <3>2, OpenStreamInv
      <4> HIDE DEF new
      <4> QED BY <3>2, <4>1
    <3> QED BY <3>1, <3>2
  <2>3. r \in {StreamError(d, f.sid, "ProtocolError"), DeliverHeaders(d, f, "Headers", EndsStream(f)),
               ConnectionError(d, "EnhanceYourCalm"), begun}
    BY <1>4 DEF HandleHeadersFrame
  <2> HIDE DEF d, r
  <2>4. \A x \in {StreamError(d, f.sid, "ProtocolError"), ConnectionError(d, "EnhanceYourCalm")} :
           Inv(x) /\ Calm(d, x)
    BY <1>1, <1>2, <2>2, ErrorsInv
  <2>5. Inv(DeliverHeaders(d, f, "Headers", EndsStream(f))) /\ Calm(d, DeliverHeaders(d, f, "Headers", EndsStream(f)))
    BY <1>1, <2>2, DeliverHeadersInv
  <2>6. Inv(begun) /\ Calm(d, begun)
    <3>1. block \in [sid : 0 .. MaxStreamId, size : Nat, endStream : BOOLEAN]
      BY <1>1
    <3> QED BY <2>2, <3>1, HeaderBlockInv
  <2> HIDE DEF begun
  <2> QED BY <2>2, <2>3, <2>4, <2>5, <2>6, ProperThenCalm
<1> QED BY <1>3, <1>4

\* CONTINUATION grows the header block or completes it.
LEMMA HandleContinuationFrameInv ==
  ASSUME NEW c, Inv(c), NEW f \in Frame
  PROVE  Inv(HandleContinuationFrame(c, f)) /\ Calm(c, HandleContinuationFrame(c, f))
<1> DEFINE block == [c.headerBlock EXCEPT !.size = @ + f.n]
           d == [c EXCEPT !.expecting = c.expecting, !.headerBlock = block]
           e == [c EXCEPT !.expecting = FALSE, !.headerBlock = block]
           r == HandleContinuationFrame(c, f)
<1>1. f.sid \in 0 .. MaxStreamId /\ f.n \in Nat /\ c \in Connection
  BY DEF Frame, Inv
<1>2. /\ c.headerBlock \in [sid : 0 .. MaxStreamId, size : Nat, endStream : BOOLEAN]
      /\ c.expecting \in BOOLEAN
  BY <1>1 DEF Connection
<1>3. block \in [sid : 0 .. MaxStreamId, size : Nat, endStream : BOOLEAN] /\ c.headerBlock.endStream \in BOOLEAN
  BY <1>1, <1>2
<1>4. /\ [c EXCEPT !.headerBlock.size = @ + f.n] = d
      /\ [[c EXCEPT !.headerBlock.size = @ + f.n] EXCEPT !.expecting = FALSE] = e
  BY <1>1 DEF Connection
<1>5. /\ Inv(d) /\ Calm(c, d)
      /\ Inv(e) /\ Calm(c, e) /\ e.streams = c.streams
  <2> HIDE DEF block
  <2> QED BY <1>2, <1>3, HeaderBlockInv
<1>6. \/ \E code \in {"ProtocolError", "EnhanceYourCalm"} : r = ConnectionError(c, code)
      \/ r = d
      \/ r = ConnectionError(e, "InternalError")
      \/ Has(c, f.sid) /\ r = DeliverHeaders(e, f, "Continuation", c.headerBlock.endStream)
  BY <1>4 DEF HandleContinuationFrame
<1> HIDE DEF d, e, r
<1>7. {"ProtocolError", "EnhanceYourCalm", "InternalError"} \subseteq ErrorCodes
  BY DEF ErrorCodes
<1>8. Has(c, f.sid) => Has(e, f.sid)
  BY <1>5 DEF Has
<1>9. Has(c, f.sid) =>
        /\ Inv(DeliverHeaders(e, f, "Continuation", c.headerBlock.endStream))
        /\ Calm(e, DeliverHeaders(e, f, "Continuation", c.headerBlock.endStream))
  BY <1>3, <1>5, <1>8, DeliverHeadersInv
<1>10. Inv(ConnectionError(e, "InternalError")) /\ Calm(e, ConnectionError(e, "InternalError"))
  BY <1>5, <1>7, ConnectionErrorInv
<1>11. \A code \in {"ProtocolError", "EnhanceYourCalm"} :
         Inv(ConnectionError(c, code)) /\ Calm(c, ConnectionError(c, code))
  BY <1>7, ConnectionErrorInv
<1>12. Calm(c, ConnectionError(e, "InternalError"))
  BY <1>5, <1>10, CalmTransitive
<1>13. Has(c, f.sid) => Calm(c, DeliverHeaders(e, f, "Continuation", c.headerBlock.endStream))
  BY <1>5, <1>9, CalmTransitive
<1> QED BY <1>5, <1>6, <1>9, <1>10, <1>11, <1>12, <1>13 DEF r

\* PRIORITY changes a counter.
LEMMA HandlePriorityFrameInv ==
  ASSUME NEW c, Inv(c), NEW f \in Frame
  PROVE  Inv(HandlePriorityFrame(c, f)) /\ Calm(c, HandlePriorityFrame(c, f))
<1> DEFINE d == [c EXCEPT !.idlePriority = @ + 1]
           r == HandlePriorityFrame(c, f)
<1>1. f.sid \in 0 .. MaxStreamId /\ c \in Connection
  BY DEF Frame, Inv
<1>2. d \in Connection /\ SameStreams(c, d) /\ SameControl(c, d)
  <2>1. c.idlePriority + 1 \in Nat
    BY SMTT(30), <1>1 DEF Connection
  <2> QED BY <1>1, <2>1 DEF Connection, SameStreams, SameControl
<1>3. Inv(d) /\ Calm(c, d)
  BY <1>2, SameControlInv
<1>4. {"ProtocolError", "FrameSizeError", "EnhanceYourCalm"} \subseteq ErrorCodes
  BY DEF ErrorCodes
<1>5. \/ \E code \in {"ProtocolError", "FrameSizeError"} : r = ConnectionError(c, code)
      \/ r = StreamError(c, f.sid, "ProtocolError")
      \/ r = c \/ r = d \/ r = ConnectionError(d, "EnhanceYourCalm")
  BY DEF HandlePriorityFrame
<1> HIDE DEF d, r
<1>6. Inv(ConnectionError(d, "EnhanceYourCalm")) /\ Calm(d, ConnectionError(d, "EnhanceYourCalm"))
  BY <1>3, <1>4, ConnectionErrorInv
<1> QED BY <1>1, <1>3, <1>4, <1>5, <1>6, ErrorsInv, CalmTransitive DEF r

\* RST_STREAM closes a stream of the map.
LEMMA HandleRstStreamFrameInv ==
  ASSUME NEW c, Inv(c), NEW f \in Frame
  PROVE  Inv(HandleRstStreamFrame(c, f)) /\ Calm(c, HandleRstStreamFrame(c, f))
<1> DEFINE st == OnRstStream(c.streams[f.sid])
           e == WithStream(c, f.sid, st)
           r == HandleRstStreamFrame(c, f)
<1>1. f.sid \in 0 .. MaxStreamId /\ c \in Connection
  BY DEF Frame, Inv
<1>2. {"ProtocolError", "FrameSizeError"} \subseteq ErrorCodes
  BY DEF ErrorCodes
<1>3. CASE ~Has(c, f.sid)
  <2>1. r = c \/ \E code \in {"ProtocolError", "FrameSizeError"} : r = ConnectionError(c, code)
    BY <1>3 DEF HandleRstStreamFrame
  <2> QED BY <1>1, <1>2, <2>1, ErrorsInv
<1>4. CASE Has(c, f.sid)
  <2>1. /\ f.sid \in StreamId /\ IsPresent(c.streams[f.sid])
        /\ c.streams \in [StreamId -> Stream] /\ WindowsOK(c.streams[f.sid])
    BY <1>1, <1>4 DEF Has, Inv, Connection
  <2>2. /\ st \in Stream /\ WindowsOK(st) /\ IsClosed(st) /\ IsPresent(st)
        /\ st.closedNotified = c.streams[f.sid].closedNotified
    BY <2>1 DEF OnRstStream, Stream, StreamStates, WindowsOK, IsClosed, IsPresent
  <2>3. r = CloseStream(e, f.sid) \/ \E code \in {"ProtocolError", "FrameSizeError"} : r = ConnectionError(c, code)
    BY <1>4 DEF HandleRstStreamFrame, WithStream
  <2> HIDE DEF st
  <2>4. Inv(e) /\ Calm(c, e) /\ IsClosed(e.streams[f.sid])
    <3>1. Inv(e) /\ Calm(c, e) /\ e.streams = [c.streams EXCEPT ![f.sid] = st]
      BY SMTT(60), ZenonT(60), <2>1, <2>2, UpdateStreamInv
    <3> HIDE DEF e
    <3> QED BY <2>1, <2>2, <3>1
  <2> HIDE DEF e, r
  <2>5. Inv(CloseStream(e, f.sid)) /\ Calm(e, CloseStream(e, f.sid))
    BY <2>1, <2>4, CloseStreamInv
  <2> QED BY <1>1, <1>2, <2>3, <2>4, <2>5, ErrorsInv, CalmTransitive DEF r
<1> QED BY <1>3, <1>4

\* PING is echoed.
LEMMA HandlePingFrameInv ==
  ASSUME NEW c, Inv(c), NEW f \in Frame
  PROVE  Inv(HandlePingFrame(c, f)) /\ Calm(c, HandlePingFrame(c, f))
<1> DEFINE echo == << MkFrame("PING", 0, 0, {"ACK"}) >>
           r == HandlePingFrame(c, f)
<1>1. {"ProtocolError", "FrameSizeError"} \subseteq ErrorCodes /\ 0 \in 0 .. MaxStreamId
  BY EndpointAssumption DEF ErrorCodes
<1>2. echo \in Seq(Frame)
  <2>1. "PING" \in FrameTypes /\ {"ACK"} \in SUBSET FrameFlags
    BY DEF FrameTypes, FrameFlags
  <2> QED BY <1>1, <2>1, MkFrameType
<1>3. \/ r = c \/ r = Emit(c, echo)
      \/ \E code \in {"ProtocolError", "FrameSizeError"} : r = ConnectionError(c, code)
  BY DEF HandlePingFrame
<1> HIDE DEF echo, r
<1> QED BY <1>1, <1>2, <1>3, ErrorsInv, EmitInv DEF r

\* GOAWAY from the peer.
LEMMA HandleGoAwayFrameInv ==
  ASSUME NEW c, Inv(c), c.state # "Closed", NEW f \in Frame
  PROVE  Inv(HandleGoAwayFrame(c, f)) /\ Calm(c, HandleGoAwayFrame(c, f))
<1> DEFINE d == [c EXCEPT !.state = "GoAwayReceived", !.goAwayLast = f.n]
           r == HandleGoAwayFrame(c, f)
<1>1. {"ProtocolError", "FrameSizeError"} \subseteq ErrorCodes /\ "GoAwayReceived" \in ConnectionStates
  BY DEF ErrorCodes, ConnectionStates
<1>2. f.n \in Nat /\ c \in Connection
  BY DEF Frame, Inv
<1>3. d \in Connection /\ SameStreams(c, d) /\ d.state = "GoAwayReceived" /\ d.cb = c.cb
  BY <1>1, <1>2 DEF Connection, SameStreams
<1>4. r = d \/ \E code \in {"ProtocolError", "FrameSizeError"} : r = ConnectionError(c, code)
  BY DEF HandleGoAwayFrame
<1> HIDE DEF d, r
<1>5. Inv(d) /\ Calm(c, d)
  BY <1>3, SameStreamsInv DEF Inv
<1> QED BY <1>1, <1>4, <1>5, ConnectionErrorInv DEF r

\* WINDOW_UPDATE widens a send window within its bound.
LEMMA HandleWindowUpdateFrameInv ==
  ASSUME NEW c, Inv(c), NEW f \in Frame
  PROVE  Inv(HandleWindowUpdateFrame(c, f)) /\ Calm(c, HandleWindowUpdateFrame(c, f))
<1> DEFINE d == [c EXCEPT !.sendWindow = @ + f.n]
           st == IncreaseSendWindow(c.streams[f.sid], f.n)
           e == WithStream(c, f.sid, st)
           r == HandleWindowUpdateFrame(c, f)
<1>1. /\ f.sid \in 0 .. MaxStreamId /\ f.n \in Nat /\ c \in Connection
      /\ c.sendWindow \in 0 .. MaxWindow
  BY DEF Frame, Inv, Connection
<1>2. {"ProtocolError", "FrameSizeError", "FlowControlError"} \subseteq ErrorCodes
  BY DEF ErrorCodes
<1>3. \/ r = c
      \/ \E code \in {"ProtocolError", "FrameSizeError", "FlowControlError"} :
            r = ConnectionError(c, code) \/ r = StreamError(c, f.sid, code)
      \/ ~(c.sendWindow + f.n > MaxWindow) /\ r = d
      \/ Has(c, f.sid) /\ CanIncreaseSend(c.streams[f.sid], f.n) /\ r = e
  BY DEF HandleWindowUpdateFrame, WithStream
<1>4. ASSUME ~(c.sendWindow + f.n > MaxWindow) PROVE Inv(d) /\ Calm(c, d)
  <2>1. c.sendWindow + f.n \in 0 .. MaxWindow
    BY <1>1, <1>4, MaxWindowAssumption
  <2>2. d \in Connection /\ SameStreams(c, d) /\ SameControl(c, d)
    BY <1>1, <2>1 DEF Connection, SameStreams, SameControl
  <2> QED BY <2>2, SameControlInv
<1>5. ASSUME Has(c, f.sid), CanIncreaseSend(c.streams[f.sid], f.n) PROVE Inv(e) /\ Calm(c, e)
  <2>1. /\ f.sid \in StreamId /\ IsPresent(c.streams[f.sid])
        /\ c.streams[f.sid] \in Stream /\ WindowsOK(c.streams[f.sid])
    BY <1>1, <1>5 DEF Has, Inv, Connection
  <2>2. /\ st \in Stream /\ WindowsOK(st) /\ IsPresent(st)
        /\ st.closedNotified = c.streams[f.sid].closedNotified
        /\ st.state = c.streams[f.sid].state
    BY <1>1, <1>5, <2>1, MaxWindowAssumption
    DEF IncreaseSendWindow, CanIncreaseSend, Stream, WindowsOK, IsPresent, Window
  <2> HIDE DEF st
  <2>3. st.closedNotified => IsClosed(st)
    BY <2>1, <2>2, NotifiedIsClosed DEF IsClosed
  <2> QED BY <2>1, <2>2, <2>3, UpdateStreamInv DEF IsClosed
<1> HIDE DEF d, e, r
<1> QED BY <1>1, <1>2, <1>3, <1>4, <1>5, ErrorsInv DEF r

\* SETTINGS without error: every stream of the map keeps its state and mark, and
\* its new send window was checked.
LEMMA ApplySettingsInv ==
  ASSUME NEW c, Inv(c), NEW f \in Frame, SettingsError(c, f) = "NoError"
  PROVE  Inv(ApplySettings(c, f)) /\ Calm(c, ApplySettings(c, f))
<1> DEFINE window == Setting(f, "INITIAL_WINDOW_SIZE", c.peerInitialWindow)
           maxc == Setting(f, "MAX_CONCURRENT_STREAMS", c.peerMaxConcurrent)
           maxf == Setting(f, "MAX_FRAME_SIZE", c.peerMaxFrame)
           new == [s \in StreamId |-> IF ResizesWindows(f) /\ IsPresent(c.streams[s])
                                      THEN UpdateInitialWindowSize(c.streams[s], window) ELSE c.streams[s]]
           d == ApplySettings(c, f)
<1>1. c \in Connection /\ c.streams \in [StreamId -> Stream] /\ \A s \in StreamId : WindowsOK(c.streams[s])
  BY DEF Inv, Connection
<1>2. f.settings \in [Parameters -> Nat \cup {NotSet}]
  BY DEF Frame, Settings
<1>3. maxc \in Nat /\ (ResizesWindows(f) => window \in Nat) /\ (~ResizesWindows(f) => window = c.peerInitialWindow)
  BY <1>1, <1>2 DEF Setting, Connection, Parameters, ResizesWindows
<1>4. maxf \in MinFrameSize .. MaxFrameSize
  <2>1. c.peerMaxFrame \in MinFrameSize .. MaxFrameSize
    BY <1>1 DEF Connection
  <2>2. Setting(f, "MAX_FRAME_SIZE", MinFrameSize) \in MinFrameSize .. MaxFrameSize
    BY DEF SettingsError
  <2> QED BY <2>1, <2>2 DEF Setting
<1>5. window \in 0 .. MaxWindow
  <2>1. CASE ResizesWindows(f)
    <3>1. ~(window > MaxWindow)
      BY <2>1 DEF SettingsError
    <3> QED BY <1>3, <2>1, <3>1, MaxWindowAssumption
  <2>2. CASE ~ResizesWindows(f)
    BY <1>1, <1>3, <2>2 DEF Connection
  <2> QED BY <2>1, <2>2
<1>6. d = [c EXCEPT !.peerMaxConcurrent = maxc, !.peerMaxFrame = maxf,
                    !.peerInitialWindow = window, !.streams = new]
  BY <1>1 DEF ApplySettings, Connection
<1>7. ASSUME NEW s \in StreamId
      PROVE  /\ new[s] \in Stream /\ WindowsOK(new[s]) /\ new[s].state = c.streams[s].state
             /\ new[s].closedNotified = c.streams[s].closedNotified
  <2>1. c.streams[s] \in Stream
    BY <1>1
  <2>2. CASE ResizesWindows(f) /\ IsPresent(c.streams[s])
    <3>1. CanUpdateInitialWindow(c.streams[s], window)
      BY <2>2 DEF SettingsError, Has
    <3> HIDE DEF window
    <3>2. ResizedSendWindow(c.streams[s], window) \in 0 .. MaxWindow
      BY <3>1 DEF CanUpdateInitialWindow
    <3>3. ResizedSendWindow(c.streams[s], window) \in Window
      BY <3>2, MaxWindowAssumption DEF Window
    <3>4. new[s] = [c.streams[s] EXCEPT !.sendWindow = ResizedSendWindow(c.streams[s], window),
                                        !.initialSendWindow = window]
      BY <2>2 DEF UpdateInitialWindowSize
    <3> HIDE DEF new
    <3> QED BY <1>1, <1>5, <2>1, <3>2, <3>3, <3>4 DEF Stream, WindowsOK
  <2>3. CASE ~(ResizesWindows(f) /\ IsPresent(c.streams[s]))
    BY <1>1, <2>1, <2>3
  <2> QED BY <2>2, <2>3
<1>8. new \in [StreamId -> Stream]
  BY <1>7
<1> HIDE DEF new, d, window, maxc, maxf
<1>9. /\ d \in Connection /\ d.streams = new /\ d.active = c.active /\ d.closedFifo = c.closedFifo
      /\ d.cfg = c.cfg /\ d.settingsSent = c.settingsSent /\ SameControl(c, d)
  BY <1>1, <1>3, <1>4, <1>5, <1>6, <1>8 DEF Connection, SameControl
<1>10. Live(new) = Live(c.streams) /\ Kept(new) = Kept(c.streams)
  BY <1>7 DEF Live, Kept, IsPresent
<1>11. Books(new, c.active, c.closedFifo)
  <2>1. \A s \in Kept(new) : s \in StreamId /\ IsClosed(new[s])
    BY <1>7, <1>10 DEF Inv, Books, FifoExact, Kept, IsClosed
  <2> QED BY <1>10, <2>1 DEF Inv, Books, FifoExact
<1>12. Inv(d)
  BY <1>7, <1>9, <1>11 DEF Inv, SameControl
<1>13. Calm(c, d)
  BY <1>7, <1>9 DEF Calm, SameControl, IsPresent, IsClosed
<1> QED BY <1>12, <1>13 DEF d

\* SETTINGS, with or without ACK.
LEMMA HandleSettingsFrameInv ==
  ASSUME NEW c, Inv(c), c.state # "Closed", NEW f \in Frame
  PROVE  Inv(HandleSettingsFrame(c, f)) /\ Calm(c, HandleSettingsFrame(c, f))
<1> DEFINE ack == << MkFrame("SETTINGS", 0, 0, {"ACK"}) >>
           d == ApplySettings(c, f)
           e == Emit(d, ack)
           r == HandleSettingsFrame(c, f)
<1>1. {"ProtocolError", "FrameSizeError", SettingsError(c, f)} \subseteq ErrorCodes
  BY DEF ErrorCodes, SettingsError
<1>2. ack \in Seq(Frame)
  <2>1. "SETTINGS" \in FrameTypes /\ {"ACK"} \in SUBSET FrameFlags /\ 0 \in 0 .. MaxStreamId
    BY EndpointAssumption DEF FrameTypes, FrameFlags
  <2> QED BY <2>1, MkFrameType
<1>3. \A x : Inv(x) /\ x.state # "Closed" => Inv(SettingsSeen(x)) /\ Calm(x, SettingsSeen(x))
  <2> SUFFICES ASSUME NEW x, Inv(x), x.state # "Closed"
               PROVE  Inv(SettingsSeen(x)) /\ Calm(x, SettingsSeen(x))
    OBVIOUS
  <2>1. CASE x.state = "AwaitingSettings"
    <3>1. SettingsSeen(x) = [x EXCEPT !.state = "Open"]
      BY <2>1 DEF SettingsSeen
    <3> QED BY <3>1, StateInv
  <2>2. CASE x.state # "AwaitingSettings"
    <3>1. SettingsSeen(x) = x
      BY <2>2 DEF SettingsSeen, Inv, Connection
    <3> QED BY <3>1 DEF Calm, IsClosed
  <2> QED BY <2>1, <2>2
<1>4. \/ \E code \in {"ProtocolError", "FrameSizeError", SettingsError(c, f)} : r = ConnectionError(c, code)
      \/ r = SettingsSeen(c)
      \/ SettingsError(c, f) = "NoError" /\ r = SettingsSeen(e)
  BY DEF HandleSettingsFrame
<1>5. ASSUME SettingsError(c, f) = "NoError"
      PROVE  Inv(SettingsSeen(e)) /\ Calm(c, SettingsSeen(e))
  <2>1. Inv(d) /\ Calm(c, d) /\ d.state = c.state
    <3>1. d.state = c.state
      BY DEF ApplySettings, Inv, Connection
    <3> QED BY <1>5, <3>1, ApplySettingsInv
  <2> HIDE DEF d, ack
  <2>2. Inv(e) /\ Calm(c, e) /\ e.state # "Closed"
    BY <1>2, <2>1, EmitInv, CalmTransitive DEF SameControl
  <2> HIDE DEF e
  <2> QED BY <1>3, <2>2, CalmTransitive
<1> HIDE DEF e, r
<1> QED BY <1>1, <1>3, <1>4, <1>5, ConnectionErrorInv DEF r

\* processFrame, for any frame in any state that reads frames.
LEMMA ProcessFrameInv ==
  ASSUME NEW c, Inv(c), Receiving(c), NEW f \in Frame
  PROVE  Inv(ProcessFrame(c, f)) /\ Proper(c, ProcessFrame(c, f))
<1> DEFINE r == ProcessFrame(c, f)
<1>1. c.state # "Closed" /\ f.type \in FrameTypes
  BY DEF Receiving, Frame
<1>2. {"FrameSizeError", "ProtocolError"} \subseteq ErrorCodes
  BY DEF ErrorCodes
<1>3. \/ r = c
      \/ \E code \in {"FrameSizeError", "ProtocolError"} : r = ConnectionError(c, code)
      \/ r = HandleHeadersFrame(c, f)
      \/ r \in {HandleDataFrame(c, f), HandlePriorityFrame(c, f), HandleRstStreamFrame(c, f),
                HandleSettingsFrame(c, f), HandlePingFrame(c, f), HandleGoAwayFrame(c, f),
                HandleWindowUpdateFrame(c, f), HandleContinuationFrame(c, f)}
  BY <1>1 DEF ProcessFrame, FrameTypes
<1> HIDE DEF r
<1>4. Calm(c, c)
  BY DEF Calm, IsClosed
<1>5. \A x \in {HandleDataFrame(c, f), HandlePriorityFrame(c, f), HandleRstStreamFrame(c, f),
                HandleSettingsFrame(c, f), HandlePingFrame(c, f), HandleGoAwayFrame(c, f),
                HandleWindowUpdateFrame(c, f), HandleContinuationFrame(c, f)} :
         Inv(x) /\ Calm(c, x)
  BY <1>1, HandleDataFrameInv, HandlePriorityFrameInv, HandleRstStreamFrameInv, HandleSettingsFrameInv,
     HandlePingFrameInv, HandleGoAwayFrameInv, HandleWindowUpdateFrameInv, HandleContinuationFrameInv
<1>6. \A x : Calm(c, x) => Proper(c, x)
  BY CalmIsProper
<1> QED BY <1>2, <1>3, <1>4, <1>5, <1>6, HandleHeadersFrameInv, ConnectionErrorInv DEF r

-----------------------------------------------------------------------------
(* The invariant and the theorems *)

\* A client sends its preface before anything else happens to the connection.
Started(c) ==
  c.cfg.isServer \/ c.settingsSent \/ (c.state = "AwaitingPreface" /\ c.cb = NoCallback)

IInv == Inv(conn) /\ Started(conn)

\* A connection fresh from the constructor satisfies the invariant.
LEMMA InitInv == Init => IInv
<1> SUFFICES ASSUME NEW cfg \in Config, conn = NewConnection(cfg) PROVE IInv
  BY ConnectionAssumption DEF Init
<1>1. NoStream \in Stream /\ WindowsOK(NoStream) /\ ~IsPresent(NoStream)
  BY MaxWindowAssumption DEF Stream, WindowsOK, NoStream, StreamStates, Window, IsPresent
<1> DEFINE none == [s \in StreamId |-> NoStream]
<1>2. none \in [StreamId -> Stream] /\ \A s \in StreamId : none[s] = NoStream
  BY <1>1
<1>3. Live(none) = {} /\ Kept(none) = {}
  BY <1>1, <1>2 DEF Live, Kept
<1>4. Books(none, 0, << >>)
  <2>1. Cardinality(Live(none)) = 0
    BY <1>3, FS_EmptySet
  <2>2. Range(<< >>) = {} /\ DOMAIN << >> = {} /\ Len(<< >>) = 0
    BY DEF Range
  <2>3. 0 <= Retained
    BY EndpointAssumption
  <2> HIDE DEF none
  <2> QED BY <1>3, <2>1, <2>2, <2>3 DEF Books, FifoExact
<1>5. /\ << >> \in Seq(Frame) /\ << >> \in Seq(StreamId) /\ "NoError" \in ErrorCodes
      /\ "AwaitingPreface" \in ConnectionStates
      /\ 0 \in 0 .. MaxStreamId /\ MaxStreamId \in Nat /\ DefaultStreams \in Nat
      /\ MinFrameSize \in MinFrameSize .. MaxFrameSize
      /\ DefaultWindow \in 0 .. MaxWindow /\ cfg.connectionWindow \in 0 .. MaxWindow
  BY EndpointAssumption DEF ErrorCodes, ConnectionStates, Config
<1>6. NoCallback \in [kind : {"None", "Headers", "Continuation", "Data"},
                      sid : 0 .. MaxStreamId, n : Nat, endStream : BOOLEAN]
  BY <1>5 DEF NoCallback
<1>7. [sid |-> 0, size |-> 0, endStream |-> FALSE] \in [sid : 0 .. MaxStreamId, size : Nat, endStream : BOOLEAN]
  BY <1>5
<1>8. /\ conn.streams = none /\ conn.active = 0 /\ conn.closedFifo = << >>
      /\ conn.state = "AwaitingPreface" /\ conn.cb = NoCallback
  BY DEF NewConnection
<1> HIDE DEF none
<1>9. conn \in Connection
  BY <1>2, <1>5, <1>6, <1>7 DEF NewConnection, Connection, none
<1>10. \A s \in StreamId : WindowsOK(conn.streams[s])
  BY <1>1, <1>2, <1>8
<1>11. Inv(conn)
  <2>1. Books(conn.streams, conn.active, conn.closedFifo)
    BY <1>4, <1>8
  <2>2. conn.state # "GoAwaySent" /\ conn.cb.kind = "None"
    BY <1>8 DEF NoCallback
  <2> QED BY <1>8, <1>9, <1>10, <2>1, <2>2 DEF Inv
<1> QED BY <1>8, <1>11 DEF IInv, Started

\* Every step is the drained result of a method that keeps the invariant and is
\* proper, on a connection that has begun.
LEMMA StepInv ==
  ASSUME IInv, Next
  PROVE  IInv' /\ Proper(conn, conn')
<1> SUFFICES \E d : /\ conn' = Drained(d) /\ Inv(d) /\ Proper(conn, d)
                    /\ d.cfg.isServer \/ d.settingsSent
  <2> SUFFICES ASSUME NEW d, conn' = Drained(d), Inv(d), Proper(conn, d),
                      d.cfg.isServer \/ d.settingsSent
               PROVE  IInv' /\ Proper(conn, conn')
    OBVIOUS
  <2>1. Inv(conn') /\ Calm(d, conn')
    BY DrainedInv
  <2>2. Proper(conn, conn')
    BY <2>1, ProperThenCalm
  <2>3. Started(conn')
    BY <2>1 DEF Calm, Started
  <2> QED BY <2>1, <2>2, <2>3 DEF IInv
<1>0. Inv(conn) /\ Started(conn) /\ \A x : Calm(conn, x) => Proper(conn, x)
  BY CalmIsProper DEF IInv
<1>00. \A x : Proper(conn, x) /\ Ready => x.cfg.isServer \/ x.settingsSent
  BY DEF Proper, Ready
<1>1. CASE ReceivePreface
  <2>1. PICK valid \in BOOLEAN : conn' = Drained(ProcessPreface(conn, valid))
    BY <1>1 DEF ReceivePreface
  <2>2. conn.state # "Closed" /\ Ready
    BY <1>1 DEF ReceivePreface, Ready
  <2> QED BY <1>0, <1>00, <2>1, <2>2, PrefaceInv
<1>2. CASE ReceiveFrame
  <2>1. PICK f \in Incoming : conn' = Drained(ProcessFrame(conn, f)) /\ Receiving(conn)
    BY <1>2 DEF ReceiveFrame, Receive
  <2>2. f \in Frame /\ Ready
    BY <1>0, <2>1, ConnectionAssumption DEF Receiving, Started, Ready
  <2> QED BY <1>0, <1>00, <2>1, <2>2, ProcessFrameInv
<1>3. CASE CallbackReturns
  <2>1. Inv(FinishCallback(conn)) /\ Proper(conn, FinishCallback(conn))
    BY <1>0, <1>3, FinishCallbackInv DEF CallbackReturns
  <2> QED BY <1>3, <1>0, <1>00, <2>1 DEF CallbackReturns, Started, Ready
<1>4. CASE CallSendServerPreface
  BY <1>0, <1>00, <1>4, PrefaceInv DEF CallSendServerPreface, Ready
<1>5. CASE CallSendClientPreface
  <2>1. CASE conn.state = "Closed"
    <3>1. conn.settingsSent /\ SendClientPreface(conn) = conn /\ Proper(conn, conn)
      BY <1>0, <1>5, <2>1 DEF CallSendClientPreface, SendClientPreface, Started, Proper, IsClosed
    <3> QED BY <1>0, <1>5, <3>1 DEF CallSendClientPreface
  <2>2. CASE conn.state # "Closed"
    BY <1>0, <1>5, <2>2, PrefaceInv DEF CallSendClientPreface
  <2> QED BY <2>1, <2>2
<1>6. CASE CallSendHeaders
  <2>1. PICK sid \in StreamId, size \in Sizes, endStream \in BOOLEAN :
           conn' = Drained(SendHeaders(conn, sid, size, endStream)) /\ Ready
    BY <1>6 DEF CallSendHeaders
  <2>2. size \in Nat
    BY ConnectionAssumption
  <2> QED BY <1>0, <1>00, <2>1, <2>2, SendHeadersInv
<1>7. CASE CallSendData
  <2>1. PICK sid \in StreamId, size \in Sizes, endStream \in BOOLEAN :
           conn' = Drained(SendData(conn, sid, size, endStream)) /\ Ready
    BY <1>7 DEF CallSendData
  <2>2. size \in Nat
    BY ConnectionAssumption
  <2> QED BY <1>0, <1>00, <2>1, <2>2, SendDataInv
<1>8. CASE CallSendRstStream
  <2>1. PICK sid \in StreamId : conn' = Drained(SendRstStream(conn, sid)) /\ Ready
    BY <1>8 DEF CallSendRstStream
  <2>2. sid \in 0 .. MaxStreamId
    BY EndpointAssumption DEF StreamId
  <2> QED BY <1>0, <1>00, <2>1, <2>2, SendRstStreamInv
<1>9. CASE CallFinalizeSendClosedStream
  <2>1. PICK sid \in StreamId : conn' = Drained(FinalizeSendClosedStream(conn, sid)) /\ Ready
    BY <1>9 DEF CallFinalizeSendClosedStream
  <2> QED BY <1>0, <1>00, <2>1, FinalizeInv
<1>10. CASE CallInitiateGoAway
  BY <1>0, <1>00, <1>10, InitiateGoAwayInv DEF CallInitiateGoAway
<1> QED BY <1>1, <1>2, <1>3, <1>4, <1>5, <1>6, <1>7, <1>8, <1>9, <1>10 DEF Next

\* The invariant holds in every reachable state.
LEMMA Invariance == Spec => []IInv
<1>1. IInv /\ [Next]_conn => IInv'
  <2>1. ASSUME IInv, Next PROVE IInv'
    BY <2>1, StepInv
  <2>2. ASSUME IInv, UNCHANGED conn PROVE IInv'
    BY <2>2 DEF IInv, Inv, Started
  <2> QED BY <2>1, <2>2
<1> QED BY <1>1, InitInv, PTL DEF Spec

\* Every field keeps its type whatever the peer sends and the application calls:
\* the connection windows stay within 0 .. kMaxWindowSize and the active-stream
\* counter never drops below zero.
THEOREM TypeCorrect == Spec => []TypeOK
<1>1. IInv => TypeOK
  BY DEF IInv, Inv, TypeOK
<1> QED BY <1>1, Invariance, PTL

\* closeStream counts every stream down exactly once, for any number of streams
\* and any retention limit.
THEOREM ActiveCountCorrect == Spec => []ActiveCountExact
<1>1. IInv => ActiveCountExact
  BY DEF IInv, Inv, Books, ActiveCountExact
<1> QED BY <1>1, Invariance, PTL

\* The FIFO of closed streams is exactly the closed part of the map, without
\* repetitions, and bounded.
THEOREM ClosedFifoCorrect == Spec => []ClosedFifoExact
<1>1. IInv => ClosedFifoExact
  BY DEF IInv, Inv, Books, ClosedFifoExact
<1> QED BY <1>1, Invariance, PTL

\* No sequence of DATA, WINDOW_UPDATE and SETTINGS takes a stream window out of
\* its range.
THEOREM WindowsCorrect == Spec => []WindowsInRange
<1>1. IInv => WindowsInRange
  BY DEF IInv, Inv, WindowsOK, WindowsInRange
<1> QED BY <1>1, Invariance, PTL

\* A server that has sent GOAWAY admits no new stream.
THEOREM GoAwayCorrect == Spec => NoStreamAfterGoAway
<1> DEFINE Keeps == conn.cfg.isServer /\ conn.state = "GoAwaySent" =>
                      \A s \in StreamId : IsPresent(conn'.streams[s]) => IsPresent(conn.streams[s])
<1>1. IInv /\ [Next]_conn => [Keeps]_conn
  BY StepInv DEF Proper
<1>2. NoStreamAfterGoAway <=> [][Keeps]_conn
  BY DEF NoStreamAfterGoAway
<1> HIDE DEF Keeps
<1> QED BY <1>1, <1>2, Invariance, PTL DEF Spec

\* A closed connection and a closed stream stay closed.
THEOREM ClosedCorrect == Spec => ClosedIsFinal
<1> DEFINE Keeps == /\ conn.state = "Closed" => conn'.state = "Closed"
                    /\ \A s \in StreamId : IsClosed(conn.streams[s]) =>
                         conn'.streams[s].state \in {"Closed", "Absent"}
<1>1. IInv /\ [Next]_conn => [Keeps]_conn
  BY StepInv DEF Proper
<1>2. ClosedIsFinal <=> [][Keeps]_conn
  BY DEF ClosedIsFinal
<1> HIDE DEF Keeps
<1> QED BY <1>1, <1>2, Invariance, PTL DEF Spec
=============================================================================
