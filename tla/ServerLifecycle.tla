-------------------------- MODULE ServerLifecycle --------------------------
(***************************************************************************)
(* The life of one SingleHttpServer (server/include/aeronet/internal/      *)
(* lifecycle.hpp, server/src/http-server-lifecycle.cpp and the lifecycle   *)
(* part of eventLoop): the thread of the event loop and controller threads *)
(* that call stop() and beginDrain() at any moment, as their documentation *)
(* allows.  Every access to a field that threads share is a step of its    *)
(* own.  Connections are only counted, one poll returns one event, and the *)
(* two fields of the drain deadline are read together.                     *)
(***************************************************************************)
EXTENDS Integers, FiniteSetsExt

CONSTANTS Controllers,   \* the threads that call stop() and beginDrain()
          MaxCalls,      \* bound: calls that one controller makes
          Waits,         \* the values of beginDrain's maxWait
          MaxTime,       \* bound: the clock stops here, and no deadline lies beyond
          MaxConns,      \* bound: connections at a time
          Modes,         \* who may own the loop's thread, see Server
          Signal,        \* SIGTERM may have arrived: SignalHandler::IsStopRequested
          PollFails,     \* epoll_wait may fail
          DuringStartup  \* controllers may call before the loop has begun

ASSUME LifecycleAssumption ==
  /\ MaxCalls \in Nat /\ Waits \subseteq Nat /\ MaxTime \in Nat /\ MaxConns \in Nat
  /\ Modes \subseteq {"start", "run", "multi"}
  /\ {Signal, PollFails, DuringStartup} \subseteq BOOLEAN

Loop == "loop"
Threads == Controllers \cup {Loop}

VARIABLES server,   \* the fields of the object that threads share, see Server
          pc,       \* where each thread is
          maxWait,  \* argument of each thread's beginDrain in progress
          calls,    \* calls made by each controller
          clock     \* the steady clock

vars == << server, pc, maxWait, calls, clock >>

\* mode: the thread is the one of start(), joined by stop(); or it has called
\* run(); or it belongs to a MultiHttpServer, which sets its stop flag first.
Server ==
  [mode          : Modes,
   state         : {"Idle", "Running", "Draining", "Stopping"},
   deadline      : 0 .. MaxTime,    \* drainDeadline and drainDeadlineEnabled
   enabled       : BOOLEAN,
   wakeup        : BOOLEAN,         \* the eventfd is readable
   listening     : BOOLEAN,         \* _listenSocket is open
   conns         : 0 .. MaxConns,
   stopRequested : BOOLEAN,         \* the predicate of runUntil
   now           : 0 .. MaxTime,    \* _connections.now
   counted       : 0 .. MaxConns]   \* nbActiveConnections of the maintenance in progress

Init ==
  /\ \E mode \in Modes :
       server = [mode |-> mode, state |-> "Idle", deadline |-> 0, enabled |-> FALSE,
                 wakeup |-> FALSE, listening |-> TRUE, conns |-> 0, stopRequested |-> FALSE,
                 now |-> 0, counted |-> 0]
  /\ pc = [t \in Threads |-> IF t = Loop THEN "prepare" ELSE "idle"]
  /\ maxWait = [t \in Threads |-> 0]
  /\ calls = [t \in Controllers |-> 0]
  /\ clock = 0

Is(state) == server.state = state

\* Thread t goes from one label to the next and leaves the object as s.
Step(t, from, to, s) ==
  /\ pc[t] = from /\ pc' = [pc EXCEPT ![t] = to]
  /\ server' = s
  /\ UNCHANGED << maxWait, calls, clock >>

\* closeListener also wakes the loop.
CloseListener(s) == [s EXCEPT !.listening = FALSE, !.wakeup = @ \/ s.listening]

-----------------------------------------------------------------------------
(* stop() *)

CallStop(t) ==
  /\ pc[t] = "idle" /\ calls[t] < MaxCalls
  /\ DuringStartup \/ pc[Loop] \notin {"prepare", "enter", "clear"}
  /\ pc' = [pc EXCEPT ![t] = "exchange"]
  /\ calls' = [calls EXCEPT ![t] = @ + 1]
  /\ server' = [server EXCEPT !.stopRequested = @ \/ server.mode = "multi"]
  /\ UNCHANGED << maxWait, clock >>

\* exchangeStopping: two compare-and-exchanges, each followed by a plain store.
ExchangeRunning(t) ==
  IF Is("Running") THEN Step(t, "exchange", "disable", [server EXCEPT !.state = "Stopping"])
  ELSE Step(t, "exchange", "exchange again", server)

\* Mutated: a stop() of a draining server does nothing.
ExchangeDrainingForgotten(t) ==
  CASE Is("Running") -> Step(t, "exchange again", "wake", server)
    [] Is("Idle")    -> Step(t, "exchange again", "idle", CloseListener(server))
    [] OTHER         -> Step(t, "exchange again", "idle", server)

\* The state that the second exchange finds decides what stop() does next.
ExchangeDraining(t) ==
  CASE Is("Draining") -> Step(t, "exchange again", "disable", [server EXCEPT !.state = "Stopping"])
    [] Is("Running")  -> Step(t, "exchange again", "wake", server)
    [] Is("Stopping") -> Step(t, "exchange again", "idle", server)
    [] Is("Idle")     -> Step(t, "exchange again", "idle", CloseListener(server))

StopDisablesDeadline(t) == Step(t, "disable", "wake", [server EXCEPT !.enabled = FALSE])

\* wakeupFd.send, then AsyncHandle::stop when start() was used.
StopWakes(t) ==
  Step(t, "wake", CASE server.mode = "start" -> "join"
                    [] server.mode = "run"   -> "close"
                    [] server.mode = "multi" -> "idle",
       [server EXCEPT !.wakeup = TRUE, !.stopRequested = @ \/ server.mode = "start"])

StopJoins(t) == pc[Loop] = "done" /\ Step(t, "join", "close", server)

StopCloses(t) == Step(t, "close", "reset", CloseListener(server))

\* reset(): a compare-and-exchange to Idle, then plain stores by whoever succeeded.
ResetTo(t, from, changed, same) ==
  IF Is("Idle") THEN Step(t, from, same, server)
  ELSE Step(t, from, changed, [server EXCEPT !.state = "Idle"])
ResetFields(t, from, to) == Step(t, from, to, [server EXCEPT !.deadline = 0, !.enabled = FALSE])

StopResets(t) == ResetTo(t, "reset", "reset fields", "idle")
StopResetsFields(t) == ResetFields(t, "reset fields", "idle")

Stop(t) ==
  \/ ExchangeRunning(t)
  \/ ExchangeDraining(t)
  \/ StopDisablesDeadline(t)
  \/ StopWakes(t)
  \/ StopJoins(t)
  \/ StopCloses(t)
  \/ StopResets(t)
  \/ StopResetsFields(t)

-----------------------------------------------------------------------------
(* beginDrain(), called by a controller, or by the loop after a signal *)

Return(t) == IF t = Loop THEN "while" ELSE "idle"

CallBeginDrain(t) ==
  /\ pc[t] = "idle" /\ calls[t] < MaxCalls
  /\ DuringStartup \/ pc[Loop] \notin {"prepare", "enter", "clear"}
  /\ pc' = [pc EXCEPT ![t] = "active?"]
  /\ calls' = [calls EXCEPT ![t] = @ + 1]
  /\ \E w \in Waits : maxWait' = [maxWait EXCEPT ![t] = w]
  /\ UNCHANGED << server, clock >>

DrainTestsActive(t) == Step(t, "active?", IF Is("Idle") THEN Return(t) ELSE "stopping?", server)
DrainTestsStopping(t) == Step(t, "stopping?", IF Is("Stopping") THEN Return(t) ELSE "draining?", server)
DrainTestsDraining(t) ==
  Step(t, "draining?", IF ~Is("Draining") THEN "set deadline"
                       ELSE IF maxWait[t] > 0 THEN "shrink" ELSE Return(t), server)

\* _connections.now + maxWait
NewDeadline(t) ==
  IF maxWait[t] = 0 THEN 0 ELSE Min({server.now + maxWait[t], MaxTime})

\* enterDraining: three stores.
SetDeadline(t) == Step(t, "set deadline", "set draining", [server EXCEPT !.deadline = NewDeadline(t)])
SetDraining(t) == Step(t, "set draining", "set enabled", [server EXCEPT !.state = "Draining"])
SetEnabled(t) == Step(t, "set enabled", Return(t), [server EXCEPT !.enabled = maxWait[t] > 0])

\* Mutated: the latest deadline wins.
ReplaceDeadline(t) ==
  Step(t, "shrink", "wake loop", [server EXCEPT !.deadline = NewDeadline(t), !.enabled = TRUE])

\* shrinkDeadline
ShrinkDeadline(t) ==
  Step(t, "shrink", "wake loop",
       IF ~server.enabled \/ NewDeadline(t) < server.deadline
       THEN [server EXCEPT !.deadline = NewDeadline(t), !.enabled = TRUE] ELSE server)
ShrinkWakes(t) == Step(t, "wake loop", Return(t), [server EXCEPT !.wakeup = TRUE])

BeginDrain(t) ==
  \/ DrainTestsActive(t)
  \/ DrainTestsStopping(t)
  \/ DrainTestsDraining(t)
  \/ SetDeadline(t)
  \/ SetDraining(t)
  \/ SetEnabled(t)
  \/ ShrinkDeadline(t)
  \/ ShrinkWakes(t)

-----------------------------------------------------------------------------
(* The event loop: run() when server.mode = "run", else runUntil() *)

Predicate == server.mode # "run" /\ server.stopRequested

\* prepareRun throws when the server is active and listens again after a stop().
Prepare ==
  IF Predicate \/ ~Is("Idle") THEN Step(Loop, "prepare", "done", server)
  ELSE Step(Loop, "prepare", "enter", [server EXCEPT !.listening = TRUE])

\* enterRunning: two stores.
EnterRunning == Step(Loop, "enter", "clear", [server EXCEPT !.state = "Running"])
ClearDeadline == Step(Loop, "clear", "while", [server EXCEPT !.enabled = FALSE])

\* Mutated: only the state ends the loop.
TestActiveOnly == Step(Loop, "while", IF Is("Idle") THEN "leave" ELSE "poll", server)
TestActive == Step(Loop, "while", IF Is("Idle") \/ Predicate THEN "leave" ELSE "poll", server)

\* Poll returns: the loop's copy of the clock is refreshed and one event handled.
Polled(s) == [s EXCEPT !.now = clock]

Accept ==
  /\ server.listening /\ server.conns < MaxConns
  /\ Step(Loop, "poll", "while", Polled([server EXCEPT !.conns = @ + 1]))
\* Mutated: a connection that is already gone is counted down again.
DisconnectAgain == Step(Loop, "poll", "while", Polled([server EXCEPT !.conns = @ - 1]))
Disconnect ==
  /\ server.conns > 0
  /\ Step(Loop, "poll", "while", Polled([server EXCEPT !.conns = @ - 1]))
Wakeup ==
  /\ server.wakeup
  /\ Step(Loop, "poll", "woken", Polled([server EXCEPT !.wakeup = FALSE]))
TestWoken ==
  IF Is("Stopping") THEN Step(Loop, "woken", "sweep", CloseListener(server))
  ELSE Step(Loop, "woken", "while", server)
Timer == Step(Loop, "poll", "sweep", Polled(server))

\* exchangeStopping by the loop itself, in one step; no maintenance follows.
PollError ==
  /\ PollFails
  /\ Step(Loop, "poll", "while",
          IF server.state \in {"Running", "Draining"}
          THEN [Polled(server) EXCEPT !.state = "Stopping", !.enabled = FALSE] ELSE Polled(server))

\* Maintenance: the connections are counted, then swept; the tests on the state
\* follow, each a read of its own.  A drained connection may be closed.
Sweep ==
  \E left \in 0 .. server.conns :
    /\ Is("Draining") \/ left = server.conns
    /\ Step(Loop, "sweep", "test stopping", [server EXCEPT !.counted = server.conns, !.conns = left])

\* SignalHandler::IsStopRequested: the loop drains itself.
DrainOnSignal ==
  /\ pc[Loop] = "test draining" /\ pc' = [pc EXCEPT ![Loop] = "active?"]
  /\ \E w \in Waits : maxWait' = [maxWait EXCEPT ![Loop] = w]
  /\ UNCHANGED << server, calls, clock >>

TestStopping ==
  Step(Loop, "test stopping", IF Is("Stopping") THEN "shut" ELSE "test drained", server)
TestDrained ==
  Step(Loop, "test drained",
       IF Is("Draining") /\ server.counted = 0 THEN "shut" ELSE "test draining", server)
TestDraining ==
  IF Is("Draining") THEN Step(Loop, "test draining", "test deadline", server)
  ELSE \/ Step(Loop, "test draining", "while", server)
       \/ Signal /\ DrainOnSignal
\* Mutated: the deadline is tested when there is none.
TestDeadlineUnarmed ==
  Step(Loop, "test deadline",
       IF ~server.enabled /\ server.now >= server.deadline THEN "shut" ELSE "while", server)
TestDeadline ==
  Step(Loop, "test deadline",
       IF server.enabled /\ server.now >= server.deadline THEN "shut" ELSE "while", server)

\* Mutated: the connections are forgotten.
ShutDownListener == Step(Loop, "shut", "loop reset", CloseListener(server))
\* closeListener, closeAllConnections, reset.
ShutDown == Step(Loop, "shut", "loop reset", [CloseListener(server) EXCEPT !.conns = 0])
LoopResets == ResetTo(Loop, "loop reset", "loop reset fields", "while")
LoopResetsFields == ResetFields(Loop, "loop reset fields", "while")

\* The reset at the end of run() and runUntil().
Leave == ResetTo(Loop, "leave", "leave fields", "done")
LeaveFields == ResetFields(Loop, "leave fields", "done")

EventLoop ==
  \/ Prepare
  \/ EnterRunning
  \/ ClearDeadline
  \/ TestActive
  \/ Accept
  \/ Disconnect
  \/ Wakeup
  \/ TestWoken
  \/ Timer
  \/ PollError
  \/ Sweep
  \/ TestStopping
  \/ TestDrained
  \/ TestDraining
  \/ TestDeadline
  \/ ShutDown
  \/ LoopResets
  \/ LoopResetsFields
  \/ Leave
  \/ LeaveFields

Tick == clock < MaxTime /\ clock' = clock + 1 /\ UNCHANGED << server, pc, maxWait, calls >>

Next ==
  \/ EventLoop
  \/ BeginDrain(Loop)
  \/ \E t \in Controllers : CallStop(t) \/ CallBeginDrain(t) \/ Stop(t) \/ BeginDrain(t)
  \/ Tick

Spec == Init /\ [][Next]_vars

\* A thread that is in the middle of a call goes on, the clock goes on, and the
\* maintenance timer is delivered again and again (armPeriodic on the timer that
\* eventLoop polls), whatever else happens on the connections.
FairSpec ==
  /\ Spec
  /\ WF_vars(EventLoop \/ BeginDrain(Loop))
  /\ SF_vars(Timer)
  /\ \A t \in Controllers : WF_vars(Stop(t) \/ BeginDrain(t))
  /\ WF_vars(Tick)

-----------------------------------------------------------------------------
(* Properties *)

\* Every shared field keeps its type.
TypeOK ==
  /\ server \in Server
  /\ maxWait \in [Threads -> Waits \cup {0}]
  /\ calls \in [Controllers -> 0 .. MaxCalls]
  /\ clock \in 0 .. MaxTime

Ended == pc[Loop] = "done"

\* "Run the server event loop until stop() is called": every call of stop() is
\* followed by the end of the loop, whatever drains and connections do.
StopEndsLoop == \A t \in Controllers : (pc[t] = "exchange") ~> Ended

\* "When maxWait > 0 a deadline is enforced": a beginDrain with a deadline that
\* starts the drain ends the loop, though clients keep their connections open.
DrainEndsLoop == \A t \in Controllers : (pc[t] = "set enabled" /\ maxWait[t] > 0) ~> Ended

\* A loop that ends without a stop() has drained: no connection and no listener
\* is left behind.
DrainedCleanly ==
  server.mode = "start" /\ Ended /\ ~server.stopRequested => server.conns = 0 /\ ~server.listening


\* "Calling beginDrain() while already draining updates the deadline to the
\* earliest of the current and new values": an armed deadline never moves away.
DeadlineShrinks ==
  [][ Is("Draining") /\ server.enabled /\ server'.state = "Draining" /\ server'.enabled
        => server'.deadline <= server.deadline ]_vars

\* "It is possible to call run() again on a stopped server": when the loop has
\* ended and no call is in progress, the server is idle.
IdleWhenEnded == Ended /\ (\A t \in Controllers : pc[t] = "idle") => Is("Idle")
=============================================================================
