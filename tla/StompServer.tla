---------------------------- MODULE StompServer ----------------------------
(***************************************************************************)
(* The STOMP server (stompserver/server.go, stomp_connection.go): an       *)
(* accepting goroutine, the event loop, and a goroutine for each           *)
(* connection, which wait for each other through bounded queues. The loop  *)
(* takes connection events and API events, and puts frames into the        *)
(* connections' queues; a connection puts its events into the loop's.      *)
(*                                                                         *)
(* What a client sends is any frame: readInFrames only hands it on. Frames *)
(* to a client are counted. A write succeeds, or fails and the connection  *)
(* ends. FabricEndpoint composes these actions with the callbacks.         *)
(***************************************************************************)
EXTENDS Integers, Sequences

CONSTANTS
  Conn,          \* connections
  SubId,         \* subscription ids a client chooses
  Destination, NoDestination,
  EventCap, OutCap, ApiCap  \* the capacities of connectionEvents, outFrames and apiEvents

VARIABLES
  state,         \* stompConn.state, "none" before the connection is accepted
  severed,       \* the connections whose closeOnce has closed rawConnection
  run,           \* where the goroutine of a connection is; the event it wants to send and what follows
  subscriptions, \* stompConn.subscriptions
  outFrames,     \* the number of frames in the queue of a connection
  accepting,     \* the accepting goroutine: in Accept, to send the ConnectionStarting event, or ended
  running,       \* stompServer.running; "stopping" until Stop has sent its event
  connectionEvents, apiEvents,
  connectionsMap,
  subscriptionsMap, \* subscriptionsMap: destination, connection and subscription id
  loop,          \* where run is, the entry that it serves and those it has still to serve
  \* What happened so far.
  started, ended, \* connections whose ConnectionStarting, ConnectionClosed event was handled
  overtaken      \* connections whose ConnectionClosed event was handled first

connVars == <<state, severed, run, subscriptions>>
serverVars == <<connectionsMap, subscriptionsMap, started, ended, overtaken>>
stompVars == <<connVars, outFrames, accepting, running, connectionEvents, apiEvents, serverVars, loop>>

Idle == [at |-> "idle"]

StompInit ==
  /\ state = [c \in Conn |-> "none"] /\ severed = {}
  /\ run = [c \in Conn |-> [at |-> "none"]]
  /\ subscriptions = [c \in Conn |-> [s \in SubId |-> NoDestination]]
  /\ outFrames = [c \in Conn |-> 0]
  /\ accepting = [at |-> "accept"] /\ running = "yes"
  /\ connectionEvents = << >> /\ apiEvents = << >>
  /\ connectionsMap = {} /\ subscriptionsMap = {}
  /\ loop = Idle
  /\ started = {} /\ ended = {} /\ overtaken = {}

(***************************************************************************)
(* A connection. conn.run waits in its select with at = "select".          *)
(***************************************************************************)
Event(kind, c, s, d) == [type |-> kind, conn |-> c, sub |-> s, destination |-> d]
Plain(kind, c) == [type |-> kind, conn |-> c]

\* The goroutine goes on to conn.events <- event.
Emits(c, event, then) == run' = [run EXCEPT ![c] = [at |-> "emit", event |-> event, then |-> then]]

Emit(c) ==
  /\ run[c].at = "emit"
  /\ Len(connectionEvents) < EventCap
  /\ connectionEvents' = Append(connectionEvents, run[c].event)
  /\ run' = [run EXCEPT ![c] = [at |-> run[c].then]]
  /\ UNCHANGED <<state, severed, subscriptions, outFrames, accepting, running, apiEvents, serverVars, loop>>

Selecting(c, at) == run[c].at = "select" /\ state[c] = at

\* CONNECT: the answer is written, and then the state set, whether or not it is "closed" by now.
handleConnect(c) ==
  /\ Selecting(c, "connecting")
  /\ run' = [run EXCEPT ![c] = [at |-> "connect"]]
  /\ UNCHANGED <<state, severed, subscriptions, outFrames, accepting, running, connectionEvents, apiEvents,
                 serverVars, loop>>

SetConnected(c) ==
  /\ run[c].at = "connect"
  /\ state' = [state EXCEPT ![c] = "connected"]
  /\ Emits(c, Plain("established", c), "select")
  /\ UNCHANGED <<severed, subscriptions, outFrames, accepting, running, connectionEvents, apiEvents, serverVars, loop>>

handleSubscribe(c, s, d) ==
  /\ Selecting(c, "connected")
  /\ subscriptions[c][s] = NoDestination
  /\ subscriptions' = [subscriptions EXCEPT ![c][s] = d]
  /\ Emits(c, Event("subscribe", c, s, d), "select")
  /\ UNCHANGED <<state, severed, outFrames, accepting, running, connectionEvents, apiEvents, serverVars, loop>>

handleUnsubscribe(c, s) ==
  /\ Selecting(c, "connected")
  /\ subscriptions[c][s] # NoDestination
  /\ subscriptions' = [subscriptions EXCEPT ![c][s] = NoDestination]
  /\ Emits(c, Event("unsubscribe", c, s, subscriptions[c][s]), "select")
  /\ UNCHANGED <<state, severed, outFrames, accepting, running, connectionEvents, apiEvents, serverVars, loop>>

handleSend(c) ==
  /\ Selecting(c, "connected")
  /\ Emits(c, Plain("message", c), "select")
  /\ UNCHANGED <<state, severed, subscriptions, outFrames, accepting, running, connectionEvents, apiEvents,
                 serverVars, loop>>

\* Mutant: a connection without subscriptions writes nothing.
WriteOutFrame_Subscribed(c) ==
  /\ run[c].at = "select" /\ subscriptions[c] # [s \in SubId |-> NoDestination]
  /\ outFrames[c] > 0
  /\ outFrames' = [outFrames EXCEPT ![c] = @ - 1]
  /\ UNCHANGED <<connVars, accepting, running, connectionEvents, apiEvents, serverVars, loop>>

WriteOutFrame(c) ==
  /\ run[c].at = "select" /\ c \notin severed
  /\ outFrames[c] > 0
  /\ outFrames' = [outFrames EXCEPT ![c] = @ - 1]
  /\ UNCHANGED <<connVars, accepting, running, connectionEvents, apiEvents, serverVars, loop>>

\* Close, by the connection itself: the Once is used, and the event is to be sent.
Close(c) ==
  /\ run[c].at = "select" /\ c \notin severed
  /\ state' = [state EXCEPT ![c] = "closed"] /\ severed' = severed \cup {c}
  /\ Emits(c, Plain("closed", c), "ended")
  /\ UNCHANGED <<subscriptions, accepting, running, connectionEvents, apiEvents, serverVars, loop>>

\* The write of a frame fails; the frame is gone.
FailedWrite(c) == Close(c) /\ outFrames[c] > 0 /\ outFrames' = [outFrames EXCEPT ![c] = @ - 1]

\* readInFrames has ended, by an error or a missed heart-beat; or a heart-beat was not written.
EndOfInput(c) == Close(c) /\ UNCHANGED outFrames

handleDisconnect(c) == Close(c) /\ state[c] = "connected" /\ UNCHANGED outFrames

\* handleIncomingFrame refuses a frame: an ERROR frame is written, and run returns.
sendError(c) == Close(c) /\ UNCHANGED outFrames

\* The server has closed the connection; the Once of Close is used up.
EndRun(c) ==
  /\ run[c].at = "select" /\ c \in severed
  /\ run' = [run EXCEPT ![c] = [at |-> "ended"]]
  /\ outFrames' \in {outFrames, [outFrames EXCEPT ![c] = IF @ > 0 THEN @ - 1 ELSE @]}
  /\ UNCHANGED <<state, severed, subscriptions, accepting, running, connectionEvents, apiEvents, serverVars, loop>>

(***************************************************************************)
(* The accepting goroutine. The connection runs before its event is sent.  *)
(***************************************************************************)
\* closeServer closes the listener. Stop alone does not: the goroutine that is in Accept
\* may return with one more connection.
Accept(c) ==
  /\ accepting.at = "accept" /\ loop.at \in {"idle", "sending"}
  /\ state[c] = "none"
  /\ state' = [state EXCEPT ![c] = "connecting"]
  /\ run' = [run EXCEPT ![c] = [at |-> "select"]]
  /\ accepting' = [at |-> "send", conn |-> c]
  /\ UNCHANGED <<severed, subscriptions, outFrames, running, connectionEvents, apiEvents, serverVars, loop>>

SendStarting ==
  /\ accepting.at = "send"
  /\ Len(connectionEvents) < EventCap
  /\ connectionEvents' = Append(connectionEvents, Plain("starting", accepting.conn))
  /\ accepting' = [at |-> IF running = "yes" THEN "accept" ELSE "ended"]
  /\ UNCHANGED <<connVars, outFrames, running, apiEvents, serverVars, loop>>

(***************************************************************************)
(* The event loop. The callbacks of FabricEndpoint run inside its steps.   *)
(***************************************************************************)
TakesConnectionEvent(type) ==
  /\ loop.at = "idle"
  /\ connectionEvents # << >> /\ Head(connectionEvents).type = type
  /\ connectionEvents' = Tail(connectionEvents)
  /\ UNCHANGED <<connVars, outFrames, accepting, running, apiEvents, loop>>

ConnectionStarting ==
  LET c == Head(connectionEvents).conn IN
  /\ TakesConnectionEvent("starting")
  /\ connectionsMap' = connectionsMap \cup {c} /\ started' = started \cup {c}
  /\ UNCHANGED <<subscriptionsMap, ended, overtaken>>

\* Of handleConnectionEvent only the callback, if there is one.
ConnectionEstablished == TakesConnectionEvent("established") /\ UNCHANGED serverVars

\* Mutant: the connection goes, its subscriptions stay.
ConnectionClosed_KeepsSubscriptions ==
  LET c == Head(connectionEvents).conn IN
  /\ TakesConnectionEvent("closed")
  /\ connectionsMap' = connectionsMap \ {c}
  /\ ended' = ended \cup {c} /\ overtaken' = overtaken \cup ({c} \ started)
  /\ UNCHANGED <<subscriptionsMap, started>>

ConnectionClosed ==
  LET c == Head(connectionEvents).conn IN
  /\ TakesConnectionEvent("closed")
  /\ connectionsMap' = connectionsMap \ {c}
  /\ ended' = ended \cup {c} /\ overtaken' = overtaken \cup ({c} \ started)
  /\ subscriptionsMap' = {e \in subscriptionsMap : e.conn # c}
  /\ UNCHANGED started

Entry(event) == [destination |-> event.destination, conn |-> event.conn, sub |-> event.sub]

SubscribeToTopic ==
  /\ TakesConnectionEvent("subscribe")
  /\ subscriptionsMap' = subscriptionsMap \cup {Entry(Head(connectionEvents))}
  /\ UNCHANGED <<connectionsMap, started, ended, overtaken>>

UnsubscribeFromTopic ==
  /\ TakesConnectionEvent("unsubscribe")
  /\ subscriptionsMap' = subscriptionsMap \ {Entry(Head(connectionEvents))}
  /\ UNCHANGED <<connectionsMap, started, ended, overtaken>>

IncomingMessage == TakesConnectionEvent("message") /\ UNCHANGED serverVars

TakesApiEvent(type) ==
  /\ loop.at = "idle"
  /\ apiEvents # << >> /\ Head(apiEvents).type = type
  /\ apiEvents' = Tail(apiEvents)
  /\ UNCHANGED <<connVars, outFrames, accepting, running, connectionEvents, serverVars>>

\* A loop over a Go map goes on with any of the entries that it has not taken yet.
Turns(at, entries) == {[at |-> at, next |-> e, rest |-> entries \ {e}] : e \in entries}

SendsTo(entries) == loop' \in (IF entries = {} THEN {Idle} ELSE Turns("sending", entries))

Closes(conns) == loop' \in (IF conns = {} THEN {[at |-> "closed"]} ELSE Turns("closing", conns))

sendFrame ==
  /\ TakesApiEvent("message")
  /\ SendsTo({e \in subscriptionsMap : e.destination = Head(apiEvents).destination})

sendFrameToClient ==
  /\ TakesApiEvent("private")
  /\ SendsTo({e \in subscriptionsMap : e.destination = Head(apiEvents).destination /\ e.conn = Head(apiEvents).conn})

\* conn.outFrames <- f, which waits for room.
SendFrameToSubscription ==
  LET c == loop.next.conn IN
  /\ loop.at = "sending"
  /\ outFrames[c] < OutCap
  /\ outFrames' = [outFrames EXCEPT ![c] = @ + 1]
  /\ SendsTo(loop.rest)
  /\ UNCHANGED <<connVars, accepting, running, connectionEvents, apiEvents, serverVars>>

\* Mutant: connections that have not connected yet are forgotten.
closeServer_Connected ==
  /\ TakesApiEvent("close")
  /\ Closes({c \in connectionsMap : state[c] # "connecting"})

closeServer ==
  /\ TakesApiEvent("close")
  /\ Closes(connectionsMap)

\* Close of the next connection: its Once may be used, or in use by the connection itself.
CloseNext ==
  LET c == loop.next IN
  /\ loop.at = "closing"
  /\ ~(run[c].at = "emit" /\ run[c].then = "ended")
  /\ IF c \in severed
     THEN Closes(loop.rest) /\ UNCHANGED <<state, severed>>
     ELSE /\ state' = [state EXCEPT ![c] = "closed"] /\ severed' = severed \cup {c}
          /\ loop' = [at |-> "emitting", next |-> c, rest |-> loop.rest]
  /\ UNCHANGED <<run, subscriptions, outFrames, accepting, running, connectionEvents, apiEvents, serverVars>>

\* The loop itself sends to the queue that only it reads.
EmitClosed ==
  /\ loop.at = "emitting"
  /\ Len(connectionEvents) < EventCap
  /\ connectionEvents' = Append(connectionEvents, Plain("closed", loop.next))
  /\ Closes(loop.rest)
  /\ UNCHANGED <<connVars, outFrames, accepting, running, apiEvents, serverVars>>

LoopReturns ==
  /\ loop.at = "closed"
  /\ loop' = [at |-> "stopped"]
  /\ connectionsMap' = {}
  /\ UNCHANGED <<connVars, outFrames, accepting, running, connectionEvents, apiEvents,
                 subscriptionsMap, started, ended, overtaken>>

\* Stop: running is cleared, then the event is sent when there is room.
Stop ==
  /\ running = "yes"
  /\ running' = "stopping"
  /\ UNCHANGED <<connVars, outFrames, accepting, connectionEvents, apiEvents, serverVars, loop>>

SendClose ==
  /\ running = "stopping" /\ Len(apiEvents) < ApiCap
  /\ running' = "no"
  /\ apiEvents' = Append(apiEvents, [type |-> "close"])
  /\ UNCHANGED <<connVars, outFrames, accepting, connectionEvents, serverVars, loop>>
=============================================================================
