----------------------- MODULE FabricEndpointProofs -----------------------
(***************************************************************************)
(* Proofs about the STOMP server and the fabric endpoint on it, for any    *)
(* number of connections, subscription ids, destinations and channels and  *)
(* any capacity of the queues.                                             *)
(*                                                                         *)
(* What the event loop knows lags behind the connections by the events     *)
(* that are queued or about to be sent, so the invariant is about these:   *)
(* a ConnectionStarting event comes once (Starts), nothing of a connection *)
(* but that event follows its ConnectionClosed event (Endings), and what   *)
(* the server has, after the queued events, is what the connections have   *)
(* (Lag).                                                                  *)
(***************************************************************************)
EXTENDS FabricEndpoint, TLAPS

\* The loop still takes events.
Open == loop.at \in {"idle", "sending"}

Aimed == {"subscribe", "unsubscribe"}
ConnEvent ==
  [type : {"starting", "established", "message", "closed"}, conn : Conn]
    \cup [type : Aimed, conn : Conn, sub : SubId, destination : Destination]
Place ==
  [at : {"none", "select", "connect", "ended"}]
    \cup [at : {"emit"}, event : ConnEvent, then : {"select", "ended"}]
View == [Conn -> [SubId -> Destination \cup {NoDestination}]]

Types ==
  /\ use \in Uses
  /\ state \in [Conn -> {"none", "connecting", "connected", "closed"}]
  /\ severed \subseteq Conn
  /\ run \in [Conn -> Place]
  /\ \A c \in Conn : run[c].at = "emit" =>
       /\ run[c].event.conn = c /\ run[c].event.type # "starting"
       /\ run[c].then = "ended" <=> run[c].event.type = "closed"
  /\ subscriptions \in View
  /\ accepting \in [at : {"accept", "ended"}] \cup [at : {"send"}, conn : Conn]
  /\ connectionEvents \in Seq(ConnEvent)
  /\ connectionsMap \subseteq Conn
  /\ subscriptionsMap \subseteq [destination : Destination, conn : Conn, sub : SubId]
  /\ started \subseteq Conn /\ ended \subseteq Conn
  /\ loop.at \in {"idle", "sending", "closing", "emitting", "closed", "stopped"}
  /\ loop.at \in {"closing", "emitting"} => loop.next \in Conn /\ loop.rest \subseteq Conn

\* A connection is accepted once, and its ConnectionStarting event is sent and handled once.
Starts ==
  /\ \A c \in Conn : state[c] = "none" => run[c].at = "none"
  /\ \A c \in started : state[c] # "none"
  /\ accepting.at = "send" => state[accepting.conn] # "none" /\ accepting.conn \notin started
  /\ \A i \in 1..Len(connectionEvents) : connectionEvents[i].type = "starting" =>
       /\ state[connectionEvents[i].conn] # "none" /\ connectionEvents[i].conn \notin started
       /\ accepting.at = "send" => accepting.conn # connectionEvents[i].conn
       /\ \A j \in 1..Len(connectionEvents) :
            connectionEvents[j].type = "starting" /\ connectionEvents[j].conn = connectionEvents[i].conn => j = i

\* Nothing but a ConnectionStarting event follows the ConnectionClosed event of a connection, in the
\* queue or when it was handled.
Closing(events, gone) ==
  /\ \A i \in 1..Len(events) : events[i].type = "closed" =>
       \A j \in 1..Len(events) : events[j].conn = events[i].conn /\ j > i => events[j].type = "starting"
  /\ \A c \in gone, j \in 1..Len(events) : events[j].conn = c => events[j].type = "starting"

\* A ConnectionClosed event is of a connection that is closed; while the loop takes events, a connection
\* closes itself and ends.
Endings ==
  /\ \A c \in Conn : run[c].at = "emit" /\ run[c].event.type = "closed" => c \in severed
  /\ \A i \in 1..Len(connectionEvents) : connectionEvents[i].type = "closed" => connectionEvents[i].conn \in severed
  /\ ended \ started \subseteq overtaken
  /\ Open =>
       /\ \A c \in severed : run[c].at = "ended" \/ (run[c].at = "emit" /\ run[c].then = "ended")
       /\ \A i \in 1..Len(connectionEvents) :
            connectionEvents[i].type = "closed" => run[connectionEvents[i].conn].at = "ended"
       /\ \A c \in ended : run[c].at = "ended"
       /\ Closing(connectionEvents, ended)

\* The loop knows the connections that started and are not closed, or closes them one by one.
Knows ==
  /\ Open => started \subseteq connectionsMap \cup severed
  /\ loop.at \in {"closing", "emitting"} => started \subseteq severed \cup {loop.next} \cup loop.rest
  /\ loop.at = "emitting" => loop.next \in severed
  /\ loop.at = "closed" => started \subseteq severed
  /\ StoppedMeansClosed

\* The subscriptions of the connections after an event, from those before it; and the events there can be.
Apply(v, e) ==
  [c \in Conn |-> [s \in SubId |->
     IF e.type \in Aimed /\ e.conn = c /\ e.sub = s
     THEN IF e.type = "subscribe" THEN e.destination ELSE NoDestination
     ELSE v[c][s]]]
Legal(v, e) ==
  /\ e.type = "subscribe" => v[e.conn][e.sub] = NoDestination
  /\ e.type = "unsubscribe" => v[e.conn][e.sub] = e.destination

\* views[n] is what the server will have when it has handled n of the events.
Chain(views, events) ==
  /\ views \in [0..Len(events) -> View]
  /\ \A n \in 1..Len(events) : Legal(views[n - 1], events[n]) /\ views[n] = Apply(views[n - 1], events[n])

\* What the server has of the connections that are not closed.
Shows(v) == \A c \in Conn \ ended, s \in SubId, d \in Destination :
  [destination |-> d, conn |-> c, sub |-> s] \in subscriptionsMap <=> v[c][s] = d

\* After all events, and the one that it is about to send, it is what a connection has.
Meets(v, c) ==
  IF run[c].at = "emit" THEN Legal(v, run[c].event) /\ subscriptions[c] = Apply(v, run[c].event)[c]
  ELSE subscriptions[c] = v[c]

Tracks(views, v) ==
  /\ Chain(views, connectionEvents) /\ Shows(views[0])
  /\ v \in View /\ v = views[Len(connectionEvents)] /\ \A c \in Conn : Meets(v, c)
Lag == Open => \E views, v : Tracks(views, v)

\* A mapping there is has subscriptions, and the endpoint's own channel is marked as such.
Mapped ==
  /\ busChannel \in [Channel -> {"none", "program", "endpoint"}]
  /\ chanMappings \in [Channel -> [subs : SUBSET (Conn \X SubId), hears : BOOLEAN,
                                   errors : Destination \cup {NoDestination}, auto : BOOLEAN]]
  /\ \A ch \in Channel :
       /\ chanMappings[ch].subs = {} => chanMappings[ch] = NoMapping
       /\ busChannel[ch] = "endpoint" => chanMappings[ch].auto
  /\ EndpointFollowsServer

IInv == Types /\ Starts /\ Endings /\ GoneLeavesNothing /\ Knows /\ Lag /\ Mapped

-----------------------------------------------------------------------------
(***************************************************************************)
(* The queue of connection events.                                         *)
(***************************************************************************)
\* The loop takes the first event.
LEMMA Taken ==
  ASSUME NEW T, NEW s \in Seq(T), s # << >>
  PROVE  /\ Len(s) \in Nat \ {0} /\ 1 \in 1..Len(s) /\ Head(s) = s[1] /\ Head(s) \in T
         /\ Tail(s) \in Seq(T) /\ Len(Tail(s)) = Len(s) - 1
         /\ \A i \in 1..Len(Tail(s)) : i + 1 \in 1..Len(s) /\ Tail(s)[i] = s[i + 1]
<1>1. Len(s) \in Nat /\ Len(s) # 0
  BY SMTT(60)
<1>2. Head(s) \in T /\ Tail(s) \in Seq(T) /\ Len(Tail(s)) = Len(s) - 1
  BY <1>1, SMTT(60)
<1>3. \A i \in 1..Len(Tail(s)) : Tail(s)[i] = s[i + 1]
  BY <1>1, SMTT(60)
<1>4. Head(s) = s[1]
  BY <1>1, SMTT(60)
<1> QED BY <1>1, <1>2, <1>3, <1>4, SMTT(60)

\* A goroutine, or the loop itself, adds an event.
LEMMA Added ==
  ASSUME NEW T, NEW s \in Seq(T), NEW e \in T
  PROVE  /\ Append(s, e) \in Seq(T) /\ Len(s) \in Nat /\ Len(Append(s, e)) = Len(s) + 1
         /\ \A i \in 1..Len(s) : Append(s, e)[i] = s[i]
         /\ Append(s, e)[Len(s) + 1] = e
BY SMTT(60)

-----------------------------------------------------------------------------
(***************************************************************************)
(* The steps, by what they do to the server.                               *)
(***************************************************************************)
\* Nothing that the invariants of the server are about.
Quiet == UNCHANGED <<connVars, accepting, connectionEvents, serverVars, loop>>

\* The loop serves an API event that is not the one of Stop.
Serves ==
  /\ Open /\ Open'
  /\ UNCHANGED <<connVars, accepting, connectionEvents, serverVars>>

\* The goroutine of a connection handles a frame, or ends.
Handles(c) ==
  \/ handleConnect(c) \/ SetConnected(c) \/ handleSend(c) \/ EndRun(c)
  \/ \E s \in SubId, d \in Destination : handleSubscribe(c, s, d)
  \/ \E s \in SubId : handleUnsubscribe(c, s)

\* An event of which only the callback of the endpoint is run.
Passes == (TakesConnectionEvent("established") \/ TakesConnectionEvent("message")) /\ UNCHANGED serverVars

\* The loop serves the subscriptions of a message one by one (server.go:335-339).
LEMMA SendsToSome ==
  ASSUME NEW entries, SendsTo(entries)
  PROVE  Open'
<1>1. CASE entries = {}
  BY <1>1, SMTT(60) DEF SendsTo, Idle, Open
<1>2. CASE entries # {}
  BY <1>2, SMTT(60) DEF SendsTo, Turns, Open
<1> QED BY <1>1, <1>2, SMTT(60)

\* The loop closes the connections one by one (server.go:230-232).
LEMMA ClosesRest ==
  ASSUME NEW S, Closes(S)
  PROVE  \/ S = {} /\ loop'.at = "closed"
         \/ loop'.at = "closing" /\ loop'.next \in S /\ loop'.rest = S \ {loop'.next}
<1>1. CASE S = {}
  BY <1>1, SMTT(60) DEF Closes
<1>2. CASE S # {}
  BY <1>2, SMTT(60) DEF Closes, Turns
<1> QED BY <1>1, <1>2, SMTT(60)

\* Every step is one of these.
LEMMA Kinds ==
  ASSUME Types, Next
  PROVE  \/ Quiet \/ Serves \/ SendStarting \/ Passes
         \/ \E c \in Conn : Accept(c) \/ Handles(c) \/ Close(c) \/ Emit(c)
         \/ ConnectionStarting \/ SubscribeToTopic \/ UnsubscribeFromTopic \/ ConnectionClosed
         \/ closeServer \/ CloseNext \/ EmitClosed \/ LoopReturns
<1>1. CASE LoopStep
  <2>1. CASE ConnectionStarting \/ ConnectionEstablished \/ NoRequest
    BY <2>1, ZenonT(60) DEF ConnectionEstablished, NoRequest, IncomingMessage, Passes
  <2>2. CASE sendFrame \/ sendFrameToClient
    <3>1. Open /\ UNCHANGED <<connVars, accepting, connectionEvents, serverVars>>
      BY <2>2, SMTT(60) DEF sendFrame, sendFrameToClient, TakesApiEvent, Open
    <3>2. PICK entries : SendsTo(entries)
      BY <2>2, ZenonT(60) DEF sendFrame, sendFrameToClient
    <3> QED BY <3>1, <3>2, SendsToSome, ZenonT(60) DEF Serves
  <2>3. CASE SendFrameToSubscription
    <3>1. Open /\ UNCHANGED <<connVars, accepting, connectionEvents, serverVars>>
      BY <2>3, ZenonT(60) DEF SendFrameToSubscription, Open
    <3>2. SendsTo(loop.rest)
      BY <2>3, ZenonT(60) DEF SendFrameToSubscription
    <3> QED BY <3>1, <3>2, SendsToSome, ZenonT(60) DEF Serves
  <2>4. CASE closeServer \/ CloseNext \/ EmitClosed \/ LoopReturns
    BY <2>4, SMTT(60)
  <2>5. CASE Subscribed \/ Unsubscribed \/ Closed \/ bridgeMessage
    BY <2>5, SMTT(60) DEF Subscribed, Unsubscribed, Closed, bridgeMessage, IncomingMessage, Passes
  <2> QED BY <1>1, <2>1, <2>2, <2>3, <2>4, <2>5, ZenonT(60) DEF LoopStep
<1>2. CASE SendStarting
  BY <1>2, ZenonT(60)
<1>3. ASSUME NEW c \in use.conns, Running(c) PROVE c \in Conn /\ (Handles(c) \/ Emit(c) \/ Quiet)
  <2>1. c \in Conn
    BY <1>3, EndpointAssumption, ZenonT(60) DEF Types
  <2>2. CASE WriteOutFrame(c)
    BY <2>1, <2>2, ZenonT(60) DEF WriteOutFrame, Quiet
  <2> QED BY <1>3, <2>1, <2>2, ZenonT(60) DEF Running, Handles
<1>4. ASSUME NEW c \in use.conns, ConnStep(c) PROVE c \in Conn /\ (Accept(c) \/ Handles(c) \/ Close(c))
  <2>1. c \in Conn /\ use.destinations \subseteq Destination
    BY <1>4, EndpointAssumption, ZenonT(60) DEF Types
  <2>2. CASE \E s \in SubId, d \in use.destinations : handleSubscribe(c, s, d)
    BY <2>1, <2>2, ZenonT(60) DEF Handles
  <2>3. CASE FailedWrite(c) \/ EndOfInput(c) \/ handleDisconnect(c) \/ sendError(c)
    BY <2>1, <2>3, ZenonT(60) DEF FailedWrite, EndOfInput, handleDisconnect, sendError
  <2> QED BY <1>4, <2>1, <2>2, <2>3, ZenonT(60) DEF ConnStep, Handles
<1>5. CASE Stop \/ SendClose
  BY <1>5, ZenonT(60) DEF Stop, SendClose, Quiet
<1>6. ASSUME NEW ch, Publish(ch) \/ CreateChannel(ch) \/ DestroyChannel(ch) PROVE Quiet
  BY <1>6, ZenonT(60) DEF Publish, CreateChannel, DestroyChannel, Quiet, stompVars
<1>7. ASSUME NEW r, Respond(r) PROVE Quiet
  BY <1>7, ZenonT(60) DEF Respond, Quiet, stompVars
<1>8. ASSUME NEW m, SendMessage(m) PROVE Quiet
  BY <1>8, ZenonT(60) DEF SendMessage, Quiet
<1> QED BY <1>1, <1>2, <1>3, <1>4, <1>5, <1>6, <1>7, <1>8, ZenonT(60) DEF Next, Step

-----------------------------------------------------------------------------
(***************************************************************************)
(* Types.                                                                  *)
(***************************************************************************)
\* The events and the places of a goroutine.
LEMMA Shapes ==
  /\ \A c \in Conn, kind \in {"starting", "established", "message", "closed"} :
       Plain(kind, c) \in ConnEvent /\ Plain(kind, c).type = kind /\ Plain(kind, c).conn = c
  /\ \A c \in Conn, s \in SubId, d \in Destination, kind \in Aimed :
       /\ Event(kind, c, s, d) \in ConnEvent /\ Event(kind, c, s, d).type = kind /\ Event(kind, c, s, d).conn = c
       /\ Event(kind, c, s, d).sub = s /\ Event(kind, c, s, d).destination = d
  /\ \A e \in ConnEvent : e.conn \in Conn /\ (e.type \in Aimed => e.sub \in SubId /\ e.destination \in Destination)
  /\ \A e \in ConnEvent, then \in {"select", "ended"} : [at |-> "emit", event |-> e, then |-> then] \in Place
  /\ \A at \in {"none", "select", "connect", "ended"} : [at |-> at] \in Place
  /\ \A p \in Place : p.at = "emit" => p.event \in ConnEvent /\ p.then \in {"select", "ended"}
BY SMTT(60) DEF Plain, Event, ConnEvent, Aimed, Place

\* An event that the loop takes is one of a connection.
LEMMA HeadIsEvent ==
  ASSUME Types, NEW type, TakesConnectionEvent(type)
  PROVE  /\ connectionEvents \in Seq(ConnEvent) /\ connectionEvents # << >>
         /\ Head(connectionEvents) \in ConnEvent /\ Head(connectionEvents).conn \in Conn
         /\ Head(connectionEvents) = connectionEvents[1] /\ Head(connectionEvents).type = type
         /\ connectionEvents' = Tail(connectionEvents)
BY Taken, Shapes, SMTT(60) DEF Types, TakesConnectionEvent

\* Entries of subscriptionsMap come from events that have a destination.
LEMMA EntryShape ==
  ASSUME NEW e \in ConnEvent, e.type \in Aimed
  PROVE  /\ Entry(e) \in [destination : Destination, conn : Conn, sub : SubId]
         /\ Entry(e).destination = e.destination /\ Entry(e).conn = e.conn /\ Entry(e).sub = e.sub
BY Shapes, ZenonT(60) DEF Entry

\* The loop goes on to the next connection, or is to send the event of this one.
LEMMA ClosesNext ==
  ASSUME Types, CloseNext
  PROVE  /\ loop.at = "closing" /\ loop.next \in Conn /\ loop.rest \subseteq Conn
         /\ \/ loop.next \in severed /\ Closes(loop.rest) /\ severed' = severed
            \/ /\ loop'.at = "emitting" /\ loop'.next = loop.next /\ loop'.rest = loop.rest
               /\ severed' = severed \cup {loop.next}
<1>1. loop.at = "closing" /\ loop.next \in Conn /\ loop.rest \subseteq Conn
  BY ZenonT(60) DEF CloseNext, Types
<1>2. CASE loop.next \in severed
  BY <1>1, <1>2, ZenonT(60) DEF CloseNext
<1>3. CASE loop.next \notin severed
  <2>1. loop' = [at |-> "emitting", next |-> loop.next, rest |-> loop.rest] /\ severed' = severed \cup {loop.next}
    BY <1>3, ZenonT(60) DEF CloseNext
  <2> QED BY <1>1, <2>1, ZenonT(60)
<1> QED BY <1>2, <1>3, SMTT(60)

\* Once the loop closes the connections it takes no event any more.
LEMMA ClosingIsLast ==
  ASSUME Types, closeServer \/ CloseNext \/ EmitClosed \/ LoopReturns
  PROVE  ~Open'
<1>1. ASSUME NEW S, Closes(S) PROVE ~Open'
  BY <1>1, ClosesRest, SMTT(60) DEF Open
<1>2. CASE closeServer \/ EmitClosed
  BY <1>1, <1>2, ZenonT(60) DEF closeServer, EmitClosed
<1>3. CASE CloseNext
  BY <1>1, <1>3, ClosesNext, SMTT(60) DEF Open
<1>4. CASE LoopReturns
  BY <1>4, SMTT(60) DEF LoopReturns, Open
<1> QED BY <1>2, <1>3, <1>4, ZenonT(60)

\* Every step keeps the types.
LEMMA TypesKept ==
  ASSUME Types, Next
  PROVE  Types'
<1> DEFINE Loops ==
      /\ loop.at \in {"idle", "sending", "closing", "emitting", "closed", "stopped"}
      /\ loop.at \in {"closing", "emitting"} => loop.next \in Conn /\ loop.rest \subseteq Conn
    Goes ==
      /\ run \in [Conn -> Place]
      /\ \A c \in Conn : run[c].at = "emit" =>
           /\ run[c].event.conn = c /\ run[c].event.type # "starting"
           /\ run[c].then = "ended" <=> run[c].event.type = "closed"
    Own(c, p) == p \in Place /\ (p.at = "emit" =>
      p.event.conn = c /\ p.event.type # "starting" /\ (p.then = "ended" <=> p.event.type = "closed"))
<1>0. use' \in Uses
  BY ZenonT(60) DEF Next, Types
<1>g. ASSUME NEW c \in Conn, NEW p, Own(c, p), run' = [run EXCEPT ![c] = p] PROVE Goes'
  <2>1. run' \in [Conn -> Place] /\ run'[c] = p /\ \A b \in Conn \ {c} : run'[b] = run[b]
    BY <1>g, SMTT(60) DEF Types
  <2> QED BY <1>g, <2>1, ZenonT(60) DEF Types
<1>e. ASSUME NEW c \in Conn, NEW e \in ConnEvent, NEW then \in {"select", "ended"}, e.conn = c, e.type # "starting",
             then = "ended" <=> e.type = "closed", Emits(c, e, then)
      PROVE  Goes'
  <2> DEFINE p == [at |-> "emit", event |-> e, then |-> then]
  <2>1. p \in Place /\ p.event = e /\ p.then = then
    BY Shapes, ZenonT(60)
  <2>2. run' = [run EXCEPT ![c] = p]
    BY <1>e, SMTT(60) DEF Emits
  <2> HIDE DEF p
  <2> QED BY <1>e, <1>g, <2>1, <2>2, ZenonT(60)
<1>1. CASE Quiet
  BY <1>0, <1>1, SMTT(60) DEF Types, Quiet, connVars, serverVars
<1>2. CASE Serves
  BY <1>0, <1>2, ZenonT(60) DEF Types, Serves, Open, connVars, serverVars
<1>3. CASE SendStarting
  <2>1. Plain("starting", accepting.conn) \in ConnEvent
    BY <1>3, Shapes, ZenonT(60) DEF SendStarting, Types
  <2>2. connectionEvents' \in Seq(ConnEvent)
    BY <1>3, <2>1, Added, ZenonT(60) DEF SendStarting, Types
  <2>3. accepting' \in [at : {"accept", "ended"}]
    BY <1>3, ZenonT(60) DEF SendStarting
  <2> QED BY <1>0, <1>3, <2>2, <2>3, ZenonT(60) DEF SendStarting, Types, connVars, serverVars
<1>4. ASSUME NEW c \in Conn, Accept(c) PROVE Types'
  <2>1. state' \in [Conn -> {"none", "connecting", "connected", "closed"}] /\ accepting' \in [at : {"send"}, conn : Conn]
    BY <1>4, ZenonT(60) DEF Accept, Types
  <2>2. Goes'
    BY <1>4, <1>g, Shapes, ZenonT(60) DEF Accept
  <2> QED BY <1>0, <1>4, <2>1, <2>2, ZenonT(60) DEF Accept, Types, serverVars
<1>5. ASSUME NEW c \in Conn, Handles(c) PROVE Types'
  <2>1. CASE handleConnect(c) \/ EndRun(c)
    <3>1. Goes'
      BY <2>1, <1>g, Shapes, SMTT(60) DEF handleConnect, EndRun
    <3> QED BY <1>0, <2>1, <3>1, SMTT(60) DEF handleConnect, EndRun, Types, serverVars
  <2>2. CASE SetConnected(c)
    <3>1. Goes'
      BY <2>2, <1>e, Shapes, ZenonT(60) DEF SetConnected
    <3>2. state' \in [Conn -> {"none", "connecting", "connected", "closed"}]
      BY <2>2, ZenonT(60) DEF SetConnected, Types
    <3> QED BY <1>0, <2>2, <3>1, <3>2, ZenonT(60) DEF SetConnected, Types, serverVars
  <2>3. CASE handleSend(c)
    <3>1. Goes'
      BY <2>3, <1>e, Shapes, ZenonT(60) DEF handleSend
    <3> QED BY <1>0, <2>3, <3>1, ZenonT(60) DEF handleSend, Types, serverVars
  <2>4. ASSUME NEW s \in SubId, NEW d \in Destination, handleSubscribe(c, s, d) PROVE Types'
    <3>1. Goes'
      BY <2>4, <1>e, Shapes, SMTT(60) DEF handleSubscribe, Aimed
    <3>2. subscriptions' \in View
      BY <2>4, ZenonT(60) DEF handleSubscribe, Types, View
    <3> QED BY <1>0, <2>4, <3>1, <3>2, ZenonT(60) DEF handleSubscribe, Types, serverVars
  <2>5. ASSUME NEW s \in SubId, handleUnsubscribe(c, s) PROVE Types'
    <3>1. subscriptions[c][s] \in Destination
      BY <2>5, SMTT(60) DEF handleUnsubscribe, Types, View
    <3>2. Goes'
      BY <2>5, <3>1, <1>e, Shapes, SMTT(60) DEF handleUnsubscribe, Aimed
    <3>3. subscriptions' \in View
      BY <2>5, ZenonT(60) DEF handleUnsubscribe, Types, View
    <3> QED BY <1>0, <2>5, <3>2, <3>3, ZenonT(60) DEF handleUnsubscribe, Types, serverVars
  <2> QED BY <1>5, <2>1, <2>2, <2>3, <2>4, <2>5, SMTT(60) DEF Handles
<1>6. ASSUME NEW c \in Conn, Close(c) PROVE Types'
  <2>1. Goes'
    BY <1>6, <1>e, Shapes, ZenonT(60) DEF Close
  <2>2. state' \in [Conn -> {"none", "connecting", "connected", "closed"}] /\ severed' \subseteq Conn
    BY <1>6, SMTT(60) DEF Close, Types
  <2> QED BY <1>0, <1>6, <2>1, <2>2, ZenonT(60) DEF Close, Types, serverVars
<1>7. ASSUME NEW c \in Conn, Emit(c) PROVE Types'
  <2>1. run[c].event \in ConnEvent /\ run[c].then \in {"select", "ended"}
    BY <1>7, Shapes, ZenonT(60) DEF Emit, Types
  <2>2. connectionEvents' \in Seq(ConnEvent)
    BY <1>7, <2>1, Added, ZenonT(60) DEF Emit, Types
  <2>3. Goes'
    BY <1>7, <2>1, <1>g, Shapes, ZenonT(60) DEF Emit
  <2> QED BY <1>0, <1>7, <2>2, <2>3, ZenonT(60) DEF Emit, Types, serverVars
<1>8. ASSUME NEW type, TakesConnectionEvent(type),
             connectionsMap' \subseteq Conn, started' \subseteq Conn, ended' \subseteq Conn,
             subscriptionsMap' \subseteq [destination : Destination, conn : Conn, sub : SubId]
      PROVE  Types'
  <2>1. connectionEvents' \in Seq(ConnEvent)
    BY <1>8, HeadIsEvent, Taken, ZenonT(60)
  <2> QED BY <1>0, <1>8, <2>1, SMTT(60) DEF Types, TakesConnectionEvent, connVars
<1>9. CASE Passes
  BY <1>8, <1>9, ZenonT(60) DEF Passes, serverVars, Types
<1>10. CASE ConnectionStarting
  <2>1. TakesConnectionEvent("starting") /\ Head(connectionEvents).conn \in Conn
    BY <1>10, HeadIsEvent, ZenonT(60) DEF ConnectionStarting
  <2> QED BY <1>8, <1>10, <2>1, SMTT(60) DEF ConnectionStarting, Types
<1>11. CASE SubscribeToTopic
  <2>1. TakesConnectionEvent("subscribe")
    BY <1>11, ZenonT(60) DEF SubscribeToTopic
  <2>2. Entry(Head(connectionEvents)) \in [destination : Destination, conn : Conn, sub : SubId]
    BY <2>1, HeadIsEvent, EntryShape, ZenonT(60) DEF Aimed
  <2>3. subscriptionsMap' \subseteq [destination : Destination, conn : Conn, sub : SubId]
    BY <1>11, <2>2, ZenonT(60) DEF SubscribeToTopic, Types
  <2>4. connectionsMap' \subseteq Conn /\ started' \subseteq Conn /\ ended' \subseteq Conn
    BY <1>11, ZenonT(60) DEF SubscribeToTopic, Types
  <2> QED BY <1>8, <2>1, <2>3, <2>4, ZenonT(60)
<1>12. CASE UnsubscribeFromTopic
  BY <1>8, <1>12, ZenonT(60) DEF UnsubscribeFromTopic, Types
<1>13. CASE ConnectionClosed
  <2>1. TakesConnectionEvent("closed") /\ Head(connectionEvents).conn \in Conn
    BY <1>13, HeadIsEvent, ZenonT(60) DEF ConnectionClosed
  <2>2. subscriptionsMap' \subseteq subscriptionsMap
    BY <1>13, ZenonT(60) DEF ConnectionClosed, Types
  <2> QED BY <1>8, <1>13, <2>1, <2>2, ZenonT(60) DEF ConnectionClosed, Types
<1>14. CASE closeServer
  <2>1. Loops'
    BY <1>14, ClosesRest, SMTT(60) DEF closeServer, Types
  <2> QED BY <1>0, <1>14, <2>1, ZenonT(60) DEF closeServer, TakesApiEvent, Types, connVars, serverVars
<1>15. CASE CloseNext
  <2>1. state' \in [Conn -> {"none", "connecting", "connected", "closed"}] /\ severed' \subseteq Conn
    BY <1>15, ClosesNext, SMTT(60) DEF CloseNext, Types
  <2>2. Loops'
    BY <1>15, ClosesNext, ClosesRest, ZenonT(60)
  <2> QED BY <1>0, <1>15, <2>1, <2>2, ZenonT(60) DEF CloseNext, Types, serverVars
<1>16. CASE EmitClosed
  <2>1. loop.next \in Conn /\ loop.rest \subseteq Conn /\ Closes(loop.rest)
    BY <1>16, ZenonT(60) DEF EmitClosed, Types
  <2>2. connectionEvents' \in Seq(ConnEvent)
    BY <1>16, <2>1, Added, Shapes, ZenonT(60) DEF EmitClosed, Types
  <2>3. Loops'
    BY <2>1, ClosesRest, ZenonT(60)
  <2> QED BY <1>0, <1>16, <2>2, <2>3, ZenonT(60) DEF EmitClosed, Types, connVars, serverVars
<1>17. CASE LoopReturns
  BY <1>0, <1>17, ZenonT(60) DEF LoopReturns, Types, connVars
<1> QED
  BY <1>1, <1>2, <1>3, <1>4, <1>5, <1>6, <1>7, <1>9, <1>10, <1>11, <1>12, <1>13, <1>14, <1>15, <1>16, <1>17, Kinds, ZenonT(60)

-----------------------------------------------------------------------------
(***************************************************************************)
(* A ConnectionStarting event comes once for each connection.              *)
(***************************************************************************)
\* A connection that was accepted stays so.
LEMMA StateGrows ==
  ASSUME Types, Next, NEW c \in Conn, state[c] # "none"
  PROVE  state'[c] # "none"
<1>1. CASE Quiet \/ Serves \/ SendStarting \/ LoopReturns \/ EmitClosed
  BY <1>1, ZenonT(60) DEF Quiet, Serves, SendStarting, LoopReturns, EmitClosed, connVars
<1>2. ASSUME NEW b \in Conn, Accept(b) \/ Close(b) \/ Emit(b) PROVE state'[c] # "none"
  BY <1>2, SMTT(60) DEF Accept, Close, Emit, Types
<1>3. ASSUME NEW b \in Conn, Handles(b) PROVE state'[c] # "none"
  BY <1>3, ZenonT(60) DEF Handles, handleConnect, SetConnected, handleSend, EndRun, handleSubscribe, handleUnsubscribe, Types
<1>4. ASSUME NEW type, TakesConnectionEvent(type) PROVE state'[c] # "none"
  BY <1>4, ZenonT(60) DEF TakesConnectionEvent, connVars
<1>5. CASE closeServer
  BY <1>5, ZenonT(60) DEF closeServer, TakesApiEvent, connVars
<1>6. CASE CloseNext
  BY <1>6, SMTT(60) DEF CloseNext, Types
<1> QED
  BY <1>1, <1>2, <1>3, <1>4, <1>5, <1>6, Kinds, SMTT(60)
     DEF Passes, ConnectionStarting, SubscribeToTopic, UnsubscribeFromTopic, ConnectionClosed

\* Before it is accepted a connection does not run.
LEMMA NoneRuns ==
  ASSUME Types, Starts, Next, NEW c \in Conn, state'[c] = "none"
  PROVE  run'[c].at = "none"
<1>0. state[c] = "none" /\ run[c].at = "none"
  BY StateGrows, ZenonT(60) DEF Starts
<1>1. CASE Quiet \/ Serves \/ SendStarting \/ LoopReturns \/ EmitClosed \/ CloseNext
  BY <1>0, <1>1, ZenonT(60) DEF Quiet, Serves, SendStarting, LoopReturns, EmitClosed, CloseNext, connVars
<1>2. ASSUME NEW b \in Conn, Accept(b) \/ Close(b) \/ Emit(b) PROVE run'[c] = run[c]
  <2>1. b # c
    BY <1>0, <1>2, ZenonT(60) DEF Accept, Close, Emit, Types
  <2> QED BY <1>2, <2>1, SMTT(60) DEF Accept, Close, Emit, Emits, Types
<1>3. ASSUME NEW b \in Conn, Handles(b) PROVE run'[c] = run[c]
  <2>1. b # c
    BY <1>0, <1>3, SMTT(60)
       DEF Handles, handleConnect, SetConnected, handleSend, EndRun, handleSubscribe, handleUnsubscribe, Selecting
  <2> QED BY <1>3, <2>1, SMTT(60)
             DEF Handles, handleConnect, SetConnected, handleSend, EndRun, handleSubscribe, handleUnsubscribe, Emits, Types
<1>4. ASSUME NEW type, TakesConnectionEvent(type) PROVE run'[c] = run[c]
  BY <1>4, ZenonT(60) DEF TakesConnectionEvent, connVars
<1>5. CASE closeServer
  BY <1>0, <1>5, ZenonT(60) DEF closeServer, TakesApiEvent, connVars
<1> QED
  BY <1>0, <1>1, <1>2, <1>3, <1>4, <1>5, Kinds, SMTT(60)
     DEF Passes, ConnectionStarting, SubscribeToTopic, UnsubscribeFromTopic, ConnectionClosed

\* Every step keeps Starts.
LEMMA StartsKept ==
  ASSUME Types, Starts, Next
  PROVE  Starts'
<1> DEFINE n == Len(connectionEvents)
<1>0. /\ n \in Nat /\ \A i \in 1..n : connectionEvents[i] \in ConnEvent /\ connectionEvents[i].conn \in Conn
      /\ \A c \in Conn : state[c] # "none" => state'[c] # "none"
      /\ started \subseteq Conn /\ (accepting.at = "send" => accepting.conn \in Conn)
  BY StateGrows, Shapes, SMTT(60) DEF Types
<1>r. \A c \in Conn : state'[c] = "none" => run'[c].at = "none"
  BY NoneRuns, ZenonT(60)
<1>1. CASE UNCHANGED <<connectionEvents, accepting, started>>
  BY <1>0, <1>r, <1>1, ZenonT(60) DEF Starts
<1>2. ASSUME NEW e \in ConnEvent, e.type # "starting", connectionEvents' = Append(connectionEvents, e),
             UNCHANGED <<accepting, started>>
      PROVE  Starts'
  <2>1. /\ Len(connectionEvents') = n + 1 /\ connectionEvents'[n + 1] = e
        /\ \A i \in 1..n : connectionEvents'[i] = connectionEvents[i]
    BY <1>2, Added, SMTT(60) DEF Types
  <2>2. \A i \in 1..Len(connectionEvents') : connectionEvents'[i].type = "starting" => i \in 1..n
    BY <1>0, <1>2, <2>1, SMTT(60)
  <2> QED BY <1>0, <1>r, <1>2, <2>1, <2>2, SMTT(60) DEF Starts
<1>3. CASE SendStarting
  <2> DEFINE c == accepting.conn
  <2>1. c \in Conn /\ Plain("starting", c) \in ConnEvent /\ Plain("starting", c).conn = c
    BY <1>0, <1>3, Shapes, ZenonT(60) DEF SendStarting
  <2>2. /\ Len(connectionEvents') = n + 1 /\ connectionEvents'[n + 1].conn = c
        /\ \A i \in 1..n : connectionEvents'[i] = connectionEvents[i]
    BY <1>3, <2>1, Added, SMTT(60) DEF Types, SendStarting
  <2>3. accepting'.at # "send" /\ started' = started
    BY <1>3, ZenonT(60) DEF SendStarting, serverVars
  <2>4. c \notin started /\ state[c] # "none"
    BY <1>3, ZenonT(60) DEF SendStarting, Starts
  <2>5. \A i \in 1..n : connectionEvents[i].type = "starting" => connectionEvents[i].conn # c
    BY <1>3, ZenonT(60) DEF SendStarting, Starts
  <2>6. \A i \in 1..Len(connectionEvents') : i \in 1..n \/ i = n + 1
    BY <1>0, <2>2, SMTT(60)
  <2> HIDE DEF c
  <2> QED BY <1>0, <1>r, <2>1, <2>2, <2>3, <2>4, <2>5, <2>6, SMTT(60) DEF Starts
<1>4. ASSUME NEW c \in Conn, Accept(c) PROVE Starts'
  <2>1. state[c] = "none" /\ state'[c] # "none" /\ accepting' = [at |-> "send", conn |-> c]
    BY <1>4, ZenonT(60) DEF Accept, Types
  <2>2. UNCHANGED <<connectionEvents, started>>
    BY <1>4, ZenonT(60) DEF Accept, serverVars
  <2> QED BY <1>0, <1>r, <2>1, <2>2, ZenonT(60) DEF Starts
<1>5. ASSUME NEW type, TakesConnectionEvent(type) PROVE
        /\ accepting' = accepting /\ n > 0 /\ Len(connectionEvents') = n - 1
        /\ \A i \in 1..Len(connectionEvents') : i + 1 \in 1..n /\ connectionEvents'[i] = connectionEvents[i + 1]
  BY <1>5, HeadIsEvent, Taken, SMTT(60) DEF TakesConnectionEvent
<1>6. ASSUME NEW type, TakesConnectionEvent(type),
             NEW i \in 1..Len(connectionEvents'), connectionEvents'[i].type = "starting"
      PROVE  /\ state'[connectionEvents'[i].conn] # "none" /\ connectionEvents'[i].conn \notin started
             /\ accepting.at = "send" => accepting.conn # connectionEvents'[i].conn
             /\ \A j \in 1..Len(connectionEvents') :
                  connectionEvents'[j].type = "starting" /\ connectionEvents'[j].conn = connectionEvents'[i].conn => j = i
  <2> DEFINE m == Len(connectionEvents')
  <2>1. \A j \in 1..m : i + 1 = j + 1 => i = j
    BY <1>0, <1>5, <1>6, SMTT(60)
  <2>2. PICK k \in 1..n : k = i + 1 /\ connectionEvents'[i] = connectionEvents[k]
    BY <1>5, <1>6, ZenonT(60)
  <2>3. ASSUME NEW j \in 1..m, connectionEvents'[j].type = "starting",
               connectionEvents'[j].conn = connectionEvents'[i].conn
        PROVE  j = i
    <3>1. PICK l \in 1..n : l = j + 1 /\ connectionEvents'[j] = connectionEvents[l]
      BY <1>5, <1>6, ZenonT(60)
    <3>2. l = k
      BY <1>6, <2>2, <2>3, <3>1, ZenonT(60) DEF Starts
    <3> QED BY <2>1, <2>2, <3>1, <3>2, ZenonT(60)
  <2> QED BY <1>0, <1>6, <2>2, <2>3, SMTT(60) DEF Starts
<1>7. CASE ConnectionStarting
  <2> DEFINE c == Head(connectionEvents).conn
             m == Len(connectionEvents')
  <2>1. TakesConnectionEvent("starting") /\ started' = started \cup {c}
    BY <1>7, ZenonT(60) DEF ConnectionStarting
  <2>2. c = connectionEvents[1].conn /\ connectionEvents[1].type = "starting" /\ 1 \in 1..n
    BY <1>0, <1>5, <2>1, HeadIsEvent, SMTT(60)
  <2>3. state[c] # "none" /\ c \in Conn /\ (accepting.at = "send" => accepting.conn # c)
    BY <1>0, <2>2, ZenonT(60) DEF Starts
  <2>4. \A i \in 1..n : i # 1 /\ connectionEvents[i].type = "starting" => connectionEvents[i].conn # c
    BY <2>2, ZenonT(60) DEF Starts
  <2>5. \A i \in 1..m : i + 1 # 1
    BY <1>0, <1>5, <2>1, SMTT(60)
  <2> HIDE DEF c
  <2>6. accepting' = accepting
    BY <1>5, <2>1, ZenonT(60)
  <2>7. \A i \in 1..m : connectionEvents'[i].type = "starting" => connectionEvents'[i].conn # c
    BY <1>5, <2>1, <2>4, <2>5, ZenonT(60)
  <2> QED BY <1>0, <1>6, <1>r, <2>1, <2>3, <2>6, <2>7, ZenonT(60) DEF Starts
<1>8. ASSUME NEW c \in Conn, Emit(c) PROVE Starts'
  <2>1. run[c].event \in ConnEvent /\ run[c].event.type # "starting"
    BY <1>8, Shapes, ZenonT(60) DEF Emit, Types
  <2> QED BY <1>2, <1>8, <2>1, ZenonT(60) DEF Emit, serverVars
<1>9. CASE EmitClosed
  <2>1. loop.next \in Conn
    BY <1>9, ZenonT(60) DEF EmitClosed, Types
  <2> QED BY <1>2, <1>9, <2>1, Shapes, ZenonT(60) DEF EmitClosed, serverVars
<1>10. ASSUME NEW c \in Conn, Handles(c) \/ Close(c) PROVE UNCHANGED <<connectionEvents, accepting, started>>
  BY <1>10, ZenonT(60) DEF Handles, handleConnect, SetConnected, handleSend, EndRun, handleSubscribe, handleUnsubscribe, Close, serverVars
<1>11. CASE Quiet \/ Serves \/ closeServer \/ CloseNext \/ LoopReturns
  BY <1>1, <1>11, ZenonT(60) DEF Quiet, Serves, closeServer, TakesApiEvent, CloseNext, LoopReturns, serverVars
<1>12. CASE Passes \/ SubscribeToTopic \/ UnsubscribeFromTopic \/ ConnectionClosed
  <2>1. PICK type : TakesConnectionEvent(type) /\ started' = started
    BY <1>12, ZenonT(60) DEF Passes, SubscribeToTopic, UnsubscribeFromTopic, ConnectionClosed, serverVars
  <2>2. accepting' = accepting
    BY <1>5, <2>1, ZenonT(60)
  <2> QED BY <1>0, <1>6, <1>r, <2>1, <2>2, ZenonT(60) DEF Starts
<1> QED BY <1>1, <1>3, <1>4, <1>7, <1>8, <1>9, <1>10, <1>11, <1>12, Kinds, ZenonT(60)

-----------------------------------------------------------------------------
(***************************************************************************)
(* What the loop knows of the connections, and how it closes them.         *)
(***************************************************************************)
\* Every step keeps Knows.
LEMMA KnowsKept ==
  ASSUME Types, Endings, Knows, Next
  PROVE  Knows'
<1>1. CASE UNCHANGED <<loop, started, connectionsMap>> /\ severed \subseteq severed'
  BY <1>1, ZenonT(60) DEF Knows, Open, StoppedMeansClosed
<1>2. CASE Quiet \/ SendStarting
  BY <1>1, <1>2, ZenonT(60) DEF Quiet, SendStarting, connVars, serverVars
<1>3. ASSUME NEW c \in Conn, Accept(c) \/ Handles(c) \/ Close(c) \/ Emit(c) PROVE Knows'
  BY <1>1, <1>3, ZenonT(60) DEF Accept, Handles, handleConnect, SetConnected, handleSend, EndRun, handleSubscribe, handleUnsubscribe,
                    Close, Emit, serverVars
<1>4. CASE Serves
  BY <1>4, ZenonT(60) DEF Serves, Knows, Open, StoppedMeansClosed, connVars, serverVars
<1>5. CASE Passes \/ SubscribeToTopic \/ UnsubscribeFromTopic
  BY <1>1, <1>5, ZenonT(60) DEF Passes, SubscribeToTopic, UnsubscribeFromTopic, TakesConnectionEvent, connVars, serverVars
<1>6. CASE ConnectionStarting
  BY <1>6, ZenonT(60) DEF ConnectionStarting, TakesConnectionEvent, connVars, Knows, Open, StoppedMeansClosed
<1>7. CASE ConnectionClosed
  <2> DEFINE c == Head(connectionEvents).conn
  <2>1. TakesConnectionEvent("closed")
    BY <1>7, ZenonT(60) DEF ConnectionClosed
  <2>2. 1 \in 1..Len(connectionEvents) /\ connectionEvents[1].type = "closed" /\ c = connectionEvents[1].conn
    BY <2>1, HeadIsEvent, Taken, SMTT(60)
  <2>3. c \in severed
    BY <2>2, ZenonT(60) DEF Endings
  <2>4. /\ connectionsMap' = connectionsMap \ {c} /\ started' = started /\ severed' = severed /\ loop' = loop
        /\ loop.at = "idle"
    BY <1>7, ZenonT(60) DEF ConnectionClosed, TakesConnectionEvent, connVars
  <2> HIDE DEF c
  <2> QED BY <2>3, <2>4, ZenonT(60) DEF Knows, Open, StoppedMeansClosed
<1>8. CASE closeServer
  <2>1. Open /\ UNCHANGED <<started, severed>> /\ Closes(connectionsMap)
    BY <1>8, ZenonT(60) DEF closeServer, TakesApiEvent, connVars, serverVars, Open
  <2> QED BY <2>1, ClosesRest, SMTT(60) DEF Knows, Open, StoppedMeansClosed
<1>9. CASE CloseNext
  <2>1. UNCHANGED started
    BY <1>9, ZenonT(60) DEF CloseNext, serverVars
  <2>2. CASE loop.next \in severed /\ Closes(loop.rest) /\ severed' = severed
    BY <1>9, <2>1, <2>2, ClosesNext, ClosesRest, SMTT(60) DEF Knows, Open, StoppedMeansClosed
  <2>3. CASE /\ loop'.at = "emitting" /\ loop'.next = loop.next /\ loop'.rest = loop.rest
             /\ severed' = severed \cup {loop.next}
    BY <1>9, <2>1, <2>3, ClosesNext, ZenonT(60) DEF Knows, Open, StoppedMeansClosed
  <2> QED BY <1>9, <2>2, <2>3, ClosesNext, ZenonT(60)
<1>10. CASE EmitClosed
  <2>1. UNCHANGED <<started, severed>> /\ loop.at = "emitting" /\ Closes(loop.rest)
    BY <1>10, ZenonT(60) DEF EmitClosed, connVars, serverVars
  <2> QED BY <2>1, ClosesRest, SMTT(60) DEF Knows, Open, StoppedMeansClosed
<1>11. CASE LoopReturns
  <2>1. UNCHANGED <<started, severed>> /\ loop'.at = "stopped" /\ loop.at = "closed"
    BY <1>11, ZenonT(60) DEF LoopReturns, connVars
  <2> QED BY <2>1, ZenonT(60) DEF Knows, Open, StoppedMeansClosed
<1> QED BY <1>2, <1>3, <1>4, <1>5, <1>6, <1>7, <1>8, <1>9, <1>10, <1>11, Kinds, ZenonT(60)

-----------------------------------------------------------------------------
(***************************************************************************)
(* A ConnectionClosed event is the last of its connection.                 *)
(***************************************************************************)
\* Taking the first event keeps Closing, with the connection that it closes.
LEMMA ClosingTaken ==
  ASSUME NEW events \in Seq(ConnEvent), events # << >>, NEW gone, Closing(events, gone),
         NEW new, new \subseteq gone \cup {Head(events).conn}, Head(events).type # "closed" => new \subseteq gone
  PROVE  Closing(Tail(events), new)
<1> DEFINE t == Tail(events)
<1>1. /\ Len(events) \in Nat \ {0} /\ Head(events) = events[1] /\ Len(t) = Len(events) - 1
      /\ \A i \in 1..Len(t) : i + 1 \in 1..Len(events) /\ t[i] = events[i + 1]
  BY Taken, ZenonT(60)
<1> HIDE DEF t
<1>2. ASSUME NEW i \in 1..Len(t), t[i].type = "closed", NEW j \in 1..Len(t), t[j].conn = t[i].conn, j > i
      PROVE  t[j].type = "starting"
  <2>1. i + 1 \in 1..Len(events) /\ j + 1 \in 1..Len(events) /\ j + 1 > i + 1
    BY <1>1, <1>2, SMTT(60)
  <2> QED BY <1>1, <1>2, <2>1, ZenonT(60) DEF Closing
<1>3. ASSUME NEW c \in new, NEW j \in 1..Len(t), t[j].conn = c PROVE t[j].type = "starting"
  <2>1. j + 1 \in 1..Len(events) /\ t[j] = events[j + 1] /\ j + 1 > 1 /\ 1 \in 1..Len(events)
    BY <1>1, SMTT(60)
  <2>2. CASE c \in gone
    BY <1>3, <2>1, <2>2, ZenonT(60) DEF Closing
  <2>3. CASE c \notin gone
    <3>1. c = events[1].conn /\ events[1].type = "closed"
      BY <1>1, <2>3, ZenonT(60)
    <3> QED BY <1>3, <2>1, <3>1, ZenonT(60) DEF Closing
  <2> QED BY <2>2, <2>3, ZenonT(60)
<1> QED BY <1>2, <1>3, ZenonT(60) DEF Closing, t

\* Adding an event of a connection that has not ended keeps Closing.
LEMMA ClosingAdded ==
  ASSUME NEW events \in Seq(ConnEvent), NEW gone, Closing(events, gone), NEW e \in ConnEvent,
         \/ e.type = "starting"
         \/ e.conn \notin gone /\ \A i \in 1..Len(events) : events[i].type = "closed" => events[i].conn # e.conn
  PROVE  Closing(Append(events, e), gone)
<1> DEFINE t == Append(events, e)
           n == Len(events)
<1>1. /\ n \in Nat /\ Len(t) = n + 1 /\ t[n + 1] = e
      /\ \A i \in 1..n : t[i] = events[i]
  BY Added, SMTT(60)
<1> HIDE DEF t
<1>2. \A i \in 1..Len(t) : i \in 1..n \/ i = n + 1
  BY <1>1, SMTT(60)
<1>3. ASSUME NEW i \in 1..Len(t), t[i].type = "closed", NEW j \in 1..Len(t), t[j].conn = t[i].conn, j > i
      PROVE  t[j].type = "starting"
  <2>1. i \in 1..n
    BY <1>1, <1>3, SMTT(60)
  <2> QED BY <1>1, <1>2, <1>3, <2>1, ZenonT(60) DEF Closing
<1>4. ASSUME NEW c \in gone, NEW j \in 1..Len(t), t[j].conn = c PROVE t[j].type = "starting"
  BY <1>1, <1>2, <1>4, ZenonT(60) DEF Closing
<1> QED BY <1>3, <1>4, ZenonT(60) DEF Closing, t

\* Every step keeps Endings.
LEMMA EndingsKept ==
  ASSUME Types, Starts, Endings, Knows, Next
  PROVE  Endings'
<1> DEFINE n == Len(connectionEvents)
           Sent(e) == connectionEvents' = Append(connectionEvents, e) /\ e \in ConnEvent
<1>0. /\ n \in Nat /\ \A i \in 1..n : connectionEvents[i] \in ConnEvent /\ connectionEvents[i].conn \in Conn
      /\ severed \subseteq Conn /\ ended \subseteq Conn /\ run \in [Conn -> Place]
  BY Shapes, SMTT(60) DEF Types
<1>1. CASE Quiet
  BY <1>1, ZenonT(60) DEF Quiet, connVars, serverVars, Endings, Open
<1>2. CASE Serves \/ closeServer \/ LoopReturns
  <2>1. UNCHANGED <<run, severed, connectionEvents, started, ended, overtaken>> /\ (Open' => Open)
    BY <1>2, ClosingIsLast, ZenonT(60) DEF Serves, closeServer, LoopReturns, TakesApiEvent, connVars, serverVars
  <2> QED BY <2>1, ZenonT(60) DEF Endings
<1>3. CASE CloseNext
  <2>1. UNCHANGED <<run, connectionEvents, started, ended, overtaken>> /\ severed \subseteq severed' /\ ~Open'
    BY <1>3, ClosesNext, ClosingIsLast, ZenonT(60) DEF CloseNext, serverVars
  <2> QED BY <2>1, ZenonT(60) DEF Endings
<1>4. ASSUME NEW e, Sent(e)
      PROVE  /\ Len(connectionEvents') = n + 1 /\ connectionEvents'[n + 1] = e
             /\ \A i \in 1..n : connectionEvents'[i] = connectionEvents[i]
             /\ \A i \in 1..Len(connectionEvents') : i \in 1..n \/ i = n + 1
  <2>1. /\ Len(connectionEvents') = n + 1 /\ connectionEvents'[n + 1] = e
        /\ \A i \in 1..n : connectionEvents'[i] = connectionEvents[i]
    BY <1>4, Added, SMTT(60) DEF Types
  <2> QED BY <1>0, <2>1, SMTT(60)
<1>5. CASE EmitClosed
  <2> DEFINE c == loop.next
  <2>1. c \in Conn /\ c \in severed
    BY <1>5, ZenonT(60) DEF EmitClosed, Types, Knows
  <2>2. Sent(Plain("closed", c)) /\ Plain("closed", c).conn = c
    BY <1>5, <2>1, Shapes, ZenonT(60) DEF EmitClosed
  <2>3. UNCHANGED <<run, severed, started, ended, overtaken>> /\ ~Open'
    BY <1>5, ClosingIsLast, ZenonT(60) DEF EmitClosed, connVars, serverVars
  <2> HIDE DEF Sent
  <2> QED BY <1>4, <2>1, <2>2, <2>3, SMTT(60) DEF Endings
<1>6. CASE SendStarting
  <2> DEFINE e == Plain("starting", accepting.conn)
  <2>1. Sent(e) /\ e.type = "starting"
    BY <1>6, Shapes, SMTT(60) DEF SendStarting, Types
  <2>2. UNCHANGED <<run, severed, started, ended, overtaken, loop>>
    BY <1>6, SMTT(60) DEF SendStarting, connVars, serverVars
  <2>3. Open' => Closing(connectionEvents', ended)
    BY <2>1, <2>2, ClosingAdded, ZenonT(60) DEF Endings, Open, Types
  <2> HIDE DEF Sent, e
  <2> QED BY <1>4, <2>1, <2>2, <2>3, SMTT(60) DEF Endings, Open
<1>7. ASSUME NEW c \in Conn, Emit(c) PROVE Endings'
  <2> DEFINE e == run[c].event
  <2>1. /\ Sent(e) /\ e.conn = c /\ run' = [run EXCEPT ![c] = [at |-> run[c].then]]
        /\ run[c].then = "ended" <=> e.type = "closed"
        /\ run[c].at = "emit" /\ run[c].then \in {"select", "ended"}
    BY <1>7, Shapes, ZenonT(60) DEF Emit, Types
  <2>2. UNCHANGED <<severed, started, ended, overtaken, loop>>
    BY <1>7, ZenonT(60) DEF Emit, serverVars
  <2>3. run'[c].at = run[c].then /\ \A b \in Conn \ {c} : run'[b] = run[b]
    BY <1>0, <2>1, ZenonT(60)
  <2>4. Open => c \notin ended /\ \A i \in 1..n : connectionEvents[i].type = "closed" => connectionEvents[i].conn # c
    BY <2>1, ZenonT(60) DEF Endings
  <2>5. Open' => Closing(connectionEvents', ended)
    BY <2>1, <2>2, <2>4, ClosingAdded, SMTT(60) DEF Endings, Open, Types
  <2>6. \A b \in Conn : run'[b].at = "emit" => b # c /\ run'[b] = run[b]
    BY <2>1, <2>3, ZenonT(60)
  <2>7. e.type = "closed" => c \in severed /\ run'[c].at = "ended"
    BY <2>1, <2>3, ZenonT(60) DEF Endings
  <2>8. Open => \A b \in severed : run'[b].at = "ended" \/ (run'[b].at = "emit" /\ run'[b].then = "ended")
    BY <1>0, <2>1, <2>3, ZenonT(60) DEF Endings
  <2> HIDE DEF Sent, e
  <2>9. \A i \in 1..Len(connectionEvents') : connectionEvents'[i].type = "closed" =>
          connectionEvents'[i].conn \in severed /\ (Open => run'[connectionEvents'[i].conn].at = "ended")
    BY <1>0, <1>4, <2>1, <2>3, <2>4, <2>7, SMTT(60) DEF Endings
  <2>10. Open => \A b \in ended : run'[b].at = "ended"
    BY <1>0, <2>3, <2>4, ZenonT(60) DEF Endings
  <2> QED BY <2>2, <2>5, <2>6, <2>8, <2>9, <2>10, ZenonT(60) DEF Endings, Open
<1>8. ASSUME NEW c \in Conn, \A b \in Conn \ {c} : run'[b] = run[b],
             run'[c].at = "emit" => run'[c].event.type # "closed",
             Open => c \notin severed /\ run[c].at # "ended",
             UNCHANGED <<severed, connectionEvents, started, ended, overtaken, loop>>
      PROVE  Endings'
  <2>1. Open => c \notin ended /\ \A i \in 1..n : connectionEvents[i].type = "closed" => connectionEvents[i].conn # c
    BY <1>8, ZenonT(60) DEF Endings
  <2> QED BY <1>0, <1>8, <2>1, ZenonT(60) DEF Endings, Open
<1>9. ASSUME NEW c \in Conn, Accept(c) PROVE Endings'
  <2>1. Open /\ run[c].at = "none"
    BY <1>9, ZenonT(60) DEF Accept, Starts, Open
  <2>2. c \notin severed
    BY <2>1, ZenonT(60) DEF Endings
  <2>3. run'[c].at = "select" /\ \A b \in Conn \ {c} : run'[b] = run[b]
    BY <1>0, <1>9, ZenonT(60) DEF Accept
  <2>4. UNCHANGED <<severed, connectionEvents, started, ended, overtaken, loop>>
    BY <1>9, ZenonT(60) DEF Accept, serverVars
  <2> QED BY <1>8, <2>1, <2>2, <2>3, <2>4, ZenonT(60)
<1>10. ASSUME NEW c \in Conn, Handles(c) PROVE Endings'
  <2>1. run[c].at \in {"select", "connect"} /\ UNCHANGED <<severed, connectionEvents, started, ended, overtaken, loop>>
    BY <1>10, SMTT(60)
       DEF Handles, handleConnect, SetConnected, handleSend, EndRun, handleSubscribe, handleUnsubscribe, Selecting, serverVars
  <2>2. Open => c \notin severed /\ run[c].at # "ended"
    BY <2>1, ZenonT(60) DEF Endings
  <2>3. /\ \A b \in Conn \ {c} : run'[b] = run[b]
        /\ run'[c].at = "emit" => run'[c].event.type # "closed"
    <3>1. CASE handleConnect(c) \/ EndRun(c)
      BY <1>0, <3>1, SMTT(60) DEF handleConnect, EndRun
    <3>2. ASSUME NEW e, e.type # "closed", Emits(c, e, "select")
          PROVE  (\A b \in Conn \ {c} : run'[b] = run[b]) /\ (run'[c].at = "emit" => run'[c].event.type # "closed")
      BY <1>0, <3>2, ZenonT(60) DEF Emits
    <3>3. PICK e : e.type # "closed" /\ (Emits(c, e, "select") \/ handleConnect(c) \/ EndRun(c))
      <4>1. \A s, d : Event("subscribe", c, s, d).type # "closed" /\ Event("unsubscribe", c, s, d).type # "closed"
        BY ZenonT(60) DEF Event
      <4>2. Plain("established", c).type # "closed" /\ Plain("message", c).type # "closed"
        BY ZenonT(60) DEF Plain
      <4> QED BY <1>10, <4>1, <4>2, ZenonT(60) DEF Handles, SetConnected, handleSend, handleSubscribe, handleUnsubscribe
    <3> QED BY <3>1, <3>2, <3>3, ZenonT(60)
  <2> QED BY <1>8, <2>1, <2>2, <2>3, ZenonT(60)
<1>11. ASSUME NEW c \in Conn, Close(c) PROVE Endings'
  <2>1. /\ run[c].at = "select" /\ severed' = severed \cup {c}
        /\ run' = [run EXCEPT ![c] = [at |-> "emit", event |-> Plain("closed", c), then |-> "ended"]]
    BY <1>11, ZenonT(60) DEF Close, Emits
  <2>2. UNCHANGED <<connectionEvents, started, ended, overtaken, loop>>
    BY <1>11, ZenonT(60) DEF Close, serverVars
  <2>3. run'[c].at = "emit" /\ run'[c].then = "ended" /\ \A b \in Conn \ {c} : run'[b] = run[b]
    BY <1>0, <2>1, ZenonT(60)
  <2>4. Open => c \notin ended /\ \A i \in 1..n : connectionEvents[i].type = "closed" => connectionEvents[i].conn # c
    BY <2>1, ZenonT(60) DEF Endings
  <2> QED BY <1>0, <2>1, <2>2, <2>3, <2>4, ZenonT(60) DEF Endings, Open
<1>12. ASSUME NEW type, TakesConnectionEvent(type), ended' \subseteq ended \cup {Head(connectionEvents).conn},
              type # "closed" => ended' = ended, ended' \ started' \subseteq overtaken'
       PROVE  Endings'
  <2>1. UNCHANGED <<run, severed, loop>> /\ Open
    BY <1>12, ZenonT(60) DEF TakesConnectionEvent, connVars, Open
  <2>2. /\ 1 \in 1..n /\ Head(connectionEvents) = connectionEvents[1] /\ connectionEvents[1].type = type
        /\ \A i \in 1..Len(connectionEvents') : i + 1 \in 1..n /\ connectionEvents'[i] = connectionEvents[i + 1]
    <3>1. /\ connectionEvents \in Seq(ConnEvent) /\ connectionEvents # << >>
          /\ Head(connectionEvents).type = type /\ connectionEvents' = Tail(connectionEvents)
      BY <1>0, <1>12, HeadIsEvent, ZenonT(60)
    <3> QED BY <3>1, Taken, ZenonT(60)
  <2>3. Closing(connectionEvents', ended')
    <3>1. Closing(connectionEvents, ended)
      BY <2>1, ZenonT(60) DEF Endings
    <3>2. /\ connectionEvents \in Seq(ConnEvent) /\ connectionEvents # << >> /\ connectionEvents' = Tail(connectionEvents)
          /\ Head(connectionEvents).type # "closed" => ended' \subseteq ended
      BY <1>12, HeadIsEvent, ZenonT(60)
    <3> QED BY <1>12, <3>1, <3>2, ClosingTaken, ZenonT(60)
  <2>4. \A c \in ended' : run[c].at = "ended"
    BY <1>12, <2>1, <2>2, SMTT(60) DEF Endings
  <2>5. \A i \in 1..Len(connectionEvents') : connectionEvents'[i].type = "closed" =>
          connectionEvents'[i].conn \in severed /\ run[connectionEvents'[i].conn].at = "ended"
    <3> SUFFICES ASSUME NEW i \in 1..Len(connectionEvents'), connectionEvents'[i].type = "closed"
                 PROVE  connectionEvents'[i].conn \in severed /\ run[connectionEvents'[i].conn].at = "ended"
      BY ZenonT(60)
    <3>1. PICK j \in 1..n : connectionEvents'[i] = connectionEvents[j]
      BY <2>2, ZenonT(60)
    <3> QED BY <2>1, <3>1, ZenonT(60) DEF Endings
  <2> QED BY <1>12, <2>1, <2>3, <2>4, <2>5, ZenonT(60) DEF Endings
<1>13. CASE Passes \/ SubscribeToTopic \/ UnsubscribeFromTopic
  BY <1>12, <1>13, ZenonT(60) DEF Passes, SubscribeToTopic, UnsubscribeFromTopic, serverVars, Endings
<1>14. CASE ConnectionStarting
  BY <1>12, <1>14, ZenonT(60) DEF ConnectionStarting, Endings
<1>15. CASE ConnectionClosed
  BY <1>12, <1>15, ZenonT(60) DEF ConnectionClosed, Endings
<1> QED BY <1>1, <1>2, <1>3, <1>5, <1>6, <1>7, <1>9, <1>10, <1>11, <1>13, <1>14, <1>15, Kinds, ZenonT(60)

\* Every step keeps GoneLeavesNothing.
LEMMA GoneKept ==
  ASSUME Types, Starts, Endings, GoneLeavesNothing, Next
  PROVE  GoneLeavesNothing'
<1>1. CASE UNCHANGED <<ended, subscriptionsMap, overtaken>> /\ connectionsMap' \subseteq connectionsMap
  BY <1>1, ZenonT(60) DEF GoneLeavesNothing
<1>2. CASE Quiet \/ SendStarting \/ Serves \/ closeServer \/ CloseNext \/ EmitClosed \/ LoopReturns
  BY <1>1, <1>2, ZenonT(60) DEF Quiet, SendStarting, Serves, closeServer, TakesApiEvent, CloseNext, EmitClosed, LoopReturns, serverVars
<1>3. ASSUME NEW c \in Conn, Accept(c) \/ Handles(c) \/ Close(c) \/ Emit(c) PROVE GoneLeavesNothing'
  BY <1>1, <1>3, ZenonT(60) DEF Accept, Handles, handleConnect, SetConnected, handleSend, EndRun, handleSubscribe, handleUnsubscribe,
                    Close, Emit, serverVars
<1>4. CASE Passes
  BY <1>1, <1>4, ZenonT(60) DEF Passes, serverVars
<1>5. ASSUME NEW type, TakesConnectionEvent(type)
      PROVE  /\ 1 \in 1..Len(connectionEvents) /\ Head(connectionEvents) = connectionEvents[1]
             /\ connectionEvents[1].type = type /\ connectionEvents[1] \in ConnEvent /\ Open
  <2>1. /\ connectionEvents \in Seq(ConnEvent) /\ connectionEvents # << >> /\ Head(connectionEvents) \in ConnEvent
        /\ Head(connectionEvents) = connectionEvents[1] /\ Head(connectionEvents).type = type /\ Open
    BY <1>5, HeadIsEvent, ZenonT(60) DEF TakesConnectionEvent, Open
  <2>2. Len(connectionEvents) \in Nat \ {0}
    BY <2>1, Taken, ZenonT(60)
  <2>3. 1 \in 1..Len(connectionEvents)
    BY <2>2, SMTT(60)
  <2> QED BY <2>1, <2>3, ZenonT(60)
<1>6. CASE ConnectionStarting
  <2> DEFINE c == connectionEvents[1].conn
  <2>1. c \notin started
    BY <1>5, <1>6, ZenonT(60) DEF ConnectionStarting, Starts
  <2>2. c \in ended => c \in overtaken
    BY <2>1, ZenonT(60) DEF Endings
  <2>3. UNCHANGED <<ended, subscriptionsMap, overtaken>> /\ connectionsMap' = connectionsMap \cup {c}
    BY <1>5, <1>6, ZenonT(60) DEF ConnectionStarting
  <2> QED BY <2>2, <2>3, SMTT(60) DEF GoneLeavesNothing
<1>7. CASE SubscribeToTopic
  <2> DEFINE e == connectionEvents[1]
  <2>1. /\ e \in ConnEvent /\ e.type = "subscribe" /\ 1 \in 1..Len(connectionEvents) /\ Open
        /\ subscriptionsMap' = subscriptionsMap \cup {Entry(e)}
    BY <1>5, <1>7, ZenonT(60) DEF SubscribeToTopic
  <2>2. e.conn \notin ended
    BY <2>1, ZenonT(60) DEF Endings, Closing
  <2>3. Entry(e).conn = e.conn
    BY <2>1, EntryShape, ZenonT(60) DEF Aimed
  <2>4. UNCHANGED <<ended, overtaken, connectionsMap>>
    BY <1>7, ZenonT(60) DEF SubscribeToTopic
  <2> QED BY <2>1, <2>2, <2>3, <2>4, ZenonT(60) DEF GoneLeavesNothing
<1>8. CASE UnsubscribeFromTopic
  BY <1>8, ZenonT(60) DEF UnsubscribeFromTopic, GoneLeavesNothing
<1>9. CASE ConnectionClosed
  BY <1>9, ZenonT(60) DEF ConnectionClosed, GoneLeavesNothing
<1> QED BY <1>2, <1>3, <1>4, <1>6, <1>7, <1>8, <1>9, Kinds, SMTT(60)

-----------------------------------------------------------------------------
(***************************************************************************)
(* What the server has lags behind what the connections have by the events *)
(* that are on their way.                                                  *)
(***************************************************************************)
\* An event changes the subscriptions of its own connection, if it is about one.
LEMMA Applied ==
  ASSUME NEW v \in View, NEW e \in ConnEvent
  PROVE  /\ Apply(v, e) \in View
         /\ \A c \in Conn : c # e.conn => Apply(v, e)[c] = v[c]
         /\ e.type \notin Aimed => Apply(v, e) = v /\ Legal(v, e)
<1>1. e.conn \in Conn /\ (e.type \in Aimed => e.sub \in SubId /\ e.destination \in Destination)
  BY Shapes, ZenonT(60)
<1>2. Apply(v, e) \in View
  BY <1>1, ZenonT(60) DEF Apply, View
<1>3. ASSUME NEW c \in Conn, c # e.conn PROVE Apply(v, e)[c] = v[c]
  <2>1. \A s \in SubId : Apply(v, e)[c][s] = v[c][s]
    BY <1>3, ZenonT(60) DEF Apply
  <2>2. Apply(v, e)[c] \in [SubId -> Destination \cup {NoDestination}] /\ v[c] \in [SubId -> Destination \cup {NoDestination}]
    BY <1>2, ZenonT(60) DEF View
  <2> QED BY <2>1, <2>2, SMTT(60)
<1>4. ASSUME e.type \notin Aimed PROVE Apply(v, e) = v
  <2>1. \A c \in Conn, s \in SubId : Apply(v, e)[c][s] = v[c][s]
    BY <1>4, ZenonT(60) DEF Apply
  <2>2. ASSUME NEW c \in Conn PROVE Apply(v, e)[c] = v[c]
    <3>1. Apply(v, e)[c] \in [SubId -> Destination \cup {NoDestination}] /\ v[c] \in [SubId -> Destination \cup {NoDestination}]
      BY <1>2, ZenonT(60) DEF View
    <3> QED BY <2>1, <3>1, SMTT(60)
  <2> QED BY <1>2, <2>2, SMTT(60) DEF View
<1>5. e.type \notin Aimed => Legal(v, e)
  BY ZenonT(60) DEF Legal, Aimed
<1> QED BY <1>2, <1>3, <1>4, <1>5, ZenonT(60)

\* It depends on the subscriptions of that connection only.
LEMMA AppliedAlike ==
  ASSUME NEW v \in View, NEW w \in View, NEW e \in ConnEvent, v[e.conn] = w[e.conn]
  PROVE  (Legal(v, e) => Legal(w, e)) /\ Apply(v, e)[e.conn] = Apply(w, e)[e.conn]
<1>1. e.conn \in Conn
  BY Shapes, ZenonT(60)
<1>2. \A s \in SubId : Apply(v, e)[e.conn][s] = Apply(w, e)[e.conn][s]
  BY <1>1, ZenonT(60) DEF Apply
<1>3. /\ Apply(v, e)[e.conn] \in [SubId -> Destination \cup {NoDestination}]
      /\ Apply(w, e)[e.conn] \in [SubId -> Destination \cup {NoDestination}]
  BY <1>1, Applied, SMTT(60) DEF View
<1>4. Legal(v, e) => Legal(w, e)
  BY ZenonT(60) DEF Legal
<1> QED BY <1>2, <1>3, <1>4, SMTT(60)

\* An event is added.
LEMMA ChainAdded ==
  ASSUME NEW events \in Seq(ConnEvent), NEW views, Chain(views, events), NEW e \in ConnEvent,
         Legal(views[Len(events)], e)
  PROVE  \E w : /\ Chain(w, Append(events, e)) /\ w[0] = views[0]
                /\ w[Len(Append(events, e))] = Apply(views[Len(events)], e)
<1> DEFINE n == Len(events)
           t == Append(events, e)
           w == [i \in 0..(n + 1) |-> IF i \in 0..n THEN views[i] ELSE Apply(views[n], e)]
<1>1. n \in Nat /\ Len(t) = n + 1 /\ t[n + 1] = e /\ \A i \in 1..n : t[i] = events[i]
  BY Added, SMTT(60)
<1>2. views[n] \in View /\ Apply(views[n], e) \in View
  BY <1>1, Applied, SMTT(60) DEF Chain
<1>3. w \in [0..(n + 1) -> View] /\ w[n + 1] = Apply(views[n], e) /\ w[0] = views[0] /\ \A i \in 0..n : w[i] = views[i]
  BY <1>1, <1>2, SMTT(60) DEF Chain
<1> HIDE DEF w, t
<1>4. ASSUME NEW i \in 1..(n + 1) PROVE Legal(w[i - 1], t[i]) /\ w[i] = Apply(w[i - 1], t[i])
  <2>1. CASE i = n + 1
    <3>1. i - 1 = n /\ n \in 0..n
      BY <1>1, <2>1, SMTT(60)
    <3>2. w[i - 1] = views[n] /\ t[i] = e /\ w[i] = Apply(views[n], e)
      BY <1>1, <1>3, <2>1, <3>1, ZenonT(60)
    <3> QED BY <3>2, ZenonT(60)
  <2>2. CASE i # n + 1
    <3>1. i \in 1..n /\ i \in 0..n /\ i - 1 \in 0..n
      BY <1>1, <2>2, SMTT(60)
    <3>2. w[i - 1] = views[i - 1] /\ w[i] = views[i] /\ t[i] = events[i]
      BY <1>1, <1>3, <3>1, ZenonT(60)
    <3> QED BY <3>1, <3>2, ZenonT(60) DEF Chain
  <2> QED BY <2>1, <2>2, SMTT(60)
<1>5. Chain(w, t)
  BY <1>1, <1>3, <1>4, ZenonT(60) DEF Chain
<1> QED BY <1>1, <1>3, <1>5, ZenonT(60) DEF t

\* The first event is taken.
LEMMA ChainTaken ==
  ASSUME NEW events \in Seq(ConnEvent), events # << >>, NEW views, Chain(views, events)
  PROVE  /\ views[0] \in View /\ Legal(views[0], Head(events))
         /\ \E w : /\ Chain(w, Tail(events)) /\ w[0] = Apply(views[0], Head(events))
                   /\ w[Len(Tail(events))] = views[Len(events)]
<1> DEFINE n == Len(events)
           t == Tail(events)
           w == [i \in 0..(n - 1) |-> views[i + 1]]
<1>1. n \in Nat \ {0} /\ Len(t) = n - 1 /\ Head(events) = events[1] /\ \A i \in 1..(n - 1) : t[i] = events[i + 1]
  BY Taken, ZenonT(60)
<1>2. 0 \in 0..n /\ 1 \in 1..n /\ 1 - 1 = 0 /\ \A i \in 0..(n - 1) : i + 1 \in 0..n
  BY <1>1, SMTT(60)
<1>3. views[0] \in View /\ Legal(views[0], Head(events)) /\ views[1] = Apply(views[0], Head(events))
  BY <1>1, <1>2, ZenonT(60) DEF Chain
<1>4. w \in [0..(n - 1) -> View]
  BY <1>1, <1>2, ZenonT(60) DEF Chain
<1>5. w[0] = views[1] /\ w[n - 1] = views[n]
  BY <1>1, SMTT(60)
<1>6. \A i \in 0..(n - 1) : w[i] = views[i + 1]
  BY ZenonT(60)
<1> HIDE DEF w, t
<1>7. ASSUME NEW i \in 1..(n - 1) PROVE Legal(w[i - 1], t[i]) /\ w[i] = Apply(w[i - 1], t[i])
  <2>1. i \in 0..(n - 1) /\ i - 1 \in 0..(n - 1) /\ (i - 1) + 1 = i /\ i + 1 \in 1..n /\ (i + 1) - 1 = i
    BY <1>1, SMTT(60)
  <2>2. w[i - 1] = views[i] /\ w[i] = views[i + 1] /\ t[i] = events[i + 1]
    BY <1>1, <1>6, <2>1, ZenonT(60)
  <2>3. Legal(views[i], events[i + 1]) /\ views[i + 1] = Apply(views[i], events[i + 1])
    BY <2>1, ZenonT(60) DEF Chain
  <2> QED BY <2>2, <2>3, ZenonT(60)
<1>8. Chain(w, t)
  BY <1>1, <1>4, <1>7, ZenonT(60) DEF Chain
<1> QED BY <1>1, <1>3, <1>5, <1>8, ZenonT(60) DEF t

\* A connection's events meet its subscriptions when the server's view of it does not change.
LEMMA MeetsAlike ==
  ASSUME Types, NEW v \in View, NEW w \in View, NEW c \in Conn, v[c] = w[c], Meets(v, c),
         run'[c] = run[c], subscriptions'[c] = subscriptions[c]
  PROVE  Meets(w, c)'
<1>1. CASE run[c].at = "emit"
  <2>1. run[c].event \in ConnEvent /\ run[c].event.conn = c
    BY <1>1, Shapes, ZenonT(60) DEF Types
  <2>2. Legal(v, run[c].event) /\ subscriptions[c] = Apply(v, run[c].event)[c]
    BY <1>1, ZenonT(60) DEF Meets
  <2>3. Legal(w, run[c].event) /\ Apply(v, run[c].event)[c] = Apply(w, run[c].event)[c]
    BY <2>1, <2>2, AppliedAlike, SMTT(60)
  <2> QED BY <1>1, <2>2, <2>3, ZenonT(60) DEF Meets
<1>2. CASE run[c].at # "emit"
  BY <1>2, SMTT(60) DEF Meets
<1> QED BY <1>1, <1>2, ZenonT(60)

\* A goroutine that handles a frame is about to send the event of what it did.
LEMMA MeetsHandled ==
  ASSUME Types, NEW v \in View, NEW c \in Conn, Meets(v, c), Handles(c) \/ Close(c) \/ (Accept(c) /\ run[c].at = "none")
  PROVE  Meets(v, c)' /\ \A b \in Conn \ {c} : run'[b] = run[b] /\ subscriptions'[b] = subscriptions[b]
<1>0. run \in [Conn -> Place] /\ subscriptions \in View
  BY ZenonT(60) DEF Types
<1>1. CASE handleConnect(c) \/ EndRun(c) \/ (Accept(c) /\ run[c].at = "none")
  <2>1. subscriptions' = subscriptions /\ run[c].at # "emit"
    BY <1>1, ZenonT(60) DEF handleConnect, EndRun, Accept, Selecting
  <2>2. run'[c].at # "emit" /\ \A b \in Conn \ {c} : run'[b] = run[b]
    BY <1>0, <1>1, SMTT(60) DEF handleConnect, EndRun, Accept
  <2> QED BY <2>1, <2>2, ZenonT(60) DEF Meets
<1>2. ASSUME NEW e, Emits(c, e, "select") \/ Emits(c, e, "ended")
      PROVE  run'[c].at = "emit" /\ run'[c].event = e /\ \A b \in Conn \ {c} : run'[b] = run[b]
  BY <1>0, <1>2, SMTT(60) DEF Emits
<1>3. CASE SetConnected(c) \/ handleSend(c) \/ Close(c)
  <2>1. subscriptions' = subscriptions /\ run[c].at # "emit"
    BY <1>3, ZenonT(60) DEF SetConnected, handleSend, Close, Selecting
  <2>2. PICK kind \in {"established", "message", "closed"} :
          Emits(c, Plain(kind, c), "select") \/ Emits(c, Plain(kind, c), "ended")
    BY <1>3, ZenonT(60) DEF SetConnected, handleSend, Close
  <2>3. Plain(kind, c) \in ConnEvent /\ Plain(kind, c).type \notin Aimed
    BY Shapes, ZenonT(60) DEF Aimed
  <2>4. Apply(v, Plain(kind, c)) = v /\ Legal(v, Plain(kind, c))
    BY <2>3, Applied, ZenonT(60)
  <2> QED BY <1>2, <2>1, <2>2, <2>4, ZenonT(60) DEF Meets
<1>4. ASSUME NEW s \in SubId, NEW d \in Destination \cup {NoDestination}, NEW e \in ConnEvent, e.type \in Aimed,
             e.conn = c, e.sub = s, d = (IF e.type = "subscribe" THEN e.destination ELSE NoDestination),
             run[c].at # "emit", Emits(c, e, "select"), subscriptions' = [subscriptions EXCEPT ![c][s] = d], Legal(v, e)
      PROVE  Meets(v, c)' /\ \A b \in Conn \ {c} : run'[b] = run[b] /\ subscriptions'[b] = subscriptions[b]
  <2>1. subscriptions[c] = v[c]
    BY <1>4, ZenonT(60) DEF Meets
  <2>2. \A b \in Conn \ {c} : subscriptions'[b] = subscriptions[b]
    BY <1>0, <1>4, ZenonT(60) DEF View
  <2>3. subscriptions'[c] = [subscriptions[c] EXCEPT ![s] = d]
    BY <1>0, <1>4, ZenonT(60) DEF View
  <2>4. \A t \in SubId : Apply(v, e)[c][t] = IF t = s THEN d ELSE v[c][t]
    BY <1>4, ZenonT(60) DEF Apply
  <2>5. Apply(v, e)[c] \in [SubId -> Destination \cup {NoDestination}]
    BY Applied, ZenonT(60) DEF View
  <2>6. subscriptions'[c] = Apply(v, e)[c]
    BY <1>0, <2>1, <2>3, <2>4, <2>5, ZenonT(60) DEF View
  <2> QED BY <1>2, <1>4, <2>2, <2>6, SMTT(60) DEF Meets
<1>5. ASSUME NEW s \in SubId, NEW d \in Destination, handleSubscribe(c, s, d)
      PROVE  Meets(v, c)' /\ \A b \in Conn \ {c} : run'[b] = run[b] /\ subscriptions'[b] = subscriptions[b]
  <2> DEFINE e == Event("subscribe", c, s, d)
  <2>1. /\ e \in ConnEvent /\ e.type = "subscribe" /\ e.conn = c /\ e.sub = s /\ e.destination = d
    BY Shapes, SMTT(60) DEF Aimed
  <2>2. /\ run[c].at # "emit" /\ Emits(c, e, "select") /\ subscriptions' = [subscriptions EXCEPT ![c][s] = d]
        /\ subscriptions[c][s] = NoDestination
    BY <1>5, SMTT(60) DEF handleSubscribe, Selecting
  <2> HIDE DEF e
  <2>3. Legal(v, e)
    BY <2>1, <2>2, SMTT(60) DEF Legal, Meets
  <2> QED BY <1>4, <2>1, <2>2, <2>3, ZenonT(60) DEF Aimed
<1>6. ASSUME NEW s \in SubId, handleUnsubscribe(c, s)
      PROVE  Meets(v, c)' /\ \A b \in Conn \ {c} : run'[b] = run[b] /\ subscriptions'[b] = subscriptions[b]
  <2> DEFINE d == subscriptions[c][s]
             e == Event("unsubscribe", c, s, d)
  <2>0. d \in Destination
    BY <1>0, <1>6, SMTT(60) DEF handleUnsubscribe, View
  <2>1. /\ e \in ConnEvent /\ e.type = "unsubscribe" /\ e.conn = c /\ e.sub = s /\ e.destination = d
    BY <2>0, Shapes, SMTT(60) DEF Aimed
  <2>2. /\ run[c].at # "emit" /\ Emits(c, e, "select")
        /\ subscriptions' = [subscriptions EXCEPT ![c][s] = NoDestination]
    BY <1>6, SMTT(60) DEF handleUnsubscribe, Selecting
  <2> HIDE DEF e
  <2>3. Legal(v, e)
    BY <2>1, <2>2, SMTT(60) DEF Legal, Meets
  <2> QED BY <1>4, <2>1, <2>2, <2>3, ZenonT(60) DEF Aimed
<1> QED BY <1>1, <1>3, <1>5, <1>6, ZenonT(60) DEF Handles

\* What the server has follows the event that it takes.
LEMMA ShowsTaken ==
  ASSUME Types, Endings, NEW v \in View, Shows(v), NEW f, f = Head(connectionEvents), Legal(v, f),
         Passes \/ ConnectionStarting \/ SubscribeToTopic \/ UnsubscribeFromTopic \/ ConnectionClosed
  PROVE  Shows(Apply(v, f))'
<1> DEFINE Had(c, s, d) == [destination |-> d, conn |-> c, sub |-> s]
<1>1. ASSUME NEW type, TakesConnectionEvent(type)
      PROVE  /\ f \in ConnEvent /\ f.type = type /\ f.conn \in Conn
             /\ type \notin {"starting"} => f.conn \notin ended
             /\ type \in Aimed => f.sub \in SubId /\ f.destination \in Destination
  <2>1. /\ f \in ConnEvent /\ f.type = type /\ f = connectionEvents[1] /\ 1 \in 1..Len(connectionEvents) /\ Open
    BY <1>1, HeadIsEvent, Taken, SMTT(60) DEF TakesConnectionEvent, Open
  <2>2. type \notin {"starting"} => f.conn \notin ended
    BY <2>1, ZenonT(60) DEF Endings, Closing
  <2> QED BY <2>1, <2>2, Shapes, ZenonT(60)
<1>2. CASE Passes \/ ConnectionStarting \/ ConnectionClosed
  <2>1. f \in ConnEvent /\ f.type \notin Aimed
    BY <1>1, <1>2, SMTT(60) DEF Passes, ConnectionStarting, ConnectionClosed, Aimed
  <2>2. Apply(v, f) = v
    BY <2>1, Applied, ZenonT(60)
  <2>3. CASE Passes \/ ConnectionStarting
    <3>1. UNCHANGED <<subscriptionsMap, ended>>
      BY <2>3, ZenonT(60) DEF Passes, ConnectionStarting, serverVars
    <3> QED BY <2>2, <3>1, ZenonT(60) DEF Shows
  <2>4. CASE ConnectionClosed
    <3>1. ended' = ended \cup {f.conn} /\ subscriptionsMap' = {x \in subscriptionsMap : x.conn # f.conn}
      BY <2>4, ZenonT(60) DEF ConnectionClosed
    <3>2. \A c \in Conn \ ended', s \in SubId, d \in Destination :
            Had(c, s, d) \in subscriptionsMap' <=> Had(c, s, d) \in subscriptionsMap
      BY <3>1, ZenonT(60)
    <3>3. \A c \in Conn \ ended', s \in SubId, d \in Destination : Had(c, s, d) \in subscriptionsMap <=> v[c][s] = d
      BY <3>1, ZenonT(60) DEF Shows
    <3>4. \A c \in Conn \ ended', s \in SubId, d \in Destination : Had(c, s, d) \in subscriptionsMap' <=> v[c][s] = d
      <4> HIDE DEF Had
      <4> QED BY <3>2, <3>3, ZenonT(60)
    <3> QED BY <2>2, <3>4, ZenonT(60) DEF Shows
  <2> QED BY <1>2, <2>3, <2>4, ZenonT(60)
<1>3. CASE SubscribeToTopic \/ UnsubscribeFromTopic
  <2>1. /\ f \in ConnEvent /\ f.type \in Aimed /\ f.conn \in Conn \ ended /\ f.sub \in SubId /\ f.destination \in Destination
        /\ SubscribeToTopic => f.type = "subscribe"
        /\ UnsubscribeFromTopic => f.type = "unsubscribe"
    BY <1>1, <1>3, ZenonT(60) DEF SubscribeToTopic, UnsubscribeFromTopic, Aimed
  <2>2. ended' = ended /\ Entry(f) = Had(f.conn, f.sub, f.destination)
    BY <1>3, ZenonT(60) DEF SubscribeToTopic, UnsubscribeFromTopic, Entry
  <2>3. ASSUME NEW c \in Conn \ ended, NEW s \in SubId, NEW d \in Destination
        PROVE  Had(c, s, d) \in subscriptionsMap' <=> Apply(v, f)[c][s] = d
    <3>1. Had(c, s, d) = Entry(f) <=> c = f.conn /\ s = f.sub /\ d = f.destination
      BY <2>2, SMTT(60)
    <3>2. Apply(v, f)[c][s] = IF f.conn = c /\ f.sub = s
                              THEN IF f.type = "subscribe" THEN f.destination ELSE NoDestination ELSE v[c][s]
      BY <2>1, ZenonT(60) DEF Apply
    <3>3. Had(c, s, d) \in subscriptionsMap <=> v[c][s] = d
      BY ZenonT(60) DEF Shows
    <3>4. d # NoDestination
      BY EndpointAssumption, ZenonT(60)
    <3>5. CASE SubscribeToTopic
      <4>1. subscriptionsMap' = subscriptionsMap \cup {Entry(f)} /\ f.type = "subscribe" /\ v[f.conn][f.sub] = NoDestination
        BY <2>1, <3>5, ZenonT(60) DEF SubscribeToTopic, Legal
      <4> HIDE DEF Had
      <4> QED BY <3>1, <3>2, <3>3, <3>4, <4>1, ZenonT(60)
    <3>6. CASE UnsubscribeFromTopic
      <4>1. subscriptionsMap' = subscriptionsMap \ {Entry(f)} /\ f.type = "unsubscribe" /\ v[f.conn][f.sub] = f.destination
        BY <2>1, <3>6, ZenonT(60) DEF UnsubscribeFromTopic, Legal
      <4> HIDE DEF Had
      <4> QED BY <3>1, <3>2, <3>3, <3>4, <4>1, ZenonT(60)
    <3> QED BY <1>3, <3>5, <3>6, ZenonT(60)
  <2> QED BY <2>2, <2>3, ZenonT(60) DEF Shows
<1> QED BY <1>2, <1>3, ZenonT(60)

\* Every step keeps Lag.
LEMMA LagKept ==
  ASSUME Types, Starts, Endings, Lag, Next
  PROVE  Lag'
<1> DEFINE Goal == \E views, v : Tracks(views, v)'
           \* It is the event that its connection was about to send, or none of a subscription.
           Sent(e) ==
             /\ \A b \in Conn :
                  \/ run'[b] = run[b] /\ (b # e.conn \/ e.type \notin Aimed)
                  \/ b = e.conn /\ run[b].at = "emit" /\ run[b].event = e /\ run'[b].at # "emit"
             /\ e.type \in Aimed => run[e.conn].at = "emit" /\ run[e.conn].event = e
<1> SUFFICES ASSUME Open' PROVE Goal
  BY ZenonT(60) DEF Lag
<1>1. connectionEvents \in Seq(ConnEvent)
  BY SMTT(60) DEF Types
<1>2. ASSUME Open PROVE \E views, v : Tracks(views, v)
  BY <1>2, ZenonT(60) DEF Lag
<1>3. ASSUME Open, UNCHANGED <<connectionEvents, run, subscriptions, subscriptionsMap, ended>> PROVE Goal
  <2>1. PICK views, v : Tracks(views, v)
    BY <1>2, <1>3, ZenonT(60)
  <2>2. Shows(views[0])' /\ \A c \in Conn : Meets(v, c)'
    <3>1. Shows(views[0])'
      BY <1>3, <2>1, ZenonT(60) DEF Tracks, Shows
    <3>2. \A c \in Conn : Meets(v, c)'
      BY <1>3, <2>1, MeetsAlike, ZenonT(60) DEF Tracks
    <3> QED BY <3>1, <3>2, ZenonT(60)
  <2>3. Tracks(views, v)'
    BY <1>3, <2>1, <2>2, SMTT(60) DEF Tracks
  <2> QED BY <2>3, ZenonT(60)
<1>4. CASE Quiet \/ Serves
  BY <1>3, <1>4, SMTT(60) DEF Quiet, Serves, connVars, serverVars, Open
<1>5. CASE closeServer \/ CloseNext \/ EmitClosed \/ LoopReturns
  BY <1>5, ClosingIsLast, ZenonT(60)
<1>6. ASSUME NEW c \in Conn, Accept(c) \/ Handles(c) \/ Close(c) PROVE Goal
  <2>1. UNCHANGED <<connectionEvents, subscriptionsMap, ended, loop>>
    BY <1>6, ZenonT(60) DEF Accept, Handles, handleConnect, SetConnected, handleSend, EndRun, handleSubscribe, handleUnsubscribe,
                Close, serverVars
  <2>2. Open
    BY <2>1, ZenonT(60) DEF Open
  <2>3. PICK views, v : Tracks(views, v)
    BY <1>2, <2>2, ZenonT(60)
  <2>4. Handles(c) \/ Close(c) \/ (Accept(c) /\ run[c].at = "none")
    BY <1>6, ZenonT(60) DEF Accept, Starts
  <2>5. Meets(v, c)' /\ \A b \in Conn \ {c} : run'[b] = run[b] /\ subscriptions'[b] = subscriptions[b]
    BY <2>3, <2>4, MeetsHandled, ZenonT(60) DEF Tracks
  <2>6. Shows(views[0])'
    BY <2>1, <2>3, ZenonT(60) DEF Tracks, Shows
  <2>7. \A b \in Conn : Meets(v, b)'
    BY <2>3, <2>5, MeetsAlike, ZenonT(60) DEF Tracks
  <2>8. Tracks(views, v)'
    BY <2>1, <2>3, <2>6, <2>7, ZenonT(60) DEF Tracks
  <2> QED BY <2>8, ZenonT(60)
<1>7. ASSUME NEW e \in ConnEvent, connectionEvents' = Append(connectionEvents, e), Open,
             UNCHANGED <<subscriptions, subscriptionsMap, ended>>, Sent(e)
      PROVE  Goal
  <2>1. PICK views, v : Tracks(views, v)
    BY <1>2, <1>7, ZenonT(60)
  <2>2. Legal(v, e)
    <3>1. CASE e.type \in Aimed
      <4>1. e.conn \in Conn
        BY Shapes, ZenonT(60)
      <4>2. run[e.conn].at = "emit" /\ run[e.conn].event = e
        BY <1>7, <3>1, ZenonT(60)
      <4> QED BY <2>1, <4>1, <4>2, ZenonT(60) DEF Tracks, Meets
    <3>2. CASE e.type \notin Aimed
      BY <2>1, <3>2, Applied, ZenonT(60) DEF Tracks
    <3> QED BY <3>1, <3>2, ZenonT(60)
  <2>3. PICK w : /\ Chain(w, Append(connectionEvents, e)) /\ w[0] = views[0]
                 /\ w[Len(Append(connectionEvents, e))] = Apply(v, e)
    BY <1>1, <2>1, <2>2, ChainAdded, ZenonT(60) DEF Tracks
  <2>4. PICK x : x = Apply(v, e)
    BY ZenonT(60)
  <2>5. v \in View /\ x \in View /\ (\A b \in Conn : b # e.conn => x[b] = v[b]) /\ (e.type \notin Aimed => x = v)
    BY <2>1, <2>4, Applied, ZenonT(60) DEF Tracks
  <2>6. ASSUME NEW b \in Conn PROVE Meets(x, b)'
    <3>1. Meets(v, b)
      BY <2>1, ZenonT(60) DEF Tracks
    <3>2. CASE run'[b] = run[b] /\ (b # e.conn \/ e.type \notin Aimed)
      <4>1. v[b] = x[b]
        BY <2>5, <3>2, ZenonT(60)
      <4> QED BY <1>7, <2>5, <3>1, <3>2, <4>1, MeetsAlike, ZenonT(60)
    <3>3. CASE b = e.conn /\ run[b].at = "emit" /\ run[b].event = e /\ run'[b].at # "emit"
      <4>1. subscriptions[b] = x[b]
        BY <2>4, <3>1, <3>3, ZenonT(60) DEF Meets
      <4> QED BY <1>7, <3>3, <4>1, ZenonT(60) DEF Meets
    <3> QED BY <1>7, <3>2, <3>3, ZenonT(60)
  <2>7. Shows(w[0])'
    <3>1. Shows(views[0]) /\ UNCHANGED <<subscriptionsMap, ended>> /\ w[0] = views[0]
      BY <1>7, <2>1, <2>3, ZenonT(60) DEF Tracks
    <3>2. Shows(w[0])
      BY <3>1, ZenonT(60)
    <3> QED BY <3>1, <3>2, ZenonT(60) DEF Shows
  <2>8. Tracks(w, x)'
    BY <1>7, <2>3, <2>4, <2>5, <2>6, <2>7, ZenonT(60) DEF Tracks
  <2> QED BY <2>8, ZenonT(60)
<1>8. CASE SendStarting
  <2>1. Plain("starting", accepting.conn) \in ConnEvent /\ Plain("starting", accepting.conn).type \notin Aimed
    BY <1>8, Shapes, ZenonT(60) DEF SendStarting, Types, Aimed
  <2>2. /\ connectionEvents' = Append(connectionEvents, Plain("starting", accepting.conn))
        /\ UNCHANGED <<subscriptions, subscriptionsMap, ended, run, loop>>
    BY <1>8, ZenonT(60) DEF SendStarting, connVars, serverVars
  <2>3. PICK e : e = Plain("starting", accepting.conn)
    BY ZenonT(60)
  <2>4. Open /\ e \in ConnEvent /\ e.type \notin Aimed /\ connectionEvents' = Append(connectionEvents, e)
    BY <2>1, <2>2, <2>3, ZenonT(60) DEF Open
  <2>5. Sent(e)
    <3>1. run' = run /\ e.type \notin Aimed
      BY <2>2, <2>4, ZenonT(60)
    <3> QED BY <3>1, ZenonT(60)
  <2> HIDE DEF Sent, Goal
  <2> QED BY <1>7, <2>2, <2>4, <2>5, ZenonT(60)
<1>9. ASSUME NEW c \in Conn, Emit(c) PROVE Goal
  <2>1. PICK e : e = run[c].event
    BY ZenonT(60)
  <2>2. e \in ConnEvent /\ e.conn = c /\ run[c].at = "emit" /\ run[c].then \in {"select", "ended"}
    BY <1>9, <2>1, Shapes, ZenonT(60) DEF Emit, Types
  <2>3. /\ connectionEvents' = Append(connectionEvents, e)
        /\ UNCHANGED <<subscriptions, subscriptionsMap, ended, loop>>
    BY <1>9, <2>1, ZenonT(60) DEF Emit, serverVars
  <2>4. run'[c].at # "emit" /\ \A b \in Conn \ {c} : run'[b] = run[b]
    BY <1>9, <2>2, SMTT(60) DEF Emit, Types
  <2>5. Open /\ run[c].event = e
    BY <2>1, <2>3, ZenonT(60) DEF Open
  <2>6. Sent(e)
    <3>1. ASSUME NEW b \in Conn, b # c PROVE run'[b] = run[b] /\ b # e.conn
      BY <2>2, <2>4, <3>1, ZenonT(60)
    <3>2. c = e.conn /\ run[c].at = "emit" /\ run[c].event = e /\ run'[c].at # "emit"
      BY <2>2, <2>4, <2>5, ZenonT(60)
    <3> QED BY <3>1, <3>2, ZenonT(60)
  <2> HIDE DEF Sent, Goal
  <2> QED BY <1>7, <2>2, <2>3, <2>5, <2>6, ZenonT(60)
<1>10. CASE Passes \/ ConnectionStarting \/ SubscribeToTopic \/ UnsubscribeFromTopic \/ ConnectionClosed
  <2>1. PICK type : TakesConnectionEvent(type)
    BY <1>10, ZenonT(60) DEF Passes, ConnectionStarting, SubscribeToTopic, UnsubscribeFromTopic, ConnectionClosed
  <2>2. /\ Open /\ UNCHANGED <<run, subscriptions>> /\ connectionEvents' = Tail(connectionEvents) /\ connectionEvents # << >>
    BY <2>1, ZenonT(60) DEF TakesConnectionEvent, connVars, Open
  <2>3. PICK views, v : Tracks(views, v)
    BY <1>2, <2>2, ZenonT(60)
  <2>4. PICK f, u : f = Head(connectionEvents) /\ u = views[0]
    BY ZenonT(60)
  <2>5. PICK w : Chain(w, Tail(connectionEvents)) /\ w[0] = Apply(u, f) /\ w[Len(Tail(connectionEvents))] = v
    BY <1>1, <2>2, <2>3, <2>4, ChainTaken, ZenonT(60) DEF Tracks
  <2>6. u \in View /\ Legal(u, f) /\ Shows(u)
    BY <1>1, <2>2, <2>3, <2>4, ChainTaken, ZenonT(60) DEF Tracks
  <2>7. Shows(Apply(u, f))'
    BY <1>10, <2>4, <2>6, ShowsTaken, ZenonT(60)
  <2>8. \A b \in Conn : Meets(v, b)'
    BY <2>2, <2>3, ZenonT(60) DEF Tracks, Meets
  <2>9. Shows(w[0])'
    BY <2>5, <2>7, ZenonT(60) DEF Shows
  <2>10. Tracks(w, v)'
    BY <2>2, <2>3, <2>5, <2>8, <2>9, ZenonT(60) DEF Tracks
  <2> QED BY <2>10, SMTT(60)
<1> QED BY <1>4, <1>5, <1>6, <1>8, <1>9, <1>10, Kinds, ZenonT(60)

-----------------------------------------------------------------------------
(***************************************************************************)
(* The mappings of the endpoint.                                           *)
(***************************************************************************)
\* What joins a channel, of a set of the server's entries.
Joined(entries, ch) ==
  {<<e.conn, e.sub>> : e \in {e \in entries : ChannelOf[e.destination] = ch /\ Joins(e.destination)}}

\* A connection has one destination for a subscription id, also in the server (server.go:262-297).
LEMMA OneEach ==
  ASSUME Types, GoneLeavesNothing, Lag, Open, NEW e \in subscriptionsMap, NEW f \in subscriptionsMap,
         e.conn = f.conn, e.sub = f.sub
  PROVE  e = f
<1>1. PICK views, v : Tracks(views, v)
  BY ZenonT(60) DEF Lag
<1>2. /\ e \in [destination : Destination, conn : Conn, sub : SubId]
      /\ f \in [destination : Destination, conn : Conn, sub : SubId]
      /\ e.conn \notin ended
  BY ZenonT(60) DEF Types, GoneLeavesNothing
<1>3. /\ e = [destination |-> e.destination, conn |-> e.conn, sub |-> e.sub]
      /\ f = [destination |-> f.destination, conn |-> e.conn, sub |-> e.sub]
  BY <1>2, ZenonT(60)
<1>4. views[0][e.conn][e.sub] = e.destination /\ views[0][e.conn][e.sub] = f.destination
  <2>1. e.conn \in Conn \ ended /\ e.sub \in SubId /\ e.destination \in Destination /\ f.destination \in Destination
    BY <1>2, ZenonT(60)
  <2>2. /\ [destination |-> e.destination, conn |-> e.conn, sub |-> e.sub] \in subscriptionsMap
        /\ [destination |-> f.destination, conn |-> e.conn, sub |-> e.sub] \in subscriptionsMap
    BY <1>3, ZenonT(60)
  <2> QED BY <1>1, <2>1, <2>2, SMTT(60) DEF Tracks, Shows
<1> QED BY <1>3, <1>4, ZenonT(60)

\* Subscriptions are removed for the entries that the server removes.
LEMMA Removed ==
  ASSUME Types, Mapped, NEW gone \in SUBSET subscriptionsMap, subscriptionsMap' = subscriptionsMap \ gone,
         \A e \in gone, f \in subscriptionsMap \ gone : ~(e.conn = f.conn /\ e.sub = f.sub),
         removeSubscriptions(gone)
  PROVE  Mapped'
<1> DEFINE Without(ch) == {<<e.conn, e.sub>> : e \in {e \in gone : ChannelOf[e.destination] = ch}}
           left(ch) == chanMappings[ch].subs \ Without(ch)
           Mapping == [subs : SUBSET (Conn \X SubId), hears : BOOLEAN,
                       errors : Destination \cup {NoDestination}, auto : BOOLEAN]
<1>0. chanMappings \in [Channel -> Mapping] /\ busChannel \in [Channel -> {"none", "program", "endpoint"}]
  BY SMTT(60) DEF Mapped
<1>1. /\ chanMappings' = [ch \in Channel |->
           IF left(ch) = {} THEN NoMapping ELSE [chanMappings[ch] EXCEPT !.subs = left(ch)]]
      /\ busChannel' = [ch \in Channel |->
           IF (chanMappings[ch] # NoMapping /\ left(ch) = {}) /\ chanMappings[ch].auto THEN "none" ELSE busChannel[ch]]
  BY ZenonT(60) DEF removeSubscriptions
<1>2. ASSUME NEW ch \in Channel
      PROVE  left(ch) = Joined(subscriptionsMap', ch)
  <2>1. chanMappings[ch].subs = Joined(subscriptionsMap, ch)
    BY ZenonT(60) DEF Mapped, EndpointFollowsServer, Joined
  <2>2. ASSUME NEW f \in subscriptionsMap \ gone, ChannelOf[f.destination] = ch, Joins(f.destination)
        PROVE  <<f.conn, f.sub>> \in left(ch)
    BY <2>1, <2>2, ZenonT(60) DEF Joined
  <2>3. ASSUME NEW x \in left(ch) PROVE x \in Joined(subscriptionsMap', ch)
    <3>1. PICK f \in subscriptionsMap : x = <<f.conn, f.sub>> /\ ChannelOf[f.destination] = ch /\ Joins(f.destination)
      BY <2>1, <2>3, ZenonT(60) DEF Joined
    <3>2. f \notin gone
      BY <2>3, <3>1, ZenonT(60)
    <3> QED BY <3>1, <3>2, ZenonT(60) DEF Joined
  <2> QED BY <2>2, <2>3, ZenonT(60) DEF Joined
<1> HIDE DEF left
<1>3. ASSUME NEW ch \in Channel
      PROVE  /\ chanMappings'[ch] \in Mapping /\ chanMappings'[ch].subs = left(ch)
             /\ left(ch) = {} => chanMappings'[ch] = NoMapping
             /\ left(ch) # {} => chanMappings'[ch].auto = chanMappings[ch].auto
  <2>1. CASE left(ch) = {}
    BY <1>1, <2>1, ZenonT(60) DEF NoMapping
  <2>2. CASE left(ch) # {}
    <3>1. chanMappings'[ch] = [chanMappings[ch] EXCEPT !.subs = left(ch)] /\ chanMappings[ch] \in Mapping
      BY <1>0, <1>1, <2>2, ZenonT(60)
    <3>2. left(ch) \in SUBSET (Conn \X SubId)
      BY <1>0, ZenonT(60) DEF left
    <3> QED BY <2>2, <3>1, <3>2, ZenonT(60)
  <2> QED BY <2>1, <2>2, ZenonT(60)
<1>4. ASSUME NEW ch \in Channel, busChannel'[ch] = "endpoint"
      PROVE  chanMappings'[ch].auto /\ chanMappings'[ch] # NoMapping
  <2>1. busChannel[ch] = "endpoint" /\ ~(chanMappings[ch] # NoMapping /\ left(ch) = {} /\ chanMappings[ch].auto)
    BY <1>1, <1>4, SMTT(60)
  <2>2. chanMappings[ch].auto /\ chanMappings[ch] # NoMapping
    BY <2>1, ZenonT(60) DEF Mapped, EndpointFollowsServer
  <2>3. left(ch) # {}
    BY <2>1, <2>2, ZenonT(60)
  <2> QED BY <1>3, <2>2, <2>3, SMTT(60) DEF NoMapping
<1>5. chanMappings' \in [Channel -> Mapping] /\ busChannel' \in [Channel -> {"none", "program", "endpoint"}]
  BY <1>0, <1>1, <1>3, ZenonT(60)
<1>6. EndpointFollowsServer'
  BY <1>2, <1>3, <1>4, ZenonT(60) DEF EndpointFollowsServer, Joined
<1> QED BY <1>3, <1>4, <1>5, <1>6, ZenonT(60) DEF Mapped

\* A subscription is added for the entry that the server adds.
LEMMA Subscribes ==
  ASSUME Types, Mapped, Subscribed
  PROVE  Mapped'
<1> DEFINE e == Head(connectionEvents)
           ch == ChannelOf[e.destination]
           pair == <<e.conn, e.sub>>
           Mapping == [subs : SUBSET (Conn \X SubId), hears : BOOLEAN,
                       errors : Destination \cup {NoDestination}, auto : BOOLEAN]
<1>0. chanMappings \in [Channel -> Mapping] /\ busChannel \in [Channel -> {"none", "program", "endpoint"}]
  BY ZenonT(60) DEF Mapped
<1>1. TakesConnectionEvent("subscribe") /\ addSubscription(e) /\ subscriptionsMap' = subscriptionsMap \cup {Entry(e)}
  BY ZenonT(60) DEF Subscribed, SubscribeToTopic
<1>2. e \in ConnEvent /\ e.type = "subscribe"
  BY <1>1, HeadIsEvent, ZenonT(60)
<1>3. e.conn \in Conn /\ e.sub \in SubId /\ e.destination \in Destination
  BY <1>2, Shapes, ZenonT(60) DEF Aimed
<1>4. Entry(e).conn = e.conn /\ Entry(e).sub = e.sub /\ Entry(e).destination = e.destination
  BY <1>2, EntryShape, ZenonT(60) DEF Aimed
<1>5. ASSUME NEW b \in Channel
      PROVE  Joined(subscriptionsMap', b) = Joined(subscriptionsMap, b) \cup (IF b = ch /\ Joins(e.destination) THEN {pair} ELSE {})
  BY <1>1, <1>4, ZenonT(60) DEF Joined
<1>6. \A b \in Channel : chanMappings[b].subs = Joined(subscriptionsMap, b)
  BY ZenonT(60) DEF Mapped, EndpointFollowsServer, Joined
<1>7. CASE ~Joins(e.destination)
  <2>1. UNCHANGED <<chanMappings, busChannel>>
    BY <1>1, <1>7, ZenonT(60) DEF addSubscription
  <2>2. \A b \in Channel : chanMappings'[b].subs = Joined(subscriptionsMap', b)
    BY <1>5, <1>6, <1>7, <2>1, ZenonT(60)
  <2> QED BY <2>1, <2>2, ZenonT(60) DEF Mapped, EndpointFollowsServer, Joined
<1>8. CASE Joins(e.destination)
  <2>1. ch \in Channel
    BY <1>3, <1>8, EndpointAssumption, ZenonT(60) DEF Joins
  <2>2. PICK new \in Mapping :
          /\ chanMappings' = [chanMappings EXCEPT ![ch] = new]
          /\ new.subs = chanMappings[ch].subs \cup {pair}
          /\ busChannel'[ch] = "endpoint" => new.auto
    <3>1. CASE chanMappings[ch] # NoMapping
      <4> DEFINE new == [chanMappings[ch] EXCEPT !.subs = chanMappings[ch].subs \cup {pair}]
      <4>1. chanMappings[ch] \in Mapping
        BY <1>0, <2>1, ZenonT(60)
      <4>2. chanMappings[ch].subs \cup {pair} \in SUBSET (Conn \X SubId)
        BY <1>3, <4>1, SMTT(60)
      <4>3. new \in Mapping /\ new.subs = chanMappings[ch].subs \cup {pair} /\ new.auto = chanMappings[ch].auto
        BY <4>1, <4>2, ZenonT(60)
      <4>4. chanMappings' = [chanMappings EXCEPT ![ch] = new] /\ busChannel' = busChannel
        BY <1>1, <1>8, <3>1, ZenonT(60) DEF addSubscription
      <4>5. busChannel'[ch] = "endpoint" => chanMappings[ch].auto
        BY <2>1, <4>4, ZenonT(60) DEF Mapped
      <4> HIDE DEF new
      <4> QED BY <4>3, <4>4, <4>5, ZenonT(60)
    <3>2. CASE chanMappings[ch] = NoMapping
      <4> DEFINE q == busChannel[ch] = "none"
                 new == [subs |-> {pair}, hears |-> TRUE, errors |-> e.destination, auto |-> q]
      <4>0. q \in BOOLEAN
        OBVIOUS
      <4>2. /\ chanMappings' = [chanMappings EXCEPT ![ch] = new]
            /\ busChannel' = [busChannel EXCEPT ![ch] = IF @ = "none" THEN "endpoint" ELSE @]
        BY <1>1, <1>8, <3>2, SMTT(60) DEF addSubscription
      <4> HIDE DEF q
      <4>1. new \in Mapping /\ new.subs = {pair} /\ new.auto = q
        <5>1. {pair} \in SUBSET (Conn \X SubId) /\ e.destination \in Destination \cup {NoDestination}
          BY <1>3, SMTT(60)
        <5> HIDE DEF pair
        <5> QED BY <4>0, <5>1, ZenonT(60)
      <4>3. chanMappings[ch].subs = {}
        BY <3>2, SMTT(60) DEF NoMapping
      <4>4. busChannel[ch] # "endpoint"
        BY <2>1, <3>2, ZenonT(60) DEF Mapped, EndpointFollowsServer
      <4>5. busChannel'[ch] = "endpoint" => busChannel[ch] = "none"
        BY <1>0, <2>1, <4>2, <4>4, ZenonT(60)
      <4> HIDE DEF new
      <4>6. busChannel'[ch] = "endpoint" => q
        BY <4>5, ZenonT(60) DEF q
      <4> QED BY <4>1, <4>2, <4>3, <4>6, ZenonT(60)
    <3> QED BY <3>1, <3>2, ZenonT(60)
  <2>3. busChannel' \in [Channel -> {"none", "program", "endpoint"}] /\ \A b \in Channel \ {ch} : busChannel'[b] = busChannel[b]
    BY <1>0, <1>1, <1>8, SMTT(60) DEF addSubscription
  <2>4. /\ chanMappings' \in [Channel -> Mapping] /\ chanMappings'[ch] = new
        /\ \A b \in Channel \ {ch} : chanMappings'[b] = chanMappings[b]
    BY <1>0, <2>1, <2>2, ZenonT(60)
  <2> HIDE DEF ch, pair
  <2>5. \A b \in Channel : chanMappings'[b].subs = Joined(subscriptionsMap', b)
    <3>1. ASSUME NEW b \in Channel, b # ch PROVE chanMappings'[b].subs = Joined(subscriptionsMap', b)
      BY <1>5, <1>6, <2>4, <3>1, ZenonT(60)
    <3>2. chanMappings'[ch].subs = Joined(subscriptionsMap', ch)
      BY <1>5, <1>6, <1>8, <2>1, <2>2, <2>4, ZenonT(60)
    <3> QED BY <3>1, <3>2, ZenonT(60)
  <2>6. new.subs # {} /\ new # NoMapping
    BY <2>2, SMTT(60) DEF NoMapping
  <2>7. \A b \in Channel : chanMappings'[b].subs = {} => chanMappings'[b] = NoMapping
    BY <2>4, <2>6, SMTT(60) DEF Mapped
  <2>8. \A b \in Channel : busChannel'[b] = "endpoint" => chanMappings'[b].auto /\ chanMappings'[b] # NoMapping
    BY <2>2, <2>3, <2>4, <2>6, ZenonT(60) DEF Mapped, EndpointFollowsServer
  <2> QED BY <2>3, <2>4, <2>5, <2>7, <2>8, ZenonT(60) DEF Mapped, EndpointFollowsServer, Joined
<1> QED BY <1>7, <1>8, ZenonT(60)

\* Every step keeps Mapped.
LEMMA MappedKept ==
  ASSUME Types, GoneLeavesNothing, Lag, Mapped, Next
  PROVE  Mapped'
<1>1. CASE UNCHANGED <<chanMappings, busChannel, subscriptionsMap>>
  BY <1>1, ZenonT(60) DEF Mapped, EndpointFollowsServer
<1>2. CASE Subscribed
  BY <1>2, Subscribes, ZenonT(60)
<1>3. CASE Unsubscribed
  <2> DEFINE gone == {Entry(Head(connectionEvents))} \cap subscriptionsMap
  <2>1. /\ removeSubscriptions(gone) /\ subscriptionsMap' = subscriptionsMap \ gone /\ Open
    BY <1>3, ZenonT(60) DEF Unsubscribed, UnsubscribeFromTopic, TakesConnectionEvent, Open
  <2>2. gone \in SUBSET subscriptionsMap
    BY ZenonT(60)
  <2>3. \A e \in gone, f \in subscriptionsMap \ gone : ~(e.conn = f.conn /\ e.sub = f.sub)
    BY <2>1, <2>2, OneEach, ZenonT(60)
  <2> HIDE DEF gone
  <2> QED BY <2>1, <2>2, <2>3, Removed, ZenonT(60)
<1>4. CASE Closed
  <2> DEFINE c == Head(connectionEvents).conn
             gone == {e \in subscriptionsMap : e.conn = c}
  <2>1. removeSubscriptions(gone) /\ subscriptionsMap' = {e \in subscriptionsMap : e.conn # c}
    BY <1>4, ZenonT(60) DEF Closed, ConnectionClosed
  <2>2. gone \in SUBSET subscriptionsMap /\ subscriptionsMap' = subscriptionsMap \ gone
    BY <2>1, ZenonT(60)
  <2>3. \A e \in gone, f \in subscriptionsMap \ gone : ~(e.conn = f.conn /\ e.sub = f.sub)
    BY ZenonT(60)
  <2> HIDE DEF gone
  <2> QED BY <2>1, <2>2, <2>3, Removed, ZenonT(60)
<1>5. ASSUME NEW ch \in Channel, CreateChannel(ch) PROVE Mapped'
  <2>1. UNCHANGED <<chanMappings, subscriptionsMap>> /\ busChannel' = [busChannel EXCEPT ![ch] = "program"]
    BY <1>5, ZenonT(60) DEF CreateChannel, stompVars, serverVars
  <2>2. /\ busChannel' \in [Channel -> {"none", "program", "endpoint"}]
        /\ \A b \in Channel : busChannel'[b] = "endpoint" => busChannel[b] = "endpoint"
    BY <2>1, ZenonT(60) DEF Mapped
  <2> QED BY <2>1, <2>2, ZenonT(60) DEF Mapped, EndpointFollowsServer
<1>6. ASSUME NEW ch \in Channel, DestroyChannel(ch) PROVE Mapped'
  <2> DEFINE Mapping == [subs : SUBSET (Conn \X SubId), hears : BOOLEAN,
                         errors : Destination \cup {NoDestination}, auto : BOOLEAN]
             new == [chanMappings[ch] EXCEPT !.hears = FALSE]
  <2>0. chanMappings \in [Channel -> Mapping] /\ busChannel \in [Channel -> {"none", "program", "endpoint"}]
    BY SMTT(60) DEF Mapped
  <2>1. /\ busChannel' = [busChannel EXCEPT ![ch] = "none"] /\ subscriptionsMap' = subscriptionsMap
        /\ chanMappings' = [chanMappings EXCEPT ![ch] = new]
    BY <1>6, SMTT(60) DEF DestroyChannel, stompVars, serverVars
  <2>a. chanMappings[ch] \in Mapping
    BY <2>0, ZenonT(60)
  <2>b. new \in Mapping /\ new.subs = chanMappings[ch].subs
    BY <2>a, ZenonT(60)
  <2>c. ASSUME chanMappings[ch] = NoMapping PROVE new = NoMapping
    <3>1. ASSUME NEW p \in Mapping, NEW q \in Mapping, p.subs = q.subs, p.hears = q.hears, p.errors = q.errors, p.auto = q.auto
          PROVE  p = q
      BY <3>1, SMTT(60)
    <3>2. new.errors = chanMappings[ch].errors /\ new.auto = chanMappings[ch].auto
      BY <2>a, ZenonT(60)
    <3>3. ~new.hears
      BY <2>a, ZenonT(60)
    <3>4. ~chanMappings[ch].hears
      BY <2>c, SMTT(60) DEF NoMapping
    <3>5. new.hears = chanMappings[ch].hears
      <4>1. new.hears \in BOOLEAN /\ chanMappings[ch].hears \in BOOLEAN
        BY <2>a, <2>b, SMTT(60)
      <4> QED BY <3>3, <3>4, <4>1, ZenonT(60)
    <3>6. new = chanMappings[ch]
      BY <2>a, <2>b, <3>1, <3>2, <3>5, ZenonT(60)
    <3> QED BY <2>c, <3>6, SMTT(60)
  <2>2. /\ new \in Mapping /\ new.subs = chanMappings[ch].subs
        /\ chanMappings[ch] = NoMapping => new = NoMapping
    BY <2>b, <2>c, SMTT(60)
  <2> HIDE DEF new
  <2>3. /\ chanMappings' \in [Channel -> Mapping] /\ chanMappings'[ch] = new
        /\ \A b \in Channel \ {ch} : chanMappings'[b] = chanMappings[b]
    BY <2>0, <2>1, <2>2, ZenonT(60)
  <2>4. /\ busChannel' \in [Channel -> {"none", "program", "endpoint"}]
        /\ busChannel'[ch] = "none" /\ \A b \in Channel \ {ch} : busChannel'[b] = busChannel[b]
    BY <2>0, <2>1, ZenonT(60)
  <2>5. \A b \in Channel : chanMappings'[b].subs = chanMappings[b].subs
    BY <2>2, <2>3, ZenonT(60)
  <2>6. \A b \in Channel : chanMappings'[b].subs = {} => chanMappings'[b] = NoMapping
    BY <2>2, <2>3, SMTT(60) DEF Mapped
  <2>7. \A b \in Channel : busChannel'[b] = "endpoint" => chanMappings'[b].auto /\ chanMappings'[b] # NoMapping
    BY <2>3, <2>4, ZenonT(60) DEF Mapped, EndpointFollowsServer
  <2> QED BY <2>1, <2>3, <2>4, <2>5, <2>6, <2>7, SMTT(60) DEF Mapped, EndpointFollowsServer
<1>7. ASSUME UNCHANGED endpointVars,
             \/ ConnectionStarting \/ ConnectionEstablished \/ NoRequest
             \/ sendFrame \/ sendFrameToClient \/ SendFrameToSubscription
             \/ closeServer \/ CloseNext \/ EmitClosed \/ LoopReturns
             \/ SendStarting \/ Stop \/ SendClose
      PROVE  Mapped'
  <2>1. subscriptionsMap' = subscriptionsMap
    BY <1>7, ZenonT(60) DEF ConnectionStarting, ConnectionEstablished, NoRequest, IncomingMessage, sendFrame, sendFrameToClient,
                SendFrameToSubscription, TakesApiEvent, closeServer, CloseNext, EmitClosed, LoopReturns,
                SendStarting, Stop, SendClose, serverVars
  <2> QED BY <1>1, <1>7, <2>1, ZenonT(60) DEF endpointVars
<1>8. ASSUME NEW c, Running(c) \/ ConnStep(c) PROVE Mapped'
  <2>1. subscriptionsMap' = subscriptionsMap
    BY <1>8, ZenonT(60) DEF Running, ConnStep, Emit, SetConnected, WriteOutFrame, EndRun, Accept, handleConnect, handleSend,
                handleSubscribe, handleUnsubscribe, FailedWrite, EndOfInput, handleDisconnect, sendError, Close, serverVars
  <2> QED BY <1>1, <1>8, <2>1, ZenonT(60) DEF Running, ConnStep, endpointVars
<1>9. CASE bridgeMessage
  BY <1>1, <1>9, ZenonT(60) DEF bridgeMessage, IncomingMessage, serverVars
<1>10. ASSUME NEW ch, Publish(ch) PROVE Mapped'
  BY <1>1, <1>10, ZenonT(60) DEF Publish, stompVars, serverVars
<1>11. ASSUME NEW r, Respond(r) PROVE Mapped'
  BY <1>1, <1>11, ZenonT(60) DEF Respond, stompVars, serverVars
<1>12. ASSUME NEW m, SendMessage(m) PROVE Mapped'
  BY <1>1, <1>12, ZenonT(60) DEF SendMessage, serverVars
<1>13. CASE LoopStep
  BY <1>2, <1>3, <1>4, <1>7, <1>9, <1>13, ZenonT(60) DEF LoopStep
<1> QED BY <1>5, <1>6, <1>7, <1>8, <1>10, <1>11, <1>12, <1>13, ZenonT(60) DEF Next, Step

-----------------------------------------------------------------------------
(***************************************************************************)
(* The invariant, and what follows from it.                                *)
(***************************************************************************)
\* It holds before the server has accepted a connection.
LEMMA InitHolds ==
  ASSUME Init
  PROVE  IInv
<1>0. connectionEvents = << >> /\ Len(connectionEvents) = 0 /\ << >> \in Seq(ConnEvent)
  BY SMTT(60) DEF Init, StompInit
<1>1. Types
  <2>1. loop.at = "idle"
    BY ZenonT(60) DEF Init, StompInit, Idle
  <2>3. subscriptions \in View
    BY ZenonT(60) DEF Init, StompInit, View
  <2>4. run \in [Conn -> Place] /\ \A c \in Conn : run[c].at = "none"
    BY Shapes, ZenonT(60) DEF Init, StompInit
  <2> QED BY <1>0, <2>1, <2>3, <2>4, ZenonT(60) DEF Init, StompInit, Types
<1>2. Starts
  BY <1>0, SMTT(60) DEF Init, StompInit, Starts
<1>3. Endings
  BY <1>0, SMTT(60) DEF Init, StompInit, Endings, Closing
<1>4. GoneLeavesNothing
  BY ZenonT(60) DEF Init, StompInit, GoneLeavesNothing
<1>5. Knows
  BY ZenonT(60) DEF Init, StompInit, Idle, Knows, StoppedMeansClosed
<1>6. Lag
  <2> DEFINE views == [i \in 0..0 |-> subscriptions]
  <2>1. subscriptions \in View
    BY SMTT(60) DEF Init, StompInit, View
  <2>2. views \in [0..0 -> View] /\ views[0] = subscriptions
    BY <2>1, SMTT(60)
  <2> HIDE DEF views
  <2>3. Chain(views, connectionEvents)
    BY <1>0, <2>2, SMTT(60) DEF Chain
  <2>4. Shows(views[0])
    BY <2>2, EndpointAssumption, SMTT(60) DEF Init, StompInit, Shows
  <2>5. \A c \in Conn : Meets(subscriptions, c)
    BY ZenonT(60) DEF Init, StompInit, Meets
  <2>6. Tracks(views, subscriptions)
    BY <1>0, <2>1, <2>2, <2>3, <2>4, <2>5, ZenonT(60) DEF Tracks
  <2> QED BY <2>6, ZenonT(60) DEF Lag
<1>7. Mapped
  <2>1. /\ busChannel \in [Channel -> {"none", "program", "endpoint"}] /\ \A ch \in Channel : busChannel[ch] = "none"
        /\ \A ch \in Channel : chanMappings[ch] = NoMapping
    BY ZenonT(60) DEF Init
  <2>2. NoMapping \in [subs : SUBSET (Conn \X SubId), hears : BOOLEAN,
                        errors : Destination \cup {NoDestination}, auto : BOOLEAN] /\ NoMapping.subs = {}
    BY ZenonT(60) DEF NoMapping
  <2>3. subscriptionsMap = {}
    BY ZenonT(60) DEF Init, StompInit
  <2> QED BY <2>1, <2>2, <2>3, ZenonT(60) DEF Init, Mapped, EndpointFollowsServer
<1> QED BY <1>1, <1>2, <1>3, <1>4, <1>5, <1>6, <1>7, ZenonT(60) DEF IInv

\* Every step keeps it.
LEMMA NextKeeps ==
  ASSUME IInv, [Next]_vars
  PROVE  IInv'
<1>1. CASE Next
  BY <1>1, TypesKept, StartsKept, EndingsKept, GoneKept, KnowsKept, LagKept, MappedKept, ZenonT(60) DEF IInv
<1>2. CASE UNCHANGED vars
  <2>1. UNCHANGED <<stompVars, endpointVars>> /\ IInv
    BY <1>2, ZenonT(60) DEF vars
  <2>2. UNCHANGED <<state, severed, run, subscriptions, accepting, connectionEvents, connectionsMap, subscriptionsMap,
                    started, ended, overtaken, loop, use, chanMappings, busChannel>>
    BY <2>1, ZenonT(60) DEF stompVars, endpointVars, connVars, serverVars
  <2>3. Types'
    BY <2>1, <2>2, ZenonT(60) DEF IInv, Types
  <2>4. Starts'
    BY <2>1, <2>2, ZenonT(60) DEF IInv, Starts
  <2>5. Endings'
    BY <2>1, <2>2, ZenonT(60) DEF IInv, Endings, Closing, Open
  <2>6. GoneLeavesNothing' /\ Knows'
    BY <2>1, <2>2, ZenonT(60) DEF IInv, GoneLeavesNothing, Knows, Open, StoppedMeansClosed
  <2>7. Lag'
    <3>1. ASSUME NEW views, NEW v, Tracks(views, v) PROVE Tracks(views, v)'
      <4>1. \A c \in Conn : Meets(v, c) => Meets(v, c)'
        BY <2>2, ZenonT(60) DEF Meets
      <4>2. Shows(views[0]) => Shows(views[0])'
        BY <2>2, ZenonT(60) DEF Shows
      <4> QED BY <2>2, <3>1, <4>1, <4>2, ZenonT(60) DEF Tracks
    <3> QED BY <2>1, <2>2, <3>1, ZenonT(60) DEF IInv, Lag, Open
  <2>8. Mapped'
    BY <2>1, <2>2, ZenonT(60) DEF IInv, Mapped, EndpointFollowsServer
  <2> QED BY <2>3, <2>4, <2>5, <2>6, <2>7, <2>8, ZenonT(60) DEF IInv
<1> QED BY <1>1, <1>2, ZenonT(60)

\* The inductive invariant holds throughout.
THEOREM Invariant == Spec => []IInv
BY InitHolds, NextKeeps, PTL DEF Spec

(***************************************************************************)
(* However subscriptions come and go, and whenever connections are closed, *)
(* the endpoint's mappings are those of the server's subscriptions, and a  *)
(* channel that the endpoint created exists only while it is joined        *)
(* (fabric_endpoint.go:136, 229, server.go:262).                           *)
(***************************************************************************)
THEOREM MappingsFollow == Spec => []EndpointFollowsServer
<1>1. IInv => EndpointFollowsServer
  BY ZenonT(60) DEF IInv, Mapped
<1> QED BY <1>1, Invariant, PTL

(***************************************************************************)
(* A connection whose ConnectionClosed event was handled leaves nothing in *)
(* the server, but for the entry of a ConnectionStarting event that came   *)
(* afterwards (server.go:199, 248).                                        *)
(***************************************************************************)
THEOREM ClosedLeavesNothing == Spec => []GoneLeavesNothing
<1>1. IInv => GoneLeavesNothing
  BY ZenonT(60) DEF IInv
<1> QED BY <1>1, Invariant, PTL

(***************************************************************************)
(* The event loop returns with every connection closed whose               *)
(* ConnectionStarting event it has handled (server.go:228).                *)
(***************************************************************************)
THEOREM StopCloses == Spec => []StoppedMeansClosed
<1>1. IInv => StoppedMeansClosed
  BY ZenonT(60) DEF IInv, Knows
<1> QED BY <1>1, Invariant, PTL
===========================================================================
