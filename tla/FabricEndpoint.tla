-------------------------- MODULE FabricEndpoint --------------------------
(***************************************************************************)
(* The fabric endpoint (bus/fabric_endpoint.go) on top of the STOMP        *)
(* server: its callbacks run in the server's event loop and join STOMP     *)
(* destinations to bus channels. A topic and a user queue of one name are  *)
(* the same channel. The goroutine of a message on a joined channel waits  *)
(* for room in apiEvents.                                                  *)
(***************************************************************************)
EXTENDS StompServer

CONSTANTS
  Channel, NoChannel, Protected,
  ChannelOf,     \* the channel of a destination, by its prefix
  Topic,         \* the topic destination of a channel
  Queue,         \* the user queue of a channel
  Uses           \* what clients and program may do in a run: the connections, destinations and calls
                 \* they use, and the number of requests and messages on the bus

ASSUME EndpointAssumption ==
  /\ NoDestination \notin Destination
  /\ NoChannel \notin Channel /\ ChannelOf \in [Destination -> Channel \cup {NoChannel}]
  /\ \A u \in Uses : u.conns \subseteq Conn /\ u.destinations \subseteq Destination

VARIABLES
  use,           \* one of Uses
  chanMappings,  \* for each channel its subscriptions, whether its handler is on the channel there is,
                 \* where it sends errors, and autoCreated
  busChannel,    \* who created the channel of a name: "program", "endpoint", or "none" if there is none
  senders,       \* messages whose goroutine waits to send an API event
  requests,      \* requests of clients given to the bus and not answered
  messages       \* the number of messages on the bus

endpointVars == <<use, chanMappings, busChannel, senders, requests, messages>>
vars == <<stompVars, endpointVars>>

NoMapping == [subs |-> {}, hears |-> FALSE, errors |-> NoDestination, auto |-> FALSE]

Init ==
  /\ StompInit /\ use \in Uses
  /\ chanMappings = [ch \in Channel |-> NoMapping]
  /\ busChannel = [ch \in Channel |-> "none"]
  /\ senders = {} /\ requests = {} /\ messages = 0

Joins(d) == ChannelOf[d] # NoChannel /\ ChannelOf[d] \notin Protected

addSubscription(e) ==
  LET ch == ChannelOf[e.destination]
      entry == <<e.conn, e.sub>> IN
  IF ~Joins(e.destination) THEN UNCHANGED <<chanMappings, busChannel>>
  ELSE IF chanMappings[ch] # NoMapping
  THEN /\ chanMappings' = [chanMappings EXCEPT ![ch].subs = @ \cup {entry}]
       /\ UNCHANGED busChannel
  ELSE /\ chanMappings' = [chanMappings EXCEPT ![ch] =
             [subs |-> {entry}, hears |-> TRUE, errors |-> e.destination, auto |-> busChannel[ch] = "none"]]
       /\ busChannel' = [busChannel EXCEPT ![ch] = IF @ = "none" THEN "endpoint" ELSE @]

\* Mutant: the mapping goes with the last subscription, the channel it created stays.
removeSubscriptions_KeepsChannel(gone) ==
  LET left(ch) == chanMappings[ch].subs \ {<<e.conn, e.sub>> : e \in {e \in gone : ChannelOf[e.destination] = ch}} IN
  /\ chanMappings' = [ch \in Channel |->
       IF left(ch) = {} THEN NoMapping ELSE [chanMappings[ch] EXCEPT !.subs = left(ch)]]
  /\ UNCHANGED busChannel

\* removeSubscription for each of a set of entries of the server.
removeSubscriptions(gone) ==
  LET left(ch) == chanMappings[ch].subs \ {<<e.conn, e.sub>> : e \in {e \in gone : ChannelOf[e.destination] = ch}}
      last(ch) == chanMappings[ch] # NoMapping /\ left(ch) = {} IN
  /\ chanMappings' = [ch \in Channel |->
       IF left(ch) = {} THEN NoMapping ELSE [chanMappings[ch] EXCEPT !.subs = left(ch)]]
  /\ busChannel' = [ch \in Channel |-> IF last(ch) /\ chanMappings[ch].auto THEN "none" ELSE busChannel[ch]]

Subscribed == SubscribeToTopic /\ addSubscription(Head(connectionEvents)) /\ UNCHANGED <<senders, requests, messages>>

\* The callback is called if the server has the entry.
Unsubscribed ==
  /\ UnsubscribeFromTopic
  /\ removeSubscriptions({Entry(Head(connectionEvents))} \cap subscriptionsMap)
  /\ UNCHANGED <<senders, requests, messages>>

Closed ==
  /\ ConnectionClosed
  /\ removeSubscriptions({e \in subscriptionsMap : e.conn = Head(connectionEvents).conn})
  /\ UNCHANGED <<senders, requests, messages>>

\* IncomingMessage: a request to a channel, private or not.
bridgeMessage ==
  /\ IncomingMessage
  /\ messages < use.messages
  /\ messages' = messages + 1
  /\ \E ch \in Channel, private \in BOOLEAN :
       requests' = requests \cup {[n |-> messages + 1, channel |-> ch,
                                   conn |-> Head(connectionEvents).conn, private |-> private]}
  /\ UNCHANGED <<chanMappings, busChannel, senders>>

\* A message that is no request: another destination, or not in the format of one.
NoRequest == IncomingMessage

\* The handler on a channel sends a message on to its topic, or to the client it is for.
Heard(ch, apiEvent) ==
  senders' = IF chanMappings[ch].hears THEN senders \cup {apiEvent} ELSE senders

\* A message or an error; errors go to the destination of the first subscription.
Publish(ch) ==
  /\ busChannel[ch] # "none" /\ messages < use.messages
  /\ messages' = messages + 1
  /\ \E d \in {Topic[ch], chanMappings[ch].errors} :
       Heard(ch, [n |-> messages + 1, type |-> "message", destination |-> d])
  /\ UNCHANGED <<stompVars, chanMappings, busChannel, requests>>

Respond(r) ==
  /\ requests' = requests \ {r}
  /\ Heard(r.channel,
       IF r.private THEN [n |-> r.n, type |-> "private", destination |-> Queue[r.channel], conn |-> r.conn]
       ELSE [n |-> r.n, type |-> "message", destination |-> Topic[r.channel]])
  /\ UNCHANGED <<stompVars, chanMappings, busChannel, messages>>

SendMessage(m) ==
  /\ Len(apiEvents) < ApiCap
  /\ apiEvents' = Append(apiEvents, m)
  /\ senders' = senders \ {m}
  /\ UNCHANGED <<connVars, outFrames, accepting, running, connectionEvents, serverVars, loop,
                 chanMappings, busChannel, requests, messages>>

\* The program's own CreateChannel and DestroyChannel.
CreateChannel(ch) ==
  /\ busChannel[ch] = "none"
  /\ busChannel' = [busChannel EXCEPT ![ch] = "program"]
  /\ UNCHANGED <<stompVars, chanMappings, senders, requests, messages>>

\* The handler of a mapping stays on the object that is gone.
DestroyChannel(ch) ==
  /\ busChannel[ch] # "none"
  /\ busChannel' = [busChannel EXCEPT ![ch] = "none"]
  /\ chanMappings' = [chanMappings EXCEPT ![ch].hears = FALSE]
  /\ UNCHANGED <<stompVars, senders, requests, messages>>

Calls(call) == call \in use.calls

ConnStep(c) ==
  /\ \/ Accept(c) \/ handleConnect(c)
     \/ Calls("send") /\ handleSend(c)
     \/ \E s \in SubId, d \in use.destinations : handleSubscribe(c, s, d)
     \/ Calls("unsubscribe") /\ \E s \in SubId : handleUnsubscribe(c, s)
     \/ FailedWrite(c) \/ EndOfInput(c) \/ handleDisconnect(c) \/ sendError(c)
  /\ UNCHANGED endpointVars

Running(c) ==
  /\ Emit(c) \/ SetConnected(c) \/ WriteOutFrame(c) \/ EndRun(c)
  /\ UNCHANGED endpointVars

LoopStep ==
  \/ /\ \/ ConnectionStarting \/ ConnectionEstablished \/ NoRequest
        \/ sendFrame \/ sendFrameToClient \/ SendFrameToSubscription
        \/ closeServer \/ CloseNext \/ EmitClosed \/ LoopReturns
     /\ UNCHANGED endpointVars
  \/ Subscribed \/ Unsubscribed \/ Closed \/ bridgeMessage

Step ==
  \/ LoopStep
  \/ SendStarting /\ UNCHANGED endpointVars
  \/ \E c \in use.conns : Running(c) \/ ConnStep(c)
  \/ Calls("stop") /\ (Stop \/ SendClose) /\ UNCHANGED endpointVars
  \/ \E ch \in Channel : Publish(ch) \/ (Calls("channels") /\ (CreateChannel(ch) \/ DestroyChannel(ch)))
  \/ \E r \in requests : Respond(r)
  \/ \E m \in senders : SendMessage(m)

Next == Step /\ UNCHANGED use

Spec == Init /\ [][Next]_vars

\* The event loop and the goroutines of connections go on; a write ends.
FairSpec ==
  Spec /\ WF_vars(LoopStep /\ UNCHANGED use) /\ \A c \in Conn : WF_vars(Running(c))

-----------------------------------------------------------------------------
(***************************************************************************)
(* The endpoint's mappings follow the server's subscriptions: a channel is *)
(* joined exactly by the subscriptions to its topic and its queue, however *)
(* they came and went; a channel that the endpoint created exists only     *)
(* while it is joined (fabric_endpoint.go:136, 229, server.go:262).        *)
(***************************************************************************)
EndpointFollowsServer ==
  \A ch \in Channel :
    /\ chanMappings[ch].subs =
         {<<e.conn, e.sub>> : e \in {e \in subscriptionsMap : ChannelOf[e.destination] = ch /\ Joins(e.destination)}}
    /\ busChannel[ch] = "endpoint" => chanMappings[ch] # NoMapping

(***************************************************************************)
(* A connection that has been closed leaves no subscription behind, and no *)
(* entry in connectionsMap unless ConnectionStarting was handled after     *)
(* ConnectionClosed: the accepting goroutine sends it when the connection  *)
(* already runs (server.go:199, 248).                                      *)
(***************************************************************************)
GoneLeavesNothing ==
  \A c \in ended :
    /\ \A e \in subscriptionsMap : e.conn # c
    /\ c \in connectionsMap => c \in overtaken

(***************************************************************************)
(* When the event loop has returned, every connection it knew of is closed *)
(* for good, although handleConnect may set the state to connected         *)
(* afterwards. One whose ConnectionStarting event the loop never took      *)
(* stays open (server.go:228 "close all open connections",                 *)
(* stomp_connection.go:250).                                               *)
(***************************************************************************)
StoppedMeansClosed ==
  loop.at = "stopped" => started \subseteq severed

\* The loop waits for ever: a full queue of a connection that has ended or that waits for the loop.
Wedged ==
  \/ /\ loop.at = "sending" /\ outFrames[loop.next.conn] = OutCap
     /\ LET r == run[loop.next.conn] IN r.at = "ended" \/ (r.at = "emit" /\ Len(connectionEvents) = EventCap)
  \/ loop.at \in {"closing", "emitting"} /\ Len(connectionEvents) = EventCap

(***************************************************************************)
(* The event loop finishes what it is doing, except where it waits for a   *)
(* connection that ended with a full queue or itself waits for the loop,   *)
(* or sends, when closing, to its own full queue (server.go:230, 332,      *)
(* stomp_connection.go:77, 85).                                            *)
(***************************************************************************)
LoopGoesOn == loop.at \in {"sending", "closing", "emitting", "closed"} ~> (loop.at \in {"idle", "stopped"} \/ Wedged)
=============================================================================
