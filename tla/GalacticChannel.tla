-------------------------- MODULE GalacticChannel --------------------------
(***************************************************************************)
(* Galactic channels: channels of the bus mapped to broker destinations    *)
(* (bus/channel_manager.go:127-204, bus/channel.go:139-218) over a         *)
(* connection (Bridge). Each channel has one goroutine that marks it       *)
(* galactic and local; the channels share the connection, and so its       *)
(* subscriptions.                                                          *)
(***************************************************************************)
EXTENDS Bridge

CONSTANTS
  Channel,
  MaxEntry  \* bound: entries of a channel's slice, and goroutines that listen to one of them

ASSUME GalacticAssumption == IsFiniteSet(Channel) /\ MaxSub \in Nat

VARIABLES
  brokerSubs,  \* the subscription objects in a channel's slice
  listeners,   \* how many goroutines of a channel listen to a subscription object
  mark,        \* where the goroutine that marks a channel is
  \* What happened so far.
  causes       \* "reused": Subscribe returned an object made before; "raced": two made entries
               \* for one destination; "many": a channel with several entries was marked local;
               \* "map": the client's map was written while the goroutine ranges over it;
               \* "late": a channel was marked local after Disconnect

galacticVars == <<brokerSubs, listeners, mark, causes>>
vars == <<bridgeVars, galacticVars>>

Idle == [at |-> "idle"]

Init ==
  /\ BridgeInit
  /\ brokerSubs = [ch \in Channel |-> << >>]
  /\ listeners = [ch \in Channel |-> [s \in 1 .. MaxSub |-> 0]]
  /\ mark = [ch \in Channel |-> Idle]
  /\ causes = {}

Entries(ch) == {brokerSubs[ch][i] : i \in DOMAIN brokerSubs[ch]}

\* A subscription over TCP does not know its destination, so this is never true of one.
isBrokerSubscribedToDestination(ch, d) == useWs /\ \E s \in Entries(ch) : destination[s] = d

MarkChannelAsGalactic(ch, d) ==
  /\ mark[ch] = Idle
  /\ connected \notin {"new", "connecting"}
  /\ Existing(d) # 0 \/ nsubs + Cardinality({c \in Channel : mark[c].at \in {"subscribe", "create"}}) < MaxSub
  /\ Len(brokerSubs[ch]) < MaxEntry /\ \A s \in 1 .. MaxSub : listeners[ch][s] < MaxEntry
  /\ ~isBrokerSubscribedToDestination(ch, d)
  /\ mark' = [mark EXCEPT ![ch] = [at |-> "subscribe", to |-> d]]
  /\ UNCHANGED <<bridgeVars, brokerSubs, listeners, causes>>

\* The map is read and written under connLock, but not in one go.
Subscribe(ch) ==
  LET s == Existing(mark[ch].to) IN
  /\ mark[ch].at = "subscribe"
  /\ mark' = [mark EXCEPT ![ch] = IF s # 0 THEN [at |-> "add", sub |-> s] ELSE [at |-> "create", to |-> mark[ch].to]]
  /\ causes' = IF s # 0 THEN causes \cup {"reused"} ELSE causes
  /\ UNCHANGED <<bridgeVars, brokerSubs, listeners>>

SubscribeNew(ch) ==
  /\ mark[ch].at = "create"
  /\ subscribeWs(mark[ch].to) \/ subscribeTCP(mark[ch].to)
  /\ mark' = [mark EXCEPT ![ch] = [at |-> "add", sub |-> nsubs + 1]]
  /\ causes' = causes \cup (IF Existing(mark[ch].to) # 0 THEN {"raced"} ELSE {})
                      \cup (IF WritesRangedMap THEN {"map"} ELSE {})
  /\ UNCHANGED <<brokerSubs, listeners>>

SubscribeFails(ch) ==
  /\ mark[ch].at = "create" /\ connected = "no"
  /\ mark' = [mark EXCEPT ![ch] = Idle]
  /\ UNCHANGED <<bridgeVars, brokerSubs, listeners, causes>>

\* Mutant: only the first subscription of a channel is listened to.
addBrokerSubscription_First(ch) ==
  /\ mark[ch].at = "add"
  /\ brokerSubs' = [brokerSubs EXCEPT ![ch] = Append(@, mark[ch].sub)]
  /\ listeners' = IF brokerSubs[ch] = << >> THEN [listeners EXCEPT ![ch][mark[ch].sub] = @ + 1] ELSE listeners
  /\ mark' = [mark EXCEPT ![ch] = Idle]
  /\ UNCHANGED <<bridgeVars, causes>>

addBrokerSubscription(ch) ==
  /\ mark[ch].at = "add"
  /\ brokerSubs' = [brokerSubs EXCEPT ![ch] = Append(@, mark[ch].sub)]
  /\ listeners' = [listeners EXCEPT ![ch][mark[ch].sub] = @ + 1]
  /\ mark' = [mark EXCEPT ![ch] = Idle]
  /\ UNCHANGED <<bridgeVars, causes>>

\* listenToBrokerSubscription.
Receive(ch, s) ==
  /\ listeners[ch][s] > 0
  /\ Taken(s)
  /\ UNCHANGED galacticVars

StopListening(ch, s) ==
  /\ listeners[ch][s] > 0 /\ s \notin open
  /\ listeners' = [listeners EXCEPT ![ch][s] = @ - 1]
  /\ UNCHANGED <<bridgeVars, brokerSubs, mark, causes>>

MarkChannelAsLocal(ch) ==
  /\ mark[ch] = Idle
  /\ brokerSubs[ch] # << >>
  /\ mark' = [mark EXCEPT ![ch] = [at |-> "unsubscribe"]]
  /\ causes' = IF Len(brokerSubs[ch]) > 1 THEN causes \cup {"many"} ELSE causes
  /\ UNCHANGED <<bridgeVars, brokerSubs, listeners>>

\* Mutant: the entry stays.
removeBrokerSubscription_Keeps(ch) == UNCHANGED <<brokerSubs, panicked>>

(***************************************************************************)
(* The first entry is removed. The loop shortens the slice it ranges over: *)
(* the entry is swapped to the end of the old slice, met there again, and  *)
(* its index is beyond the end of the new one.                             *)
(***************************************************************************)
removeBrokerSubscription(ch) ==
  /\ panicked' = (Len(brokerSubs[ch]) > 1)
  /\ brokerSubs' = [brokerSubs EXCEPT ![ch] = Tail(@)]

\* handleLocalChannelEvent. A subscription that is closed already ends the process.
Unsubscribe(ch) ==
  LET s == brokerSubs[ch][1] IN
  /\ mark[ch].at = "unsubscribe"
  /\ UnsubscribeObject(s)
  /\ IF s \in open /\ ~NilWriter THEN removeBrokerSubscription(ch) ELSE panicked' = TRUE /\ UNCHANGED brokerSubs
  /\ mark' = [mark EXCEPT ![ch] = Idle]
  /\ causes' = IF Late THEN causes \cup {"late"} ELSE causes
  /\ UNCHANGED <<useWs, connected, nsubs, destination, subscriptions, reading, frames, listeners>>

Ended == panicked /\ UNCHANGED vars

\* The steps of a call that has begun.
Marking(ch) ==
  /\ ~panicked
  /\ Subscribe(ch) \/ SubscribeNew(ch) \/ SubscribeFails(ch) \/ addBrokerSubscription(ch) \/ Unsubscribe(ch)

Listening == ~panicked /\ \E ch \in Channel, s \in 1 .. nsubs : Receive(ch, s) \/ StopListening(ch, s)

Reading == ~panicked /\ TakeDisconnect /\ UNCHANGED galacticVars

Next ==
  \/ \E ch \in Channel : Marking(ch)
  \/ Listening \/ Reading
  \/ /\ ~panicked
     /\ \/ \E ch \in Channel : MarkChannelAsLocal(ch) \/ \E d \in Destination : MarkChannelAsGalactic(ch, d)
        \/ /\ \/ \E s \in open : MessageFrame(s) \/ listenTCPFrames(s)
              \/ \E d \in Destination : ErrorFrame(d)
              \/ connectTCP \/ connectWs \/ ConnectedFrame \/ Disconnect
           /\ UNCHANGED galacticVars
  \/ Ended

Spec == Init /\ [][Next]_vars

\* Calls that have begun and the goroutines go on; so does the choice of a select.
FairSpec == Spec /\ WF_vars(Listening) /\ WF_vars(Reading) /\ \A ch \in Channel : WF_vars(Marking(ch))

-----------------------------------------------------------------------------
(***************************************************************************)
(* Every entry of a channel's slice is served: subscribed, listened to,    *)
(* and over a WebSocket the one the client hands messages to               *)
(* (channel_manager.go:163). It takes two users of one destination, at     *)
(* once or one after the other, to get another entry: connection keeps     *)
(* what was unsubscribed and returns it again (connection.go:48).          *)
(***************************************************************************)
MappedIsServed ==
  causes \cap {"reused", "raced"} = {} /\ ~panicked =>
    \A ch \in Channel : \A s \in Entries(ch) :
      s \in open /\ listeners[ch][s] > 0 /\ (useWs => subscriptions[destination[s]] = s)

(***************************************************************************)
(* The process ends in MarkChannelAsLocal only if the channel has several  *)
(* subscriptions (channel.go:208), or if a subscription was handed out     *)
(* twice, and so is closed twice (subscription.go:53), or over a WebSocket *)
(* that Disconnect has closed (bridge_client.go:187). Elsewhere only a new *)
(* subscription during a delivery ends it (bridge_client.go:227).          *)
(***************************************************************************)
PanicNeedsReuse == panicked => causes \cap {"reused", "many", "late", "map"} # {}

(***************************************************************************)
(* A message waiting for a listener is taken, and Disconnect returns,      *)
(* although deliveries, Unsubscribe and Disconnect wait for each other,    *)
(* unless an ERROR frame has stopped the client (bridge_client.go:119,     *)
(* 211, bridge_client_subscription.go:25).                                 *)
(***************************************************************************)
ClientGoesOn ==
  /\ \A s \in 1 .. MaxSub : s \in delivering ~> (s \notin delivering \/ panicked)
  /\ connected = "leaving" ~> (connected = "no" \/ reading = "stuck" \/ panicked)
=============================================================================
