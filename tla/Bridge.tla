------------------------------- MODULE Bridge -------------------------------
(***************************************************************************)
(* A connection to a message broker (bridge/): its subscriptions, and how  *)
(* frames from the broker get to them. Over a WebSocket one goroutine      *)
(* (handleIncomingSTOMPFrames) hands every message over itself, holding    *)
(* the read lock of the subscription until somebody takes the message.     *)
(* Over TCP the STOMP library has a channel and listenTCPFrames a          *)
(* goroutine for each subscription.                                        *)
(*                                                                         *)
(* GalacticChannel says who subscribes. The broker, the socket and the     *)
(* STOMP library are outside; a frame may come whenever they are connected.*)
(***************************************************************************)
EXTENDS Integers, Sequences, FiniteSets

CONSTANTS
  Destination,
  MaxSub, MaxFrame  \* bounds: subscriptions made, and frames from the broker

VARIABLES
  useWs,
  connected,     \* "new", "connecting" while Connect waits for CONNECTED, "yes",
                 \* "leaving" while Disconnect waits for the goroutine, "no"
  nsubs,         \* the number of subscription objects
  destination,   \* the destination of a subscription object
  open,          \* the objects that have not been unsubscribed; then the Go channel is closed
  subscriptions, \* connection.subscriptions, and over a WebSocket those of the client; 0 is no entry
  delivering,    \* the objects for which a message waits to be taken
  reading,       \* handleIncomingSTOMPFrames: "no", "yes", "stuck" for ever, or "ended"
  frames,        \* the number of frames so far
  broken,        \* a write to the closed WebSocket has failed
  panicked       \* the process has ended

bridgeVars == <<useWs, connected, nsubs, destination, open, subscriptions, delivering, reading,
                frames, broken, panicked>>

BridgeInit ==
  /\ useWs \in BOOLEAN
  /\ connected = "new" /\ reading = "no"
  /\ nsubs = 0 /\ destination = << >> /\ open = {}
  /\ subscriptions = [d \in Destination |-> 0]
  /\ delivering = {} /\ frames = 0 /\ broken = FALSE /\ panicked = FALSE

\* Over TCP the library waits for CONNECTED itself.
connectTCP ==
  /\ ~useWs /\ connected = "new"
  /\ connected' = "yes"
  /\ UNCHANGED <<useWs, broken, nsubs, destination, open, subscriptions, delivering, reading, frames, panicked>>

\* Connect of the client, after Dial: the goroutines start, and CONNECT is sent.
Connect == connected' = "connecting" /\ reading' = "yes"

\* The connection is made when Connect returns; one that fails changes nothing.
connectWs ==
  /\ useWs /\ connected = "new"
  /\ Connect
  /\ UNCHANGED <<useWs, broken, nsubs, destination, open, subscriptions, delivering, frames, panicked>>

\* The CONNECTED frame: the goroutine hands it to Connect, which returns.
ConnectedFrame ==
  /\ connected = "connecting" /\ reading = "yes"
  /\ connected' = "yes"
  /\ UNCHANGED <<useWs, broken, nsubs, destination, open, subscriptions, delivering, reading, frames, panicked>>

\* A message from the broker waits for somebody to take it.
Deliver(s) ==
  /\ frames < MaxFrame /\ connected # "no"
  /\ s \in open
  /\ frames' = frames + 1
  /\ delivering' = delivering \cup {s}
  /\ UNCHANGED <<useWs, broken, connected, nsubs, destination, open, subscriptions, reading, panicked>>

\* A MESSAGE frame. A subscription that another has replaced in the client's map gets none.
MessageFrame(s) ==
  /\ useWs /\ reading = "yes" /\ delivering = {}
  /\ subscriptions[destination[s]] = s
  /\ Deliver(s)

\* Over TCP each subscription has a goroutine with one message at a time.
listenTCPFrames(s) ==
  /\ ~useWs /\ s \notin delivering
  /\ Deliver(s)

\* An ERROR frame for a destination that has an entry: its channel E is nil, and the send never ends.
ErrorFrame(d) ==
  /\ useWs /\ reading = "yes" /\ delivering = {}
  /\ frames < MaxFrame /\ connected # "no"
  /\ subscriptions[d] # 0
  /\ frames' = frames + 1
  /\ reading' = "stuck"
  /\ UNCHANGED <<useWs, broken, connected, nsubs, destination, open, subscriptions, delivering, panicked>>

\* Somebody takes the message that waits.
Taken(s) ==
  /\ s \in delivering
  /\ delivering' = delivering \ {s}
  /\ UNCHANGED <<useWs, broken, connected, nsubs, destination, open, subscriptions, reading, frames, panicked>>

\* connection.Subscribe, first part: the entry there is, subscribed or not.
Existing(d) == subscriptions[d]

\* The goroutine ranges over the client's map without a lock, also while it waits in a delivery.
WritesRangedMap == useWs /\ delivering # {}

\* A new object takes the entry of the connection, whether or not there is one by now.
NewSubscription(d) ==
  /\ nsubs' = nsubs + 1
  /\ destination' = Append(destination, d)
  /\ open' = open \cup {nsubs + 1}
  /\ subscriptions' = [subscriptions EXCEPT ![d] = nsubs + 1]
  /\ UNCHANGED <<useWs, broken, connected, delivering, reading, frames>>

\* Subscribe of the client also writes the client's map. The runtime may notice that the
\* map is ranged over and end the process.
ClientSubscribe == panicked' \in {FALSE, WritesRangedMap}

subscribeWs(d) == useWs /\ connected # "no" /\ NewSubscription(d) /\ ClientSubscribe

subscribeTCP(d) == ~useWs /\ connected # "no" /\ NewSubscription(d) /\ UNCHANGED panicked

(***************************************************************************)
(* SendFrame. A write to the WebSocket that Disconnect has closed fails    *)
(* unnoticed; after that the library has no writer to give, and its nil is *)
(* used.                                                                   *)
(***************************************************************************)
Late == useWs /\ connected = "no"
NilWriter == Late /\ broken
SendFrame == broken' = (broken \/ Late)

\* Unsubscribe waits for the lock of the subscription, which a delivery holds over a WebSocket.
CanUnsubscribe(s) == useWs => s \notin delivering

\* Unsubscribe: close of a closed Go channel ends the process; over TCP, where nobody waits
\* for the broker, a message under way is lost.
UnsubscribeObject(s) ==
  /\ CanUnsubscribe(s)
  /\ SendFrame
  /\ open' = open \ {s} /\ delivering' = delivering \ {s}

\* Disconnect. The Go channels of the subscriptions stay as they are.
Disconnect ==
  /\ connected = "yes"
  /\ connected' = IF useWs THEN "leaving" ELSE "no"
  /\ UNCHANGED <<useWs, broken, nsubs, destination, open, subscriptions, delivering, reading, frames, panicked>>

\* Mutant: the goroutine ends and Disconnect goes on waiting.
TakeDisconnect_NoAnswer ==
  /\ connected = "leaving"
  /\ reading = "yes" /\ delivering = {}
  /\ reading' = "ended"
  /\ UNCHANGED <<useWs, broken, connected, nsubs, destination, open, subscriptions, delivering, frames, panicked>>

\* cleanUpConnection forgets the client.
cleanUpConnection == connected' = "no"

\* The goroutine takes what Disconnect of the client sends it, and ends.
TakeDisconnect ==
  /\ connected = "leaving"
  /\ reading = "yes" /\ delivering = {}
  /\ cleanUpConnection /\ reading' = "ended"
  /\ UNCHANGED <<useWs, broken, nsubs, destination, open, subscriptions, delivering, frames, panicked>>
=============================================================================
