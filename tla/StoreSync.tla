----------------------------- MODULE StoreSync -----------------------------
(***************************************************************************)
(* A store kept in step with galactic stores in other processes: the       *)
(* server's store (bus/store.go), the sync service that serves it          *)
(* (bus/store_sync_service.go), the clients' galactic stores               *)
(* (bus/store.go:121) and the monitor whose events open and close a        *)
(* client's sync channel (bus/eventbus.go:94).                             *)
(*                                                                         *)
(* Requests and responses pass a goroutine for every handler on their way, *)
(* so each kind is a set of messages taken in any order. There is one      *)
(* store name; a store destroyed and created again is another object.      *)
(***************************************************************************)
EXTENDS Integers, FiniteSets

CONSTANTS
  Client,        \* the processes with a galactic store, one sync channel each
  Id, Value, NoValue,
  Bounds         \* what a run may use: clients, calls on stores, and numbers of stores,
                 \* versions, requests, subscriptions of a client, and monitor listeners

ASSUME SyncAssumption == \A b \in Bounds : b.client \subseteq Client /\ b.store \in Nat \ {0}

VARIABLES
  bound,        \* the bounds of this run
  stores,       \* the server's store objects
  current,      \* the object that the store's name maps to, 0 if none
  created,      \* the number of store objects
  changes,      \* changes of a store not yet passed to the listener
  readers,      \* functions given to WhenReady by openStore
  syncClients,  \* the number of the client entry of a sync channel, 0 if none
  openStores,   \* the client entries that have the store open
  listener,     \* the entry of syncStoreListeners: its store object and client channels
  channel,      \* the number of the sync channel on the server, 0 if it does not exist
  subscriptions, \* the number of sync channels created for a client
  listening,    \* the client entry that listens to requests on that channel
  destroyed,    \* ChannelDestroyed events not yet handled
  loop,         \* the event loop of the STOMP server: where in a subscription, and whose
  writer,       \* AddMonitorEventListener waits for the lock of the monitor
  listeners,    \* the number of listeners added
  requests, sent, \* requests under way, and their number so far
  handled,      \* requests whose handler has looked up the store
  responses,    \* responses under way
  replica,      \* the clients' galactic stores
  \* What happened so far.
  seen,         \* the newest response a replica has applied
  stale,        \* clients that applied a response older than another before
  late,         \* openStore went on for a client entry already closed
  mixed,        \* clients for which openStore went on with an older store object than the listener's
  untold        \* store objects populated after they were ready or changed

server == <<stores, current, created, changes, untold>>
service == <<readers, syncClients, openStores, listener, handled, late, mixed>>
monitor == <<channel, subscriptions, listening, destroyed, loop, writer, listeners>>
clients == <<replica, seen, stale, requests, sent>>
vars == <<bound, server, service, monitor, clients, responses>>

Empty == [id \in Id |-> NoValue]
NewStore == [items |-> Empty, version |-> 1, ready |-> FALSE]
NoListener == [store |-> 0, channels |-> {}]
Closed == [at |-> "closed", items |-> Empty, version |-> 1]
Unseen == [store |-> 0, version |-> 0]

Init ==
  /\ bound \in Bounds
  /\ stores = [s \in 1 .. bound.store |-> NewStore] /\ current = 1 /\ created = 1
  /\ changes = {} /\ readers = {}
  /\ syncClients = [c \in Client |-> 0] /\ openStores = {} /\ listener = NoListener
  /\ channel = [c \in Client |-> 0] /\ subscriptions = channel /\ listening = [c \in Client |-> 0] /\ destroyed = {}
  /\ loop = [at |-> "idle"] /\ writer = FALSE /\ listeners = 0
  /\ requests = {} /\ sent = 0 /\ handled = {} /\ responses = {}
  /\ replica = [c \in Client |-> Closed]
  /\ seen = [c \in Client |-> Unseen] /\ stale = {} /\ late = FALSE /\ mixed = {} /\ untold = {}

(***************************************************************************)
(* The server's store. The program finds it by its name.                   *)
(***************************************************************************)
CreateStore ==
  /\ current = 0 /\ created < bound.store
  /\ created' = created + 1 /\ current' = created + 1
  /\ UNCHANGED <<stores, changes, untold, service, monitor, clients, responses>>

DestroyStore ==
  /\ current # 0
  /\ current' = 0
  /\ UNCHANGED <<stores, created, changes, untold, service, monitor, clients, responses>>

Initialize(s) ==
  /\ stores' = [stores EXCEPT ![s].ready = TRUE]
  /\ UNCHANGED <<current, created, changes, untold, service, monitor, clients, responses>>

Populate(map) ==
  /\ current # 0 /\ stores[current].items = Empty
  /\ stores' = [stores EXCEPT ![current].items = map, ![current].ready = TRUE]
  /\ untold' = IF stores[current].ready \/ stores[current].version > 1 THEN untold \cup {current} ELSE untold
  /\ UNCHANGED <<current, created, changes, service, monitor, clients, responses>>

\* Put, or Remove with value NoValue; nothing to remove is no change.
Changed(s, id, value) ==
  IF value = NoValue /\ stores[s].items[id] = NoValue THEN UNCHANGED <<stores, changes>>
  ELSE /\ stores[s].version < bound.version
       /\ stores' = [stores EXCEPT ![s].items[id] = value, ![s].version = stores[s].version + 1]
       /\ changes' = changes \cup
            {[store |-> s, id |-> id, value |-> value, version |-> stores[s].version + 1]}

Update(id, value) ==
  /\ current # 0
  /\ Changed(current, id, value)
  /\ UNCHANGED <<current, created, untold, service, monitor, clients, responses>>

\* The goroutine of a change: the stream's handler sends it to the client channels there are.
TellChange(change) ==
  /\ changes' = changes \ {change}
  /\ responses' = responses \cup
       IF listener.store # change.store THEN {}
       ELSE {[client |-> c, kind |-> "update", store |-> change.store, version |-> change.version,
              id |-> change.id, value |-> change.value] :
               c \in {c \in listener.channels : channel[c] # 0}}
  /\ UNCHANGED <<stores, current, created, untold, service, monitor, clients>>

(***************************************************************************)
(* The monitor and the sync channels. A listener runs under the monitor's  *)
(* read lock. Opening a client's channel subscribes a handler, which sends *)
(* an event in its turn: the read lock is taken again, and a writer that   *)
(* has come in between keeps it from being granted.                        *)
(***************************************************************************)
SyncLockFree == loop.at # "nested"

\* The fabric endpoint creates the channel and sends FabricEndpointSubscribeEvt.
SubscribeSync(c) ==
  /\ loop.at = "idle"
  /\ channel[c] = 0 /\ subscriptions[c] < bound.subscription
  /\ subscriptions' = [subscriptions EXCEPT ![c] = @ + 1]
  /\ channel' = [channel EXCEPT ![c] = subscriptions[c] + 1]
  /\ loop' = [at |-> "event", client |-> c]
  /\ UNCHANGED <<listening, destroyed, writer, listeners, server, service, clients, responses>>

\* The listener of the sync service has the read lock and the lock of the service.
sendEvent ==
  /\ loop.at = "event" /\ ~writer
  /\ loop' = IF syncClients[loop.client] # 0 THEN [at |-> "idle"] ELSE [loop EXCEPT !.at = "nested"]
  /\ UNCHANGED <<channel, subscriptions, listening, destroyed, writer, listeners,
                 server, service, clients, responses>>

\* Mutant: the lock of the service is taken a second time.
openNewClientSyncChannel_LocksTwice ==
  /\ loop.at = "nested" /\ SyncLockFree /\ ~writer
  /\ loop' = [at |-> "idle"]
  /\ UNCHANGED <<channel, subscriptions, listening, destroyed, writer, listeners,
                 server, service, clients, responses>>

openNewClientSyncChannel ==
  /\ loop.at = "nested" /\ ~writer
  /\ LET c == loop.client IN
     /\ syncClients' = [syncClients EXCEPT ![c] = channel[c]]
     /\ listening' = [listening EXCEPT ![c] = channel[c]]
  /\ loop' = [at |-> "idle"]
  /\ UNCHANGED <<channel, subscriptions, destroyed, writer, listeners, readers, openStores,
                 listener, handled, late, mixed, server, clients, responses>>

\* The last subscription goes; the event about the channel is sent by a goroutine.
UnsubscribeSync(c) ==
  /\ loop.at = "idle"
  /\ channel[c] # 0
  /\ destroyed' = destroyed \cup {[client |-> c, channel |-> channel[c]]}
  /\ channel' = [channel EXCEPT ![c] = 0] /\ listening' = [listening EXCEPT ![c] = 0]
  /\ UNCHANGED <<subscriptions, loop, writer, listeners, server, service, clients, responses>>

removeChannel(c) ==
  LET left == listener.channels \ {c}
  IN IF left = {} THEN NoListener ELSE [listener EXCEPT !.channels = left]

\* Mutant: the listener is told only if it has other channels.
closeClientSyncChannel_KeepsLast(event) ==
  LET c == event.client IN
  /\ ~writer /\ SyncLockFree
  /\ destroyed' = destroyed \ {event}
  /\ syncClients' = [syncClients EXCEPT ![c] = 0]
  /\ UNCHANGED <<channel, subscriptions, listening, loop, writer, listeners, readers, openStores,
                 listener, handled, late, mixed, server, clients, responses>>

closeClientSyncChannel(event) ==
  LET c == event.client IN
  /\ ~writer /\ SyncLockFree
  /\ destroyed' = destroyed \ {event}
  /\ listener' = IF <<c, syncClients[c]>> \in openStores THEN removeChannel(c) ELSE listener
  /\ syncClients' = [syncClients EXCEPT ![c] = 0]
  /\ UNCHANGED <<channel, subscriptions, listening, loop, writer, listeners, readers, openStores,
                 handled, late, mixed, server, clients, responses>>

AddMonitorEventListener ==
  /\ ~writer /\ listeners < bound.listener
  /\ writer' = TRUE
  /\ UNCHANGED <<channel, subscriptions, listening, destroyed, loop, listeners,
                 server, service, clients, responses>>

addListener ==
  /\ writer /\ loop.at # "nested"
  /\ writer' = FALSE /\ listeners' = listeners + 1
  /\ UNCHANGED <<channel, subscriptions, listening, destroyed, loop,
                 server, service, clients, responses>>

(***************************************************************************)
(* The sync service. A request is heard by the client entry whose handler  *)
(* is on the channel; the store is looked up before the service's lock is  *)
(* taken.                                                                  *)
(***************************************************************************)
HearRequest(r) ==
  /\ loop.at = "idle"
  /\ requests' = requests \ {r}
  /\ handled' = IF listening[r.client] = 0 \/ (r.kind # "close" /\ current = 0) THEN handled
                ELSE handled \cup {[request |-> r, entry |-> listening[r.client], store |-> current]}
  /\ UNCHANGED <<readers, syncClients, openStores, listener, late, mixed, server, monitor,
                 replica, seen, stale, sent, responses>>

addChannel(c, s) ==
  IF listener = NoListener THEN [store |-> s, channels |-> {c}]
  ELSE [listener EXCEPT !.channels = @ \cup {c}]

\* Mutant: the contents are sent to the client that makes the listener, not to the others.
openStore_FirstOnly(h) ==
  LET c == h.request.client IN
  /\ h.request.kind = "open" /\ SyncLockFree
  /\ handled' = handled \ {h}
  /\ openStores' = openStores \cup {<<c, h.entry>>}
  /\ listener' = addChannel(c, h.store)
  /\ readers' = IF listener # NoListener THEN readers
                ELSE readers \cup {[request |-> h.request.n, client |-> c, store |-> h.store]}
  /\ late' = (late \/ syncClients[c] # h.entry)
  /\ mixed' = IF h.store < listener.store THEN mixed \cup {c} ELSE mixed
  /\ UNCHANGED <<syncClients, server, monitor, clients, responses>>

openStore(h) ==
  LET c == h.request.client IN
  /\ h.request.kind = "open" /\ SyncLockFree
  /\ handled' = handled \ {h}
  /\ openStores' = openStores \cup {<<c, h.entry>>}
  /\ listener' = addChannel(c, h.store)
  /\ readers' = readers \cup {[request |-> h.request.n, client |-> c, store |-> h.store]}
  /\ late' = (late \/ syncClients[c] # h.entry)
  /\ mixed' = IF h.store < listener.store THEN mixed \cup {c} ELSE mixed
  /\ UNCHANGED <<syncClients, server, monitor, clients, responses>>

\* The function given to WhenReady.
SendContent(reader) ==
  /\ stores[reader.store].ready
  /\ readers' = readers \ {reader}
  /\ responses' = responses \cup
       IF channel[reader.client] = 0 THEN {}
       ELSE {[client |-> reader.client, kind |-> "content", request |-> reader.request,
              store |-> reader.store, version |-> stores[reader.store].version,
              items |-> stores[reader.store].items]}
  /\ UNCHANGED <<syncClients, openStores, listener, handled, late, mixed, server, monitor, clients>>

closeStore(h) ==
  LET c == h.request.client IN
  /\ h.request.kind = "close" /\ SyncLockFree
  /\ handled' = handled \ {h}
  /\ openStores' = openStores \ {<<c, h.entry>>}
  /\ listener' = removeChannel(c)
  /\ UNCHANGED <<readers, syncClients, late, mixed, server, monitor, clients, responses>>

updateStore(h) ==
  /\ h.request.kind = "update"
  /\ handled' = handled \ {h}
  /\ Changed(h.store, h.request.id, h.request.value)
  /\ UNCHANGED <<readers, syncClients, openStores, listener, late, mixed, current, created, untold,
                 monitor, clients, responses>>

(***************************************************************************)
(* The clients. A galactic store changes when a response arrives, never    *)
(* by its own Put and Remove.                                              *)
(***************************************************************************)
Request(c, kind) == [n |-> sent + 1, client |-> c, kind |-> kind]
Sends(r) == sent < bound.request /\ sent' = sent + 1 /\ requests' = requests \cup {r}

\* OpenGalacticStore, and Reset of an open store: everything is new and asked for again.
OpenGalacticStore(c) ==
  /\ replica' = [replica EXCEPT ![c] = [Closed EXCEPT !.at = "open"]]
  /\ seen' = [seen EXCEPT ![c] = Unseen] /\ stale' = stale \ {c}
  /\ Sends(Request(c, "open"))
  /\ UNCHANGED <<server, service, monitor, responses>>

\* OnDestroy.
CloseGalacticStore(c) ==
  /\ replica[c].at # "closed"
  /\ replica' = [replica EXCEPT ![c] = Closed]
  /\ Sends(Request(c, "close"))
  /\ UNCHANGED <<seen, stale, server, service, monitor, responses>>

\* Put of a galactic store; Remove asks only for what is there.
putGalactic(c, id, value) ==
  /\ replica[c].at # "closed"
  /\ Sends([n |-> sent + 1, client |-> c, kind |-> "update", id |-> id, value |-> value])
  /\ UNCHANGED <<replica, seen, stale, server, service, monitor, responses>>

removeGalactic(c, id) == replica[c].items[id] # NoValue /\ putGalactic(c, id, NoValue)

\* Mutant: an update without a value leaves the item.
Applied_KeepsRemoved(store, r) ==
  IF r.kind = "content" THEN [at |-> "ready", items |-> r.items, version |-> r.version]
  ELSE [store EXCEPT !.items[r.id] = IF r.value = NoValue THEN @ ELSE r.value, !.version = r.version]

\* The handler of a galactic store; the version is taken from the response, newer or not.
Applied(store, r) ==
  IF r.kind = "content" THEN [at |-> "ready", items |-> r.items, version |-> r.version]
  ELSE [store EXCEPT !.items[r.id] = r.value, !.version = r.version]

Older(r, s) == r.store < s.store \/ (r.store = s.store /\ r.version < s.version)

Receive(r) ==
  LET c == r.client IN
  /\ responses' = responses \ {r}
  /\ IF replica[c].at = "closed" THEN UNCHANGED <<replica, seen, stale>>
     ELSE /\ replica' = [replica EXCEPT ![c] = Applied(@, r)]
          /\ seen' = IF Older(r, seen[c]) THEN seen
                     ELSE [seen EXCEPT ![c] = [store |-> r.store, version |-> r.version]]
          /\ stale' = IF Older(r, seen[c]) THEN stale \cup {c} ELSE stale
  /\ UNCHANGED <<requests, sent, server, service, monitor>>

\* A response on its way when the subscription ends may be dropped.
Lose(r) ==
  /\ channel[r.client] = 0
  /\ responses' = responses \ {r}
  /\ UNCHANGED <<server, service, monitor, clients>>

MonitorStep == sendEvent \/ openNewClientSyncChannel \/ addListener

ServiceStep ==
  \/ \E event \in destroyed : closeClientSyncChannel(event)
  \/ \E h \in handled : openStore(h) \/ closeStore(h) \/ updateStore(h)
  \/ \E reader \in readers : SendContent(reader)
  \/ \E change \in changes : TellChange(change)
  \/ \E r \in responses : Receive(r)

Step ==
  \/ MonitorStep \/ ServiceStep
  \/ CreateStore \/ (created < bound.store /\ DestroyStore)
  \/ \E s \in 1 .. created : Initialize(s)
  \/ "Populate" \in bound.calls /\ \E map \in [Id -> Value] : Populate(map)
  \/ "Put" \in bound.calls /\ \E id \in Id, value \in Value \cup {NoValue} : Update(id, value)
  \/ \E c \in bound.client : SubscribeSync(c) \/ UnsubscribeSync(c)
  \/ AddMonitorEventListener
  \/ \E r \in requests : HearRequest(r)
  \/ \E c \in bound.client : OpenGalacticStore(c) \/ CloseGalacticStore(c)
  \/ /\ "PutGalactic" \in bound.calls
     /\ \E c \in bound.client, id \in Id : removeGalactic(c, id) \/ \E value \in Value : putGalactic(c, id, value)
  \/ \E r \in responses : Lose(r)

Next == Step /\ UNCHANGED bound

Spec == Init /\ [][Next]_vars

\* Goroutines that have started, and the event loop, go on.
FairSpec == Spec /\ WF_vars(ServiceStep /\ UNCHANGED bound) /\ WF_vars(MonitorStep /\ UNCHANGED bound)

-----------------------------------------------------------------------------
Quiet == requests = {} /\ handled = {} /\ responses = {} /\ changes = {} /\ readers = {} /\ destroyed = {}

(***************************************************************************)
(* When nothing is under way, a galactic store that is open and that the   *)
(* server still serves is ready and holds what the server's store holds,   *)
(* version included, although snapshots and updates are sent by different  *)
(* goroutines. The exceptions are a response overtaken by a newer one,     *)
(* which is applied all the same (store.go:155), a Populate of a store     *)
(* that was ready or changed before, which nobody is told of and which has *)
(* no version of its own (store.go:263), a listener of a store object      *)
(* since replaced (store_sync_service.go:155), and an openStore that       *)
(* looked its store up before it was replaced and got the lock after       *)
(* another one had made a listener of the new object                       *)
(* (store_sync_service.go:141).                                            *)
(***************************************************************************)
QuietReplicasAgree ==
  Quiet /\ ~late /\ current # 0 /\ current \notin untold /\ listener.store = current =>
    \A c \in listener.channels \ (stale \cup mixed) :
      replica[c].at # "closed" =>
        replica[c] = [at |-> "ready", items |-> stores[current].items, version |-> stores[current].version]

(***************************************************************************)
(* With all sync channels destroyed and the events handled, the sync       *)
(* service holds no client and no listener                                 *)
(* (store_sync_service_test.go:186), unless an openStore was waiting for   *)
(* the lock when its client was closed.                                    *)
(***************************************************************************)
NothingLeft ==
  (\A c \in Client : channel[c] = 0) /\ destroyed = {} /\ ~late =>
    listener = NoListener /\ \A c \in Client : syncClients[c] = 0

(***************************************************************************)
(* A client whose openStore request found a ready store gets the contents: *)
(* its store becomes ready, unless it is closed or unsubscribed first      *)
(* (store_sync_service.go:132).                                            *)
(***************************************************************************)
ContentArrives ==
  \A c \in Client :
    (\E h \in handled : h.request.client = c /\ h.request.kind = "open" /\ stores[h.store].ready)
      ~> (replica[c].at \in {"ready", "closed"} \/ channel[c] = 0 \/ loop.at = "nested")

(***************************************************************************)
(* The server's event loop, which sends the subscription event itself,     *)
(* comes back from the sync service, unless AddMonitorEventListener is     *)
(* called between the two read locks: then the second one waits for the    *)
(* writer, the writer for the first, and the loop for ever                 *)
(* (eventbus.go:139, store_sync_service.go:81).                            *)
(***************************************************************************)
LoopGoesOn == loop.at # "idle" ~> (loop.at = "idle" \/ (loop.at = "nested" /\ writer))
=============================================================================
