-------------------------- MODULE StoreSyncProofs --------------------------
(***************************************************************************)
(* Proofs about the synchronised store: the sync service holds nothing of  *)
(* clients that are gone, and a galactic store at rest holds what the      *)
(* server's store holds, for any number of clients, store objects,         *)
(* versions, requests and subscriptions.                                   *)
(***************************************************************************)
EXTENDS StoreSync, TLAPS

Item == Value \cup {NoValue}
Contents == [Id -> Item]
Flag == BOOLEAN
Stored == [items : Contents, version : Nat \ {0}, ready : Flag]

\* The server's store objects and their changes.
StoreTypes ==
  /\ bound \in Bounds
  /\ created \in 1 .. bound.store
  /\ current \in {0, created}
  /\ stores \in [1 .. bound.store -> Stored]
  /\ \A ch \in changes : /\ ch.store \in 1 .. created /\ ch.version \in Nat
                         /\ ch.id \in Id /\ ch.value \in Item

RequestType(r) ==
  /\ r.client \in Client
  /\ r.kind = "update" => r.id \in Id /\ r.value \in Item

\* What the sync service holds and has under way.
ServiceTypes ==
  /\ \A r \in requests : RequestType(r)
  /\ \A h \in handled : /\ RequestType(h.request) /\ h.entry \in Nat \ {0}
                        /\ h.request.kind # "close" => h.store \in 1 .. created
  /\ \A reader \in readers : reader.client \in Client /\ reader.store \in 1 .. created
  /\ listener \in [store : Nat, channels : SUBSET Client]
  /\ listener.store <= created

Replica == [at : {"closed", "open", "ready"}, items : Contents, version : Nat]

ResponseType(r) ==
  /\ r.client \in Client /\ r.version \in Nat
  /\ r.kind = "content" => r.items \in Contents
  /\ r.kind # "content" => r.id \in Id /\ r.value \in Item

\* The galactic stores and what is sent to them.
ClientTypes ==
  /\ replica \in [Client -> Replica]
  /\ seen \in [Client -> [store : Nat, version : Nat]]
  /\ \A c \in Client : seen[c].store <= created
  /\ \A r \in responses : ResponseType(r) /\ r.store \in 1 .. created

\* The sync channels, the client entries and the event loop.
ChannelTypes ==
  /\ channel \in [Client -> Nat] /\ subscriptions \in [Client -> Nat]
  /\ syncClients \in [Client -> Nat] /\ listening \in [Client -> Nat]
  /\ \A event \in destroyed : event.client \in Client
  /\ loop.at # "idle" => loop \in [at : {"event", "nested"}, client : Client]

Types == StoreTypes /\ ServiceTypes /\ ClientTypes /\ ChannelTypes

\* A client entry belongs to the sync channel there is, or the event about its end is pending.
Entries ==
  /\ \A c \in Client : channel[c] <= subscriptions[c] /\ syncClients[c] <= subscriptions[c]
  /\ \A c \in Client : syncClients[c] # 0 =>
       \/ channel[c] = syncClients[c]
       \/ [client |-> c, channel |-> syncClients[c]] \in destroyed
  /\ \A c \in Client : syncClients[c] # 0 /\ channel[c] = syncClients[c] => listening[c] = channel[c]
  /\ loop.at # "idle" => channel[loop.client] # 0
  /\ loop.at = "nested" => syncClients[loop.client] = 0

\* A channel of the listener is that of a client entry that has the store open.
Listens ==
  /\ ~late => \A c \in listener.channels : syncClients[c] # 0 /\ <<c, syncClients[c]>> \in openStores
  /\ listener.channels = {} => listener = NoListener

\* Contents with an item set.
WithItem(map, id, value) == [map EXCEPT ![id] = value]

\* A store object not created yet is as new.
Unused == \A s \in 1 .. bound.store : s > created => stores[s] = NewStore

\* An update of the current store to version v is on its way to client c.
Pending(c, v) ==
  \/ \E ch \in changes : ch.store = current /\ ch.version = v
  \/ \E r \in responses : r.client = c /\ r.kind # "content" /\ r.store = current /\ r.version = v

\* h gives the contents of the current store in each of its versions so far.
IsHistory(h) ==
  /\ h[stores[current].version] = stores[current].items
  /\ \A ch \in changes : ch.store = current =>
       /\ 1 < ch.version /\ ch.version <= stores[current].version
       /\ h[ch.version] = WithItem(h[ch.version - 1], ch.id, ch.value)
  /\ \A r \in responses : r.store = current /\ r.kind # "content" =>
       /\ 1 < r.version /\ r.version <= stores[current].version
       /\ h[r.version] = WithItem(h[r.version - 1], r.id, r.value)
  /\ \A r \in responses : r.store = current /\ r.kind = "content" =>
       /\ stores[current].ready
       /\ 0 < r.version /\ r.version <= stores[current].version
       /\ h[r.version] = r.items
  /\ \A c \in Client : seen[c].store = current => stores[current].ready \/ stores[current].version > 1

\* The server serves the client, and none of the exceptions has happened to it.
Follower(c) ==
  /\ ~late /\ c \notin stale \cup mixed
  /\ c \in listener.channels /\ listener.store = current
  /\ syncClients[c] = channel[c]
  /\ replica[c].at # "closed"

\* The contents are asked for, or on their way with all changes after them.
Coming(c) ==
  \/ \E r \in requests : r.client = c /\ r.kind = "open"
  \/ \E h \in handled : h.request.client = c /\ h.request.kind = "open" /\ h.store = current
  \/ \E reader \in readers : reader.client = c /\ reader.store = current
  \/ \E r \in responses :
       /\ r.client = c /\ r.kind = "content" /\ r.store = current
       /\ \A v \in Nat : r.version < v /\ v <= stores[current].version => Pending(c, v)

\* A response older than one applied is on its way.
Overtaken(c) ==
  /\ seen[c].store = current
  /\ \/ \E ch \in changes : ch.store = current /\ ch.version < seen[c].version
     \/ \E r \in responses : r.client = c /\ r.store = current /\ r.version < seen[c].version

\* The galactic store is in an earlier version, and the changes after it are on their way.
Holds(h, c) ==
  /\ seen[c].store = current
  /\ replica[c].at = "ready" /\ replica[c].version = seen[c].version
  /\ replica[c].items = h[seen[c].version]
  /\ 0 < seen[c].version /\ seen[c].version <= stores[current].version
  /\ \A v \in Nat : seen[c].version < v /\ v <= stores[current].version => Pending(c, v)

Follows(h, c) == Follower(c) => Coming(c) \/ Overtaken(c) \/ Holds(h, c)

Reflects(h) == IsHistory(h) /\ \A c \in Client : Follows(h, c)

Recorded == current # 0 /\ current \notin untold => \E h \in [Nat -> Contents] : Reflects(h)

\* The inductive invariant.
SyncInv == Types /\ Entries /\ Listens /\ Unused /\ Recorded

\* A store object with an item and its version, its contents, or its readiness set.
ItemSet(st, s, id, value, n) == [st EXCEPT ![s].items[id] = value, ![s].version = n]
ContentsSet(st, s, map) == [st EXCEPT ![s].items = map, ![s].ready = TRUE]
ReadySet(st, s) == [st EXCEPT ![s].ready = TRUE]

ItemIsSet(S, st, new, s, id, value, n) ==
  /\ new \in [S -> Stored]
  /\ new[s].items = WithItem(st[s].items, id, value) /\ new[s].version = n
  /\ new[s].ready = st[s].ready
  /\ \A u \in S \ {s} : new[u] = st[u]

ContentsAreSet(S, st, new, s, map) ==
  /\ new \in [S -> Stored]
  /\ new[s].items = map /\ new[s].version = st[s].version
  /\ new[s].ready
  /\ \A u \in S \ {s} : new[u] = st[u]

ReadyIsSet(S, st, new) ==
  /\ new \in [S -> Stored]
  /\ \A u \in S : new[u].items = st[u].items /\ new[u].version = st[u].version
  /\ \A u \in S : st[u].ready => new[u].ready

\* Put and Remove change an item and the version of one store object (store.go:312, 366).
LEMMA Written ==
  ASSUME NEW S, NEW st \in [S -> Stored], NEW s \in S, NEW id \in Id, NEW value \in Item, NEW n \in Nat \ {0},
         NEW new, new = ItemSet(st, s, id, value, n)
  PROVE  ItemIsSet(S, st, new, s, id, value, n)
<1>1. PICK y \in Contents : y = WithItem(st[s].items, id, value)
  BY ZenonT(60) DEF Stored, Contents, WithItem
<1>2. new = [st EXCEPT ![s].items = y, ![s].version = n]
  BY <1>1, ZenonT(60) DEF Stored, Contents, ItemSet, WithItem
<1>3. new \in [S -> Stored]
  BY <1>2, ZenonT(60) DEF Stored
<1>4. new[s].items = y /\ new[s].version = n /\ new[s].ready = st[s].ready
  BY <1>2, ZenonT(60) DEF Stored
<1>5. \A u \in S \ {s} : new[u] = st[u]
  BY <1>2, ZenonT(60) DEF Stored
<1> QED
  BY <1>1, <1>3, <1>4, <1>5, ZenonT(60) DEF ItemIsSet

\* Populate changes the items and the readiness of one store object (store.go:263).
LEMMA Filled ==
  ASSUME NEW S, NEW st \in [S -> Stored], NEW s \in S, NEW map \in Contents,
         NEW new, new = ContentsSet(st, s, map)
  PROVE  ContentsAreSet(S, st, new, s, map)
<1>1. PICK f \in Flag : f = TRUE
  BY ZenonT(60) DEF Flag
<1>2. new = [st EXCEPT ![s].items = map, ![s].ready = f]
  BY <1>1, ZenonT(60) DEF ContentsSet
<1>3. new \in [S -> Stored]
  BY <1>2, ZenonT(60) DEF Stored
<1>4. new[s].items = map /\ new[s].version = st[s].version /\ new[s].ready = f
  BY <1>2, ZenonT(60) DEF Stored
<1>5. \A u \in S \ {s} : new[u] = st[u]
  BY <1>2, ZenonT(60) DEF Stored
<1> QED
  BY <1>1, <1>3, <1>4, <1>5, ZenonT(60) DEF ContentsAreSet

\* Initialize changes the readiness alone (store.go:459).
LEMMA Readied ==
  ASSUME NEW S, NEW st \in [S -> Stored], NEW s \in S,
         NEW new, new = ReadySet(st, s)
  PROVE  ReadyIsSet(S, st, new)
<1>1. PICK f \in Flag : f = TRUE
  BY ZenonT(60) DEF Flag
<1>2. new = [st EXCEPT ![s].ready = f]
  BY <1>1, ZenonT(60) DEF ReadySet
<1>3. new \in [S -> Stored]
  BY <1>2, ZenonT(60) DEF Stored
<1>4. \A u \in S : new[u].items = st[u].items /\ new[u].version = st[u].version
  BY <1>2, ZenonT(60) DEF Stored
<1>5. new[s].ready = f
  BY <1>2, ZenonT(60) DEF Stored
<1>6. \A u \in S \ {s} : new[u] = st[u]
  BY <1>2, ZenonT(60) DEF Stored
<1> QED
  BY <1>1, <1>3, <1>4, <1>5, <1>6, ZenonT(60) DEF ReadyIsSet

\* newBusStore makes an empty store that is not ready (store.go:93).
LEMMA NewStoreType == NewStore \in Stored
<1>1. Empty \in Contents
  BY ZenonT(60) DEF Empty, Contents, Item
<1>2. PICK f \in Flag : f = FALSE
  BY ZenonT(60) DEF Flag
<1>3. [items |-> Empty, version |-> 1, ready |-> f] \in Stored
  BY <1>1, SMTT(60) DEF Stored
<1> QED
  BY <1>2, <1>3, ZenonT(60) DEF NewStore

(***************************************************************************)
(* Put and Remove (store.go:312, 366) change nothing, or one item of one   *)
(* store object, its version and the changes to be told.                   *)
(***************************************************************************)
LEMMA ChangedEffect ==
  ASSUME StoreTypes, NEW s \in 1 .. created, NEW id \in Id, NEW value \in Item,
         Changed(s, id, value)
  PROVE  \/ UNCHANGED <<stores, changes>>
         \/ /\ ItemIsSet(1 .. bound.store, stores, stores', s, id, value, stores[s].version + 1)
            /\ changes' = changes \cup
                 {[store |-> s, id |-> id, value |-> value, version |-> stores[s].version + 1]}
<1>1. s \in 1 .. bound.store
  BY SyncAssumption, SMTT(60) DEF StoreTypes
<1>2. ASSUME stores' = [stores EXCEPT ![s].items[id] = value, ![s].version = stores[s].version + 1]
      PROVE  ItemIsSet(1 .. bound.store, stores, stores', s, id, value, stores[s].version + 1)
  <2>1. PICK n \in Nat \ {0} : n = stores[s].version + 1
    BY <1>1, SMTT(60) DEF StoreTypes, Stored
  <2>2. stores' = ItemSet(stores, s, id, value, n)
    BY <1>2, <2>1, ZenonT(60) DEF ItemSet
  <2>3. stores \in [1 .. bound.store -> Stored]
    BY ZenonT(60) DEF StoreTypes
  <2>4. ItemIsSet(1 .. bound.store, stores, stores', s, id, value, n)
    BY <1>1, <2>2, <2>3, Written, ZenonT(60)
  <2> QED
    BY <2>1, <2>4, ZenonT(60)
<1>3. CASE value = NoValue /\ stores[s].items[id] = NoValue
  BY <1>3, ZenonT(60) DEF Changed
<1>4. CASE ~(value = NoValue /\ stores[s].items[id] = NoValue)
  <2>1. /\ stores' = [stores EXCEPT ![s].items[id] = value, ![s].version = stores[s].version + 1]
        /\ changes' = changes \cup
             {[store |-> s, id |-> id, value |-> value, version |-> stores[s].version + 1]}
    BY <1>4, ZenonT(60) DEF Changed
  <2> QED
    BY <1>2, <2>1, ZenonT(60)
<1> QED
  BY <1>3, <1>4, ZenonT(60)

\* Put and Remove keep the store objects and their changes well formed.
LEMMA ChangedTypes ==
  ASSUME StoreTypes, NEW s \in 1 .. created, NEW id \in Id, NEW value \in Item,
         Changed(s, id, value), UNCHANGED <<bound, created, current>>
  PROVE  StoreTypes'
<1>1. CASE UNCHANGED <<stores, changes>>
  BY <1>1, ZenonT(60) DEF StoreTypes
<1>2. CASE /\ stores' \in [1 .. bound.store -> Stored]
           /\ changes' = changes \cup
                {[store |-> s, id |-> id, value |-> value, version |-> stores[s].version + 1]}
  <2>1. stores[s].version + 1 \in Nat
    BY SyncAssumption, SMTT(60) DEF StoreTypes, Stored
  <2>2. \A ch \in changes' : /\ ch.store \in 1 .. created /\ ch.version \in Nat
                             /\ ch.id \in Id /\ ch.value \in Item
    BY <1>2, <2>1, SMTT(60) DEF StoreTypes
  <2> QED
    BY <1>2, <2>2, ZenonT(60) DEF StoreTypes
<1> QED
  BY <1>1, <1>2, ChangedEffect, ZenonT(60) DEF ItemIsSet

(***************************************************************************)
(* The operations there are, with the ranges of their parameters.          *)
(***************************************************************************)
LEMMA Operations ==
  ASSUME Types, Step
  PROVE  \/ CreateStore \/ DestroyStore
         \/ \E s \in 1 .. created : Initialize(s)
         \/ \E map \in Contents : Populate(map)
         \/ \E id \in Id, value \in Item : Update(id, value)
         \/ \E change \in changes : TellChange(change)
         \/ \E c \in Client : SubscribeSync(c) \/ UnsubscribeSync(c)
         \/ sendEvent \/ openNewClientSyncChannel
         \/ \E event \in destroyed : closeClientSyncChannel(event)
         \/ AddMonitorEventListener \/ addListener
         \/ \E r \in requests : HearRequest(r)
         \/ \E h \in handled : openStore(h) \/ closeStore(h) \/ updateStore(h)
         \/ \E reader \in readers : SendContent(reader)
         \/ \E c \in Client : OpenGalacticStore(c) \/ CloseGalacticStore(c)
         \/ \E c \in Client, id \in Id, value \in Item : putGalactic(c, id, value)
         \/ \E r \in responses : Receive(r) \/ Lose(r)
<1>1. bound.client \subseteq Client
  BY SyncAssumption, ZenonT(60) DEF Types, StoreTypes
<1>2. [Id -> Value] \subseteq Contents /\ Value \subseteq Item /\ NoValue \in Item
  BY ZenonT(60) DEF Contents, Item
<1> QED
  BY <1>1, <1>2, ZenonT(60) DEF Step, MonitorStep, ServiceStep, removeGalactic, Item

(***************************************************************************)
(* The store objects stay well formed.                                     *)
(***************************************************************************)
LEMMA StoreTypesKept ==
  ASSUME Types, Step, UNCHANGED bound
  PROVE  StoreTypes'
<1> USE DEF Types
<1>0. bound.store \in Nat \ {0}
  BY SyncAssumption, ZenonT(60) DEF StoreTypes
<1>1. CASE CreateStore \/ DestroyStore
  BY <1>0, <1>1, SMTT(60) DEF CreateStore, DestroyStore, StoreTypes
<1>2. ASSUME NEW s \in 1 .. created, Initialize(s)
      PROVE  StoreTypes'
  <2>1. stores' = ReadySet(stores, s) /\ UNCHANGED <<current, created, changes>>
    BY <1>2, ZenonT(60) DEF Initialize, ReadySet
  <2>2. stores \in [1 .. bound.store -> Stored] /\ s \in 1 .. bound.store
    BY <1>0, SMTT(60) DEF StoreTypes
  <2>3. stores' \in [1 .. bound.store -> Stored]
    BY <2>1, <2>2, Readied, ZenonT(60) DEF ReadyIsSet
  <2> QED
    BY <2>1, <2>3, ZenonT(60) DEF StoreTypes
<1>3. ASSUME NEW map \in Contents, Populate(map)
      PROVE  StoreTypes'
  <2>1. stores' = ContentsSet(stores, current, map) /\ UNCHANGED <<current, created, changes>>
    BY <1>3, ZenonT(60) DEF Populate, ContentsSet
  <2>2. stores \in [1 .. bound.store -> Stored] /\ current \in 1 .. bound.store
    BY <1>0, <1>3, ZenonT(60) DEF StoreTypes, Populate
  <2>3. stores' \in [1 .. bound.store -> Stored]
    BY <2>1, <2>2, Filled, ZenonT(60) DEF ContentsAreSet
  <2> QED
    BY <2>1, <2>3, ZenonT(60) DEF StoreTypes
<1>4. ASSUME NEW id \in Id, NEW value \in Item, Update(id, value)
      PROVE  StoreTypes'
  <2>1. current \in 1 .. created
    BY <1>4, SMTT(60) DEF Update, StoreTypes
  <2> QED
    BY <1>4, <2>1, ChangedTypes, ZenonT(60) DEF Update
<1>5. ASSUME NEW h \in handled, updateStore(h)
      PROVE  StoreTypes'
  <2>1. h.store \in 1 .. created /\ h.request.id \in Id /\ h.request.value \in Item
    BY <1>5, ZenonT(60) DEF updateStore, ServiceTypes, RequestType
  <2> QED
    BY <1>5, <2>1, ChangedTypes, ZenonT(60) DEF updateStore
<1>6. ASSUME NEW change \in changes, TellChange(change)
      PROVE  StoreTypes'
  BY <1>6, ZenonT(60) DEF TellChange, StoreTypes
<1>7. CASE UNCHANGED server
  BY <1>7, ZenonT(60) DEF server, StoreTypes
<1> QED
  BY <1>1, <1>2, <1>3, <1>4, <1>5, <1>6, <1>7, Operations, ZenonT(60)
     DEF SubscribeSync, UnsubscribeSync, sendEvent, openNewClientSyncChannel, closeClientSyncChannel,
         AddMonitorEventListener, addListener, HearRequest, openStore, closeStore, SendContent,
         OpenGalacticStore, CloseGalacticStore, putGalactic, Receive, Lose

(***************************************************************************)
(* So do the requests, the listener and what openStore has under way.      *)
(***************************************************************************)
LEMMA ServiceTypesKept ==
  ASSUME Types, Step, UNCHANGED bound
  PROVE  ServiceTypes'
<1> USE DEF Types
<1>0. created \in Nat \ {0} /\ current \in {0, created}
  BY SyncAssumption, SMTT(60) DEF StoreTypes
<1>1. CASE CreateStore
  BY <1>0, <1>1, SMTT(60) DEF CreateStore, service, clients, ServiceTypes, RequestType
<1>2. ASSUME NEW event \in destroyed, closeClientSyncChannel(event)
      PROVE  ServiceTypes'
  <2>1. listener' \in [store : Nat, channels : SUBSET Client] /\ listener'.store <= created
    BY <1>0, <1>2, SMTT(60) DEF closeClientSyncChannel, removeChannel, NoListener, ServiceTypes
  <2> QED
    BY <1>2, <2>1, ZenonT(60) DEF closeClientSyncChannel, server, clients, ServiceTypes, RequestType
<1>3. ASSUME NEW r \in requests, HearRequest(r)
      PROVE  ServiceTypes'
  <2>1. requests' \subseteq requests /\ UNCHANGED <<readers, listener, created>>
    BY <1>3, ZenonT(60) DEF HearRequest, server
  <2>2. CASE handled' = handled
    BY <2>1, <2>2, ZenonT(60) DEF ServiceTypes, RequestType
  <2>3. CASE /\ listening[r.client] # 0 /\ (r.kind = "close" \/ current # 0)
             /\ handled' = handled \cup
                  {[request |-> r, entry |-> listening[r.client], store |-> current]}
    <3>1. listening[r.client] \in Nat \ {0}
      BY <2>3, ZenonT(60) DEF ChannelTypes, ServiceTypes, RequestType
    <3>2. r.kind # "close" => current \in 1 .. created
      BY <1>0, <2>3, SMTT(60)
    <3> QED
      BY <2>1, <2>3, <3>1, <3>2, SMTT(60) DEF ServiceTypes, RequestType
  <2> QED
    BY <1>3, <2>2, <2>3, ZenonT(60) DEF HearRequest
<1>4. ASSUME NEW h \in handled, openStore(h)
      PROVE  ServiceTypes'
  <2>1. h.request.client \in Client /\ h.store \in 1 .. created
    BY <1>4, ZenonT(60) DEF openStore, ServiceTypes, RequestType
  <2>2. listener' \in [store : Nat, channels : SUBSET Client] /\ listener'.store <= created
    BY <1>0, <1>4, <2>1, SMTT(60) DEF openStore, addChannel, NoListener, ServiceTypes
  <2>3. \A reader \in readers' : reader.client \in Client /\ reader.store \in 1 .. created
    BY <1>4, <2>1, SMTT(60) DEF openStore, ServiceTypes
  <2> QED
    BY <1>4, <2>2, <2>3, ZenonT(60) DEF openStore, server, clients, ServiceTypes, RequestType
<1>5. ASSUME NEW h \in handled, closeStore(h)
      PROVE  ServiceTypes'
  <2>1. listener' \in [store : Nat, channels : SUBSET Client] /\ listener'.store <= created
    BY <1>0, <1>5, SMTT(60) DEF closeStore, removeChannel, NoListener, ServiceTypes
  <2> QED
    BY <1>5, <2>1, ZenonT(60) DEF closeStore, server, clients, ServiceTypes, RequestType
<1>6. ASSUME NEW h \in handled, updateStore(h)
      PROVE  ServiceTypes'
  BY <1>6, ZenonT(60) DEF updateStore, clients, ServiceTypes, RequestType
<1>7. ASSUME NEW reader \in readers, SendContent(reader)
      PROVE  ServiceTypes'
  BY <1>7, ZenonT(60) DEF SendContent, server, clients, ServiceTypes, RequestType
<1>8. ASSUME NEW c \in Client, OpenGalacticStore(c) \/ CloseGalacticStore(c)
      PROVE  ServiceTypes'
  <2>1. PICK kind \in {"open", "close"} : requests' = requests \cup {[n |-> sent + 1, client |-> c, kind |-> kind]}
    BY <1>8, ZenonT(60) DEF OpenGalacticStore, CloseGalacticStore, Sends, Request
  <2>2. UNCHANGED <<server, service>>
    BY <1>8, ZenonT(60) DEF OpenGalacticStore, CloseGalacticStore
  <2> QED
    BY <2>1, <2>2, SMTT(60) DEF server, service, ServiceTypes, RequestType
<1>9. ASSUME NEW c \in Client, NEW id \in Id, NEW value \in Item, putGalactic(c, id, value)
      PROVE  ServiceTypes'
  BY <1>9, SMTT(60) DEF putGalactic, Sends, server, service, ServiceTypes, RequestType
<1>10. CASE UNCHANGED <<created, requests, handled, readers, listener>>
  BY <1>10, ZenonT(60) DEF ServiceTypes, RequestType
<1> QED
  BY <1>1, <1>2, <1>3, <1>4, <1>5, <1>6, <1>7, <1>8, <1>9, <1>10, Operations, ZenonT(60)
     DEF DestroyStore, Initialize, Populate, Update, TellChange, SubscribeSync, UnsubscribeSync, sendEvent,
         openNewClientSyncChannel, AddMonitorEventListener, addListener, Receive, Lose,
         server, service, clients

(***************************************************************************)
(* And the sync channels, the client entries and the event loop.           *)
(***************************************************************************)
LEMMA ChannelTypesKept ==
  ASSUME Types, Step, UNCHANGED bound
  PROVE  ChannelTypes'
<1> USE DEF Types
<1>1. ASSUME NEW c \in Client, SubscribeSync(c) \/ UnsubscribeSync(c)
      PROVE  ChannelTypes'
  BY <1>1, SMTT(60) DEF SubscribeSync, UnsubscribeSync, service, ChannelTypes
<1>2. CASE sendEvent
  <2>1. loop \in [at : {"event", "nested"}, client : Client]
    BY <1>2, ZenonT(60) DEF sendEvent, ChannelTypes
  <2>2. loop'.at # "idle" => loop' \in [at : {"event", "nested"}, client : Client]
    BY <1>2, <2>1, ZenonT(60) DEF sendEvent
  <2> QED
    BY <1>2, <2>2, ZenonT(60) DEF sendEvent, service, ChannelTypes
<1>3. CASE openNewClientSyncChannel
  <2>1. loop.client \in Client
    BY <1>3, ZenonT(60) DEF openNewClientSyncChannel, ChannelTypes
  <2> QED
    BY <1>3, <2>1, ZenonT(60) DEF openNewClientSyncChannel, ChannelTypes
<1>4. ASSUME NEW event \in destroyed, closeClientSyncChannel(event)
      PROVE  ChannelTypes'
  BY <1>4, ZenonT(60) DEF closeClientSyncChannel, ChannelTypes
<1>5. CASE UNCHANGED <<channel, subscriptions, syncClients, listening, destroyed, loop>>
  BY <1>5, ZenonT(60) DEF ChannelTypes
<1> QED
  BY <1>1, <1>2, <1>3, <1>4, <1>5, Operations, ZenonT(60)
     DEF CreateStore, DestroyStore, Initialize, Populate, Update, TellChange, AddMonitorEventListener,
         addListener, HearRequest, openStore, closeStore, updateStore, SendContent, OpenGalacticStore,
         CloseGalacticStore, putGalactic, Receive, Lose, service, monitor

(***************************************************************************)
(* A client entry outlives its sync channel only until the event about the *)
(* channel is handled: events of several channels of a client may come in  *)
(* any order (store_sync_service.go:81, 109).                              *)
(***************************************************************************)
LEMMA EntriesKept ==
  ASSUME Types, Entries, Step, UNCHANGED bound
  PROVE  Entries'
<1> USE DEF Types
<1>1. ASSUME NEW c \in Client, SubscribeSync(c)
      PROVE  Entries'
  BY <1>1, SMTT(60) DEF SubscribeSync, service, ChannelTypes, Entries
<1>2. ASSUME NEW c \in Client, UnsubscribeSync(c)
      PROVE  Entries'
  BY <1>2, SMTT(60) DEF UnsubscribeSync, service, ChannelTypes, Entries
<1>3. CASE sendEvent
  <2>1. loop \in [at : {"event", "nested"}, client : Client]
    BY <1>3, ZenonT(60) DEF sendEvent, ChannelTypes
  <2>2. loop'.at # "idle" => loop'.client = loop.client /\ syncClients[loop.client] = 0
    BY <1>3, <2>1, ZenonT(60) DEF sendEvent
  <2> QED
    BY <1>3, <2>1, <2>2, ZenonT(60) DEF sendEvent, service, ChannelTypes, Entries
<1>4. CASE openNewClientSyncChannel
  <2>1. loop.client \in Client /\ loop'.at = "idle"
    BY <1>4, ZenonT(60) DEF openNewClientSyncChannel, ChannelTypes
  <2> QED
    BY <1>4, <2>1, ZenonT(60) DEF openNewClientSyncChannel, ChannelTypes, Entries
<1>5. ASSUME NEW event \in destroyed, closeClientSyncChannel(event)
      PROVE  Entries'
  <2>1. event.client \in Client /\ syncClients' = [syncClients EXCEPT ![event.client] = 0]
    BY <1>5, ZenonT(60) DEF closeClientSyncChannel, ChannelTypes
  <2>2. UNCHANGED <<channel, subscriptions, listening, loop>> /\ destroyed' = destroyed \ {event}
    BY <1>5, ZenonT(60) DEF closeClientSyncChannel
  <2>3. ASSUME NEW c \in Client, syncClients'[c] # 0
        PROVE  /\ syncClients'[c] = syncClients[c] /\ c # event.client
               /\ \A k : [client |-> c, channel |-> k] # event
    BY <2>1, <2>3, SMTT(60) DEF ChannelTypes
  <2>4. loop.at = "nested" => loop.client \in Client
    BY ZenonT(60) DEF ChannelTypes
  <2> QED
    BY <2>1, <2>2, <2>3, <2>4, SMTT(60) DEF ChannelTypes, Entries
<1>6. CASE UNCHANGED <<channel, subscriptions, syncClients, listening, destroyed, loop>>
  BY <1>6, ZenonT(60) DEF Entries
<1> QED
  BY <1>1, <1>2, <1>3, <1>4, <1>5, <1>6, Operations, ZenonT(60)
     DEF CreateStore, DestroyStore, Initialize, Populate, Update, TellChange, AddMonitorEventListener,
         addListener, HearRequest, openStore, closeStore, updateStore, SendContent, OpenGalacticStore,
         CloseGalacticStore, putGalactic, Receive, Lose, service, monitor

(***************************************************************************)
(* A response applied to a galactic store replaces its contents, or one    *)
(* item, and its version (store.go:155).                                   *)
(***************************************************************************)
LEMMA AppliedEffect ==
  ASSUME NEW x \in Replica, NEW r, ResponseType(r)
  PROVE  /\ Applied(x, r) \in Replica
         /\ Applied(x, r).version = r.version
         /\ r.kind = "content" => Applied(x, r).at = "ready" /\ Applied(x, r).items = r.items
         /\ r.kind # "content" => /\ Applied(x, r).at = x.at
                                  /\ Applied(x, r).items = WithItem(x.items, r.id, r.value)
<1>1. CASE r.kind = "content"
  BY <1>1, ZenonT(60) DEF Applied, Replica, ResponseType
<1>2. CASE r.kind # "content"
  <2>1. PICK y \in Contents : y = WithItem(x.items, r.id, r.value)
    BY <1>2, ZenonT(60) DEF ResponseType, Replica, Contents, WithItem
  <2>2. Applied(x, r) = [x EXCEPT !.items = y, !.version = r.version]
    BY <1>2, <2>1, ZenonT(60) DEF Applied, Replica, WithItem
  <2>3. r.version \in Nat
    BY ZenonT(60) DEF ResponseType
  <2>4. /\ Applied(x, r) \in Replica
        /\ Applied(x, r).version = r.version /\ Applied(x, r).at = x.at /\ Applied(x, r).items = y
    BY <2>2, <2>3, ZenonT(60) DEF Replica
  <2> QED
    BY <1>2, <2>1, <2>4, ZenonT(60)
<1> QED
  BY <1>1, <1>2, ZenonT(60)

(***************************************************************************)
(* The galactic stores and the responses stay well formed.                 *)
(***************************************************************************)
LEMMA ClientTypesKept ==
  ASSUME Types, Step, UNCHANGED bound
  PROVE  ClientTypes'
<1> USE DEF Types
<1>0. created \in Nat \ {0} /\ Empty \in Contents
  BY SyncAssumption, SMTT(60) DEF StoreTypes, Empty, Contents, Item
<1>1. CASE CreateStore
  BY <1>0, <1>1, SMTT(60) DEF CreateStore, clients, ClientTypes, ResponseType
<1>2. ASSUME NEW change \in changes, TellChange(change)
      PROVE  ClientTypes'
  <2>1. UNCHANGED <<created, replica, seen>>
    BY <1>2, ZenonT(60) DEF TellChange, clients
  <2>2. ASSUME NEW r \in responses'
        PROVE  ResponseType(r) /\ r.store \in 1 .. created
    <3>1. CASE r \in responses
      BY <3>1, ZenonT(60) DEF ClientTypes
    <3>2. CASE r \notin responses
      <4>1. PICK c \in listener.channels :
              r = [client |-> c, kind |-> "update", store |-> change.store, version |-> change.version,
                   id |-> change.id, value |-> change.value]
        BY <1>2, <2>2, <3>2, ZenonT(60) DEF TellChange
      <4> QED
        BY <4>1, ZenonT(60) DEF ResponseType, ServiceTypes, StoreTypes
    <3> QED
      BY <3>1, <3>2, ZenonT(60)
  <2> QED
    BY <2>1, <2>2, ZenonT(60) DEF ClientTypes
<1>3. ASSUME NEW reader \in readers, SendContent(reader)
      PROVE  ClientTypes'
  <2>1. UNCHANGED <<created, replica, seen>>
    BY <1>3, ZenonT(60) DEF SendContent, clients, server
  <2>2. stores[reader.store] \in Stored /\ reader.store \in 1 .. created /\ reader.client \in Client
    BY SyncAssumption, SMTT(60) DEF StoreTypes, ServiceTypes
  <2>3. ASSUME NEW r \in responses'
        PROVE  ResponseType(r) /\ r.store \in 1 .. created
    <3>1. CASE r \in responses
      BY <3>1, SMTT(60) DEF ClientTypes
    <3>2. CASE r \notin responses
      <4>1. r = [client |-> reader.client, kind |-> "content", request |-> reader.request,
                 store |-> reader.store, version |-> stores[reader.store].version,
                 items |-> stores[reader.store].items]
        BY <1>3, <2>3, <3>2, ZenonT(60) DEF SendContent
      <4> QED
        BY <2>2, <4>1, ZenonT(60) DEF ResponseType, Stored
    <3> QED
      BY <3>1, <3>2, ZenonT(60)
  <2> QED
    BY <2>1, <2>3, ZenonT(60) DEF ClientTypes
<1>4. ASSUME NEW c \in Client, OpenGalacticStore(c) \/ CloseGalacticStore(c)
      PROVE  ClientTypes'
  <2>1. Closed \in Replica /\ [Closed EXCEPT !.at = "open"] \in Replica
    BY <1>0, ZenonT(60) DEF Closed, Replica
  <2>2. Unseen \in [store : Nat, version : Nat] /\ Unseen.store = 0
    BY ZenonT(60) DEF Unseen
  <2>3. replica' \in [Client -> Replica] /\ UNCHANGED <<created, responses>>
    BY <1>4, <2>1, ZenonT(60) DEF OpenGalacticStore, CloseGalacticStore, server, ClientTypes
  <2>4. /\ seen' \in [Client -> [store : Nat, version : Nat]]
        /\ \A d \in Client : seen'[d].store <= created
    BY <1>0, <1>4, <2>2, SMTT(60) DEF OpenGalacticStore, CloseGalacticStore, ClientTypes
  <2> QED
    BY <2>3, <2>4, ZenonT(60) DEF ClientTypes
<1>5. ASSUME NEW r \in responses, Receive(r)
      PROVE  ClientTypes'
  <2>1. ResponseType(r) /\ r.store \in 1 .. created /\ r.client \in Client /\ r.version \in Nat
    BY ZenonT(60) DEF ClientTypes, ResponseType
  <2>2. Applied(replica[r.client], r) \in Replica
    BY <2>1, AppliedEffect, ZenonT(60) DEF ClientTypes
  <2>3. responses' \subseteq responses /\ UNCHANGED created
    BY <1>5, ZenonT(60) DEF Receive, server
  <2>4. replica' \in [Client -> Replica]
    BY <1>5, <2>1, <2>2, ZenonT(60) DEF Receive, ClientTypes
  <2>5. [store |-> r.store, version |-> r.version] \in [store : Nat, version : Nat]
    BY <2>1, SMTT(60)
  <2>6. /\ seen' \in [Client -> [store : Nat, version : Nat]]
        /\ \A d \in Client : seen'[d].store <= created
    BY <1>5, <2>1, <2>5, SMTT(60) DEF Receive, ClientTypes
  <2> QED
    BY <2>3, <2>4, <2>6, ZenonT(60) DEF ClientTypes
<1>6. ASSUME NEW r \in responses, Lose(r)
      PROVE  ClientTypes'
  BY <1>6, ZenonT(60) DEF Lose, server, clients, ClientTypes
<1>7. CASE UNCHANGED <<created, replica, seen, responses>>
  BY <1>7, ZenonT(60) DEF ClientTypes
<1> QED
  BY <1>1, <1>2, <1>3, <1>4, <1>5, <1>6, <1>7, Operations, ZenonT(60)
     DEF DestroyStore, Initialize, Populate, Update, SubscribeSync, UnsubscribeSync, sendEvent,
         openNewClientSyncChannel, closeClientSyncChannel, AddMonitorEventListener, addListener,
         HearRequest, openStore, closeStore, updateStore, putGalactic, server, clients

(***************************************************************************)
(* The listener's channels are those of client entries that have the store *)
(* open, as long as openStore goes on only for entries there are           *)
(* (store_sync_service.go:148).                                            *)
(***************************************************************************)
LEMMA ListensKept ==
  ASSUME Types, Entries, Listens, Step, UNCHANGED bound
  PROVE  Listens'
<1> USE DEF Types
<1>0. listener \in [store : Nat, channels : SUBSET Client]
  BY ZenonT(60) DEF ServiceTypes
<1>1. CASE openNewClientSyncChannel
  <2>1. /\ loop.client \in Client /\ syncClients[loop.client] = 0
        /\ syncClients' = [syncClients EXCEPT ![loop.client] = channel[loop.client]]
        /\ UNCHANGED <<late, listener, openStores>>
    BY <1>1, ZenonT(60) DEF openNewClientSyncChannel, ChannelTypes, Entries
  <2>2. ~late => loop.client \notin listener.channels
    BY <2>1, ZenonT(60) DEF Listens
  <2> QED
    BY <1>0, <2>1, <2>2, ZenonT(60) DEF Listens, ChannelTypes
<1>2. ASSUME NEW event \in destroyed, closeClientSyncChannel(event)
      PROVE  Listens'
  <2>1. /\ event.client \in Client
        /\ syncClients' = [syncClients EXCEPT ![event.client] = 0]
        /\ listener' = IF <<event.client, syncClients[event.client]>> \in openStores
                       THEN removeChannel(event.client) ELSE listener
        /\ UNCHANGED <<late, openStores>>
    BY <1>2, ZenonT(60) DEF closeClientSyncChannel, ChannelTypes
  <2>2. ~late => listener'.channels \subseteq listener.channels \ {event.client}
    BY <1>0, <2>1, ZenonT(60) DEF removeChannel, NoListener, Listens
  <2>3. listener'.channels = {} => listener' = NoListener
    BY <1>0, <2>1, ZenonT(60) DEF removeChannel, NoListener, Listens
  <2> QED
    BY <1>0, <2>1, <2>2, <2>3, ZenonT(60) DEF Listens, ChannelTypes
<1>3. ASSUME NEW h \in handled, openStore(h)
      PROVE  Listens'
  <2>1. /\ h.entry # 0
        /\ openStores' = openStores \cup {<<h.request.client, h.entry>>}
        /\ listener'.channels = listener.channels \cup {h.request.client}
        /\ late' = (late \/ syncClients[h.request.client] # h.entry)
        /\ syncClients' = syncClients
    BY <1>0, <1>3, SMTT(60) DEF openStore, addChannel, NoListener, ServiceTypes
  <2> QED
    BY <2>1, ZenonT(60) DEF Listens
<1>4. ASSUME NEW h \in handled, closeStore(h)
      PROVE  Listens'
  <2>1. /\ openStores' = openStores \ {<<h.request.client, h.entry>>}
        /\ listener' = removeChannel(h.request.client)
        /\ UNCHANGED <<late, syncClients>>
    BY <1>4, ZenonT(60) DEF closeStore
  <2>2. /\ listener'.channels \subseteq listener.channels \ {h.request.client}
        /\ listener'.channels = {} => listener' = NoListener
    BY <1>0, <2>1, ZenonT(60) DEF removeChannel, NoListener
  <2>3. \A c \in listener'.channels : <<c, syncClients[c]>> # <<h.request.client, h.entry>>
    BY <2>2, ZenonT(60)
  <2> QED
    BY <2>1, <2>2, <2>3, ZenonT(60) DEF Listens
<1>5. CASE UNCHANGED <<syncClients, openStores, listener, late>>
  BY <1>5, ZenonT(60) DEF Listens
<1> QED
  BY <1>1, <1>2, <1>3, <1>4, <1>5, Operations, ZenonT(60)
     DEF CreateStore, DestroyStore, Initialize, Populate, Update, TellChange, SubscribeSync,
         UnsubscribeSync, sendEvent, AddMonitorEventListener, addListener, HearRequest, updateStore,
         SendContent, OpenGalacticStore, CloseGalacticStore, putGalactic, Receive, Lose, service

(***************************************************************************)
(* Store objects not created yet stay new.                                 *)
(***************************************************************************)
LEMMA UnusedKept ==
  ASSUME Types, Unused, Step, UNCHANGED bound
  PROVE  Unused'
<1> USE DEF Types
<1>0. /\ bound.store \in Nat \ {0} /\ created \in 1 .. bound.store
      /\ stores \in [1 .. bound.store -> Stored]
  BY SyncAssumption, ZenonT(60) DEF StoreTypes
<1>1. CASE CreateStore
  BY <1>0, <1>1, SMTT(60) DEF CreateStore, Unused
<1>2. ASSUME NEW s \in 1 .. created, Initialize(s)
      PROVE  Unused'
  <2>1. \A u \in 1 .. bound.store : u > created => stores'[u] = stores[u]
    BY <1>0, <1>2, SMTT(60) DEF Initialize
  <2> QED
    BY <1>2, <2>1, ZenonT(60) DEF Initialize, Unused
<1>3. ASSUME NEW map \in Contents, Populate(map)
      PROVE  Unused'
  <2>1. current \in 1 .. created
    BY <1>3, SMTT(60) DEF Populate, StoreTypes
  <2>2. \A u \in 1 .. bound.store : u > created => stores'[u] = stores[u]
    BY <1>0, <1>3, <2>1, SMTT(60) DEF Populate
  <2> QED
    BY <1>3, <2>2, ZenonT(60) DEF Populate, Unused
<1>4. ASSUME NEW s \in 1 .. created, NEW id \in Id, NEW value \in Item, Changed(s, id, value),
             UNCHANGED created
      PROVE  Unused'
  <2>1. CASE UNCHANGED stores
    BY <1>4, <2>1, ZenonT(60) DEF Unused
  <2>2. CASE ItemIsSet(1 .. bound.store, stores, stores', s, id, value, stores[s].version + 1)
    <3>1. \A u \in 1 .. bound.store : u > created => stores'[u] = stores[u]
      BY <1>0, <2>2, SMTT(60) DEF ItemIsSet
    <3> QED
      BY <1>4, <3>1, ZenonT(60) DEF Unused
  <2> QED
    BY <1>4, <2>1, <2>2, ChangedEffect, ZenonT(60)
<1>5. ASSUME NEW id \in Id, NEW value \in Item, Update(id, value)
      PROVE  Unused'
  <2>1. current \in 1 .. created
    BY <1>5, SMTT(60) DEF Update, StoreTypes
  <2> QED
    BY <1>4, <1>5, <2>1, ZenonT(60) DEF Update
<1>6. ASSUME NEW h \in handled, updateStore(h)
      PROVE  Unused'
  <2>1. h.store \in 1 .. created /\ h.request.id \in Id /\ h.request.value \in Item
    BY <1>6, ZenonT(60) DEF updateStore, ServiceTypes, RequestType
  <2> QED
    BY <1>4, <1>6, <2>1, ZenonT(60) DEF updateStore
<1>7. CASE UNCHANGED <<stores, created>>
  BY <1>7, ZenonT(60) DEF Unused
<1> QED
  BY <1>1, <1>2, <1>3, <1>5, <1>6, <1>7, Operations, ZenonT(60)
     DEF DestroyStore, TellChange, SubscribeSync, UnsubscribeSync, sendEvent, openNewClientSyncChannel,
         closeClientSyncChannel, AddMonitorEventListener, addListener, HearRequest, openStore, closeStore,
         SendContent, OpenGalacticStore, CloseGalacticStore, putGalactic, Receive, Lose, server

(***************************************************************************)
(* A step that changes neither the store nor what is on its way to the     *)
(* clients keeps them in step, if every client served after it was served  *)
(* before, in the same state, or its contents are asked for.               *)
(***************************************************************************)
LEMMA RecordedFrame ==
  ASSUME Types, Recorded, UNCHANGED <<stores, current, changes, responses, untold>>,
         \A c \in Client : seen'[c].store = current => seen[c].store = current,
         \A c \in Client : Follower(c)' =>
           \/ Coming(c)'
           \/ /\ Follower(c) /\ (Coming(c) => Coming(c)')
              /\ seen'[c] = seen[c] /\ replica'[c] = replica[c]
  PROVE  Recorded'
<1> SUFFICES ASSUME current # 0, current \notin untold
             PROVE  (\E h \in [Nat -> Contents] : Reflects(h))'
  BY ZenonT(60) DEF Recorded
<1>1. PICK h \in [Nat -> Contents] : Reflects(h)
  BY ZenonT(60) DEF Recorded
<1>2. IsHistory(h)'
  BY <1>1, ZenonT(60) DEF Reflects, IsHistory
<1>3. ASSUME NEW c \in Client
      PROVE  Follows(h, c)'
  <2>1. CASE ~Follower(c)' \/ Coming(c)'
    BY <2>1, ZenonT(60) DEF Follows
  <2>2. CASE /\ Follower(c) /\ (Coming(c) => Coming(c)')
             /\ seen'[c] = seen[c] /\ replica'[c] = replica[c]
    <3>1. Coming(c) \/ Overtaken(c) \/ Holds(h, c)
      BY <1>1, <2>2, ZenonT(60) DEF Reflects, Follows
    <3>2. Overtaken(c) => Overtaken(c)'
      BY <2>2, ZenonT(60) DEF Overtaken
    <3>3. Holds(h, c) => Holds(h, c)'
      BY <2>2, ZenonT(60) DEF Holds, Pending
    <3> QED
      BY <2>2, <3>1, <3>2, <3>3, ZenonT(60) DEF Follows
  <2> QED
    BY <2>1, <2>2, ZenonT(60)
<1> QED
  BY <1>2, <1>3, ZenonT(60) DEF Reflects

\* A request, a handler or a reader is not lost by adding others.
LEMMA ComingKept ==
  ASSUME UNCHANGED <<stores, current, changes, responses>>,
         requests \subseteq requests', handled \subseteq handled', readers \subseteq readers',
         NEW c, Coming(c)
  PROVE  Coming(c)'
  BY ZenonT(60) DEF Coming, Pending

(***************************************************************************)
(* A client that is served has an entry that listens on its sync channel.  *)
(***************************************************************************)
LEMMA FollowerListens ==
  ASSUME Types, Entries, Listens, NEW c \in Client, Follower(c)
  PROVE  channel[c] # 0 /\ syncClients[c] = channel[c] /\ listening[c] = channel[c]
  BY ZenonT(60) DEF Follower, Listens, Entries

(***************************************************************************)
(* The monitor's steps and the end of a client entry keep the clients in   *)
(* step: a client whose entry is not that of its channel is not served.    *)
(***************************************************************************)
LEMMA MonitorRecords ==
  ASSUME Types, Entries, Listens, Recorded,
         \/ \E c \in Client : SubscribeSync(c) \/ UnsubscribeSync(c)
         \/ sendEvent \/ openNewClientSyncChannel
         \/ \E event \in destroyed : closeClientSyncChannel(event)
         \/ AddMonitorEventListener \/ addListener
  PROVE  Recorded'
<1> USE DEF Types
<1>1. UNCHANGED <<server, readers, handled, late, mixed, clients, responses>>
  BY ZenonT(60) DEF SubscribeSync, UnsubscribeSync, sendEvent, openNewClientSyncChannel, closeClientSyncChannel,
         AddMonitorEventListener, addListener, service
<1>2. ASSUME NEW c \in Client, Follower(c)'
      PROVE  Follower(c)
  <2>1. ~late /\ c \notin stale \cup mixed /\ replica[c].at # "closed"
    BY <1>1, <1>2, ZenonT(60) DEF clients, Follower
  <2>2. c \in listener'.channels /\ listener'.store = current /\ syncClients'[c] = channel'[c]
    BY <1>1, <1>2, ZenonT(60) DEF server, Follower
  <2>3. ASSUME NEW d \in Client, SubscribeSync(d)
        PROVE  Follower(c)
    BY <2>1, <2>2, <2>3, SMTT(60) DEF SubscribeSync, service, ChannelTypes, Entries, Follower
  <2>4. ASSUME NEW d \in Client, UnsubscribeSync(d)
        PROVE  Follower(c)
    BY <2>1, <2>2, <2>4, ZenonT(60) DEF UnsubscribeSync, service, ChannelTypes, Listens, Follower
  <2>5. CASE openNewClientSyncChannel
    BY <2>1, <2>2, <2>5, ZenonT(60) DEF openNewClientSyncChannel, ChannelTypes, Entries, Listens, Follower
  <2>6. ASSUME NEW event \in destroyed, closeClientSyncChannel(event)
        PROVE  Follower(c)
    <3>1. listener \in [store : Nat, channels : SUBSET Client]
      BY ZenonT(60) DEF ServiceTypes
    <3>2. listener'.channels \subseteq listener.channels /\ listener'.store = listener.store
      BY <2>2, <2>6, <3>1, ZenonT(60) DEF closeClientSyncChannel, removeChannel, NoListener
    <3>3. c # event.client
      BY <2>1, <2>2, <2>6, <3>1, ZenonT(60) DEF closeClientSyncChannel, removeChannel, NoListener, Listens
    <3>4. syncClients'[c] = syncClients[c] /\ channel'[c] = channel[c]
      BY <2>6, <3>3, ZenonT(60) DEF closeClientSyncChannel, ChannelTypes
    <3> QED
      BY <2>1, <2>2, <3>2, <3>4, ZenonT(60) DEF Follower
  <2>7. CASE UNCHANGED <<listener, syncClients, channel>>
    BY <2>1, <2>2, <2>7, ZenonT(60) DEF Follower
  <2> QED
    BY <2>3, <2>4, <2>5, <2>6, <2>7, ZenonT(60) DEF sendEvent, AddMonitorEventListener, addListener, service
<1>3. UNCHANGED <<stores, current, changes, responses, untold, requests, handled, readers, seen, replica>>
  BY <1>1, ZenonT(60) DEF server, clients
<1> QED
  BY <1>2, <1>3, ComingKept, RecordedFrame, ZenonT(60)

(***************************************************************************)
(* A request to open the store that is heard is not forgotten: the entry   *)
(* of a client that is served listens, and finds the current store.        *)
(***************************************************************************)
LEMMA HearRecords ==
  ASSUME Types, Entries, Listens, Recorded, NEW r \in requests, HearRequest(r)
  PROVE  Recorded'
<1>1. /\ UNCHANGED <<stores, current, changes, untold, readers, seen, replica, responses>>
      /\ UNCHANGED <<late, mixed, stale, listener, syncClients, channel>>
  BY ZenonT(60) DEF HearRequest, server, monitor
<1>2. ASSUME NEW c \in Client, Follower(c)', current # 0
      PROVE  Follower(c) /\ (Coming(c) => Coming(c)')
  <2>1. Follower(c)
    BY <1>1, <1>2, ZenonT(60) DEF Follower
  <2>2. listening[c] # 0
    BY <2>1, FollowerListens, ZenonT(60)
  <2>3. ASSUME r.client = c, r.kind = "open"
        PROVE  Coming(c)'
    <3>1. [request |-> r, entry |-> listening[c], store |-> current] \in handled'
      BY <1>2, <2>2, <2>3, ZenonT(60) DEF HearRequest
    <3> QED
      BY <1>1, <2>3, <3>1, ZenonT(60) DEF Coming
  <2>4. ASSUME Coming(c), ~(r.client = c /\ r.kind = "open")
        PROVE  Coming(c)'
    <3>1. requests' = requests \ {r} /\ handled \subseteq handled'
      BY ZenonT(60) DEF HearRequest
    <3> QED
      BY <1>1, <2>4, <3>1, ZenonT(60) DEF Coming, Pending
  <2> QED
    BY <2>1, <2>3, <2>4, ZenonT(60)
<1>3. CASE current = 0
  BY <1>1, <1>3, ZenonT(60) DEF Recorded
<1>4. CASE current # 0
  BY <1>1, <1>2, <1>4, RecordedFrame, ZenonT(60)
<1> QED
  BY <1>3, <1>4, ZenonT(60)

(***************************************************************************)
(* openStore asks for the contents of the listener's store object, or the  *)
(* client is one of the exceptions (store_sync_service.go:141).            *)
(***************************************************************************)
LEMMA OpenRecords ==
  ASSUME Types, Entries, Listens, Recorded, NEW h \in handled, openStore(h)
  PROVE  Recorded'
<1> USE DEF Types
<1>1. /\ UNCHANGED <<stores, current, changes, untold, requests, seen, replica, responses>>
      /\ UNCHANGED <<stale, syncClients, channel>>
      /\ handled' = handled \ {h} /\ (~late' => ~late)
      /\ readers' = readers \cup
           {[request |-> h.request.n, client |-> h.request.client, store |-> h.store]}
      /\ listener' = addChannel(h.request.client, h.store)
      /\ mixed' = IF h.store < listener.store THEN mixed \cup {h.request.client} ELSE mixed
  BY ZenonT(60) DEF openStore, server, monitor, clients
<1>2. /\ listener \in [store : Nat, channels : SUBSET Client]
      /\ h.store \in 1 .. created /\ current \in {0, created} /\ created \in Nat
  BY SyncAssumption, SMTT(60) DEF openStore, ServiceTypes, StoreTypes
<1>3. ASSUME NEW c \in Client, c = h.request.client, Follower(c)', current # 0
      PROVE  Coming(c)'
  <2>1. listener'.store = current /\ c \notin mixed'
    BY <1>1, <1>3, ZenonT(60) DEF Follower
  <2>2. h.store = current
    BY <1>1, <1>2, <1>3, <2>1, SMTT(60) DEF addChannel
  <2>3. [request |-> h.request.n, client |-> c, store |-> current] \in readers'
    BY <1>1, <1>3, <2>2, ZenonT(60)
  <2> QED
    BY <1>1, <2>3, ZenonT(60) DEF Coming
<1>4. ASSUME NEW c \in Client, c # h.request.client, Follower(c)'
      PROVE  Follower(c) /\ (Coming(c) => Coming(c)')
  <2>1. c \in listener.channels /\ listener'.store = listener.store
    BY <1>1, <1>2, <1>4, ZenonT(60) DEF addChannel, NoListener, Follower
  <2>2. Follower(c)
    BY <1>1, <1>4, <2>1, ZenonT(60) DEF Follower
  <2>3. Coming(c) => Coming(c)'
    BY <1>1, <1>4, SMTT(60) DEF Coming, Pending
  <2> QED
    BY <2>2, <2>3, ZenonT(60)
<1>5. CASE current = 0
  BY <1>1, <1>5, ZenonT(60) DEF Recorded
<1>6. CASE current # 0
  BY <1>1, <1>3, <1>4, <1>6, RecordedFrame, ZenonT(60)
<1> QED
  BY <1>5, <1>6, ZenonT(60)

(***************************************************************************)
(* closeStore only ends the service of a client.                           *)
(***************************************************************************)
LEMMA CloseRecords ==
  ASSUME Types, Recorded, NEW h \in handled, closeStore(h)
  PROVE  Recorded'
<1> USE DEF Types
<1>1. /\ UNCHANGED <<stores, current, changes, untold, requests, readers, seen, replica, responses>>
      /\ UNCHANGED <<late, mixed, stale, syncClients, channel>>
      /\ handled' = handled \ {h} /\ h.request.kind # "open"
      /\ listener' = removeChannel(h.request.client)
  BY ZenonT(60) DEF closeStore, server, monitor, clients
<1>2. listener \in [store : Nat, channels : SUBSET Client]
  BY ZenonT(60) DEF ServiceTypes
<1>3. ASSUME NEW c \in Client, Follower(c)'
      PROVE  Follower(c) /\ (Coming(c) => Coming(c)')
  <2>1. c \in listener.channels /\ listener'.store = listener.store
    BY <1>1, <1>2, <1>3, ZenonT(60) DEF removeChannel, NoListener, Follower
  <2>2. Follower(c)
    BY <1>1, <1>3, <2>1, ZenonT(60) DEF Follower
  <2>3. Coming(c) => Coming(c)'
    BY <1>1, ZenonT(60) DEF Coming, Pending
  <2> QED
    BY <2>2, <2>3, ZenonT(60)
<1> QED
  BY <1>1, <1>3, RecordedFrame, ZenonT(60)

(***************************************************************************)
(* A galactic store that is opened asks for the contents; one that is      *)
(* closed needs none; Put and Remove only ask (store.go:211, 235, 293).    *)
(***************************************************************************)
LEMMA ClientRecords ==
  ASSUME Types, Recorded, NEW c \in Client,
         \/ OpenGalacticStore(c) \/ CloseGalacticStore(c)
         \/ \E id \in Id, value \in Item : putGalactic(c, id, value)
  PROVE  Recorded'
<1> USE DEF Types
<1>1. /\ UNCHANGED <<stores, current, changes, untold, handled, readers, responses>>
      /\ UNCHANGED <<late, mixed, syncClients, channel, listener>>
      /\ requests \subseteq requests'
  BY ZenonT(60) DEF OpenGalacticStore, CloseGalacticStore, putGalactic, Sends, server, service, monitor
<1>2. ASSUME NEW d \in Client, Follower(d)', d # c \/ ~(OpenGalacticStore(c) \/ CloseGalacticStore(c))
      PROVE  Follower(d) /\ seen'[d] = seen[d] /\ replica'[d] = replica[d]
  BY <1>1, <1>2, ZenonT(60) DEF OpenGalacticStore, CloseGalacticStore, putGalactic, ClientTypes, Follower
<1>3. ASSUME OpenGalacticStore(c)
      PROVE  Coming(c)'
  <2>1. Request(c, "open") \in requests' /\ Request(c, "open").client = c /\ Request(c, "open").kind = "open"
    BY <1>3, ZenonT(60) DEF OpenGalacticStore, Sends, Request
  <2>2. PICK r \in requests' : r.client = c /\ r.kind = "open"
    BY <2>1, ZenonT(60)
  <2> QED
    BY <2>2, ZenonT(60) DEF Coming
<1>4. ASSUME CloseGalacticStore(c)
      PROVE  ~Follower(c)'
  BY <1>4, ZenonT(60) DEF CloseGalacticStore, ClientTypes, Closed, Follower
<1>5. \A d \in Client : seen'[d].store = seen[d].store \/ seen'[d].store = 0
  <2>1. CASE seen' = [seen EXCEPT ![c] = Unseen]
    BY <2>1, ZenonT(60) DEF ClientTypes, Unseen
  <2>2. CASE seen' = seen
    BY <2>2, ZenonT(60)
  <2> QED
    BY <2>1, <2>2, ZenonT(60) DEF OpenGalacticStore, CloseGalacticStore, putGalactic
<1>6. CASE current = 0
  BY <1>1, <1>6, ZenonT(60) DEF Recorded
<1>7. CASE current # 0
  <2>1. \A d \in Client : seen'[d].store = current => seen[d].store = current
    BY <1>5, <1>7, ZenonT(60)
  <2>2. ASSUME NEW d \in Client, Follower(d)'
        PROVE  \/ Coming(d)'
               \/ /\ Follower(d) /\ (Coming(d) => Coming(d)')
                  /\ seen'[d] = seen[d] /\ replica'[d] = replica[d]
    BY <1>1, <1>2, <1>3, <1>4, <2>2, ComingKept, ZenonT(60)
  <2> QED
    BY <1>1, <2>1, <2>2, RecordedFrame, ZenonT(60)
<1> QED
  BY <1>6, <1>7, ZenonT(60)

(***************************************************************************)
(* A new store object is empty, and nothing is on its way from it.         *)
(***************************************************************************)
LEMMA CreateRecords ==
  ASSUME Types, Unused, CreateStore, UNCHANGED bound
  PROVE  Recorded'
<1> USE DEF Types
<1> DEFINE h == [n \in Nat |-> Empty]
<1>1. /\ current' = created + 1 /\ created \in Nat
      /\ UNCHANGED <<stores, changes, responses, seen, listener>>
  BY SyncAssumption, SMTT(60) DEF CreateStore, service, clients, StoreTypes
<1>2. stores[current'] = NewStore
  BY SyncAssumption, SMTT(60) DEF CreateStore, StoreTypes, Unused
<1>3. h \in [Nat -> Contents] /\ \A n \in Nat : h[n] = Empty
  BY ZenonT(60) DEF Empty, Contents, Item
<1>4. (\A ch \in changes : ch.store # current') /\ (\A r \in responses : r.store # current')
  BY <1>1, SMTT(60) DEF StoreTypes, ClientTypes
<1>5. (\A c \in Client : seen[c].store # current') /\ listener.store # current'
  BY <1>1, SMTT(60) DEF ClientTypes, ServiceTypes
<1> HIDE DEF h
<1>6. IsHistory(h)'
  BY <1>1, <1>2, <1>3, <1>4, <1>5, SMTT(60) DEF IsHistory, NewStore
<1>7. \A c \in Client : Follows(h, c)'
  BY <1>1, <1>5, ZenonT(60) DEF Follows, Follower
<1> QED
  BY <1>3, <1>6, <1>7, ZenonT(60) DEF Recorded, Reflects

(***************************************************************************)
(* Initialize changes no contents.                                         *)
(***************************************************************************)
LEMMA InitializeRecords ==
  ASSUME Types, Recorded, NEW s \in 1 .. created, Initialize(s)
  PROVE  Recorded'
<1> USE DEF Types
<1>1. UNCHANGED <<current, changes, untold, service, monitor, clients, responses>>
  BY ZenonT(60) DEF Initialize
<1>2. stores \in [1 .. bound.store -> Stored] /\ s \in 1 .. bound.store /\ current \in {0, created}
      /\ created \in 1 .. bound.store
  BY SyncAssumption, SMTT(60) DEF StoreTypes
<1>3. ReadyIsSet(1 .. bound.store, stores, stores')
  <2>1. stores' = ReadySet(stores, s)
    BY ZenonT(60) DEF Initialize, ReadySet
  <2> QED
    BY <1>2, <2>1, Readied, ZenonT(60)
<1> SUFFICES ASSUME current # 0, current \notin untold
             PROVE  (\E h \in [Nat -> Contents] : Reflects(h))'
  BY <1>1, ZenonT(60) DEF Recorded
<1>4. PICK h \in [Nat -> Contents] : Reflects(h)
  BY ZenonT(60) DEF Recorded
<1>5. /\ stores'[current].items = stores[current].items
      /\ stores'[current].version = stores[current].version
      /\ stores[current].ready => stores'[current].ready
  BY <1>2, <1>3, ZenonT(60) DEF ReadyIsSet
<1>6. IsHistory(h)'
  BY <1>1, <1>4, <1>5, ZenonT(60) DEF Reflects, IsHistory, clients
<1>7. ASSUME NEW c \in Client
      PROVE  Follows(h, c)'
  <2>1. Follower(c)' => Follower(c)
    BY <1>1, ZenonT(60) DEF Follower, service, monitor, clients
  <2>2. Coming(c) => Coming(c)'
    BY <1>1, <1>5, SMTT(60) DEF Coming, Pending, service, clients
  <2>3. Overtaken(c) => Overtaken(c)'
    BY <1>1, ZenonT(60) DEF Overtaken, clients
  <2>4. Holds(h, c) => Holds(h, c)'
    BY <1>1, <1>5, ZenonT(60) DEF Holds, Pending, clients
  <2>5. Follows(h, c)
    BY <1>4, ZenonT(60) DEF Reflects
  <2> QED
    BY <2>1, <2>2, <2>3, <2>4, <2>5, ZenonT(60) DEF Follows
<1> QED
  BY <1>6, <1>7, ZenonT(60) DEF Reflects

(***************************************************************************)
(* Populate of a store that was neither ready nor changed: nobody has had  *)
(* its contents yet (store.go:263).                                        *)
(***************************************************************************)
LEMMA PopulateRecords ==
  ASSUME Types, Recorded, NEW map \in Contents, Populate(map)
  PROVE  Recorded'
<1> USE DEF Types
<1>1. /\ UNCHANGED <<current, changes, service, monitor, clients, responses>>
      /\ untold' = IF stores[current].ready \/ stores[current].version > 1
                   THEN untold \cup {current} ELSE untold
  BY ZenonT(60) DEF Populate
<1>2. stores \in [1 .. bound.store -> Stored] /\ current \in 1 .. bound.store
  BY SyncAssumption, ZenonT(60) DEF StoreTypes, Populate
<1>3. ContentsAreSet(1 .. bound.store, stores, stores', current, map)
  <2>1. stores' = ContentsSet(stores, current, map)
    BY ZenonT(60) DEF Populate, ContentsSet
  <2> QED
    BY <1>2, <2>1, Filled, ZenonT(60)
<1> SUFFICES ASSUME current # 0, current \notin untold'
             PROVE  (\E h \in [Nat -> Contents] : Reflects(h))'
  BY <1>1, ZenonT(60) DEF Recorded
<1>4. ~stores[current].ready /\ stores[current].version = 1 /\ current \notin untold
  <2>1. ~stores[current].ready /\ ~(stores[current].version > 1) /\ current \notin untold
    BY <1>1, ZenonT(60)
  <2>2. stores[current].version \in Nat \ {0}
    BY <1>2, ZenonT(60) DEF Stored
  <2> QED
    BY <2>1, <2>2, SMTT(60)
<1>5. PICK g \in [Nat -> Contents] : Reflects(g)
  BY <1>4, ZenonT(60) DEF Recorded
<1> DEFINE h == [g EXCEPT ![1] = map]
<1>6. h \in [Nat -> Contents] /\ h[1] = map
  BY <1>5, ZenonT(60)
<1>7. stores'[current].items = map /\ stores'[current].version = 1 /\ stores'[current].ready
  BY <1>3, <1>4, ZenonT(60) DEF ContentsAreSet
<1>8. /\ \A ch \in changes : ch.store # current
      /\ \A r \in responses : r.store # current
      /\ \A c \in Client : seen[c].store # current
  <2>1. IsHistory(g)
    BY <1>5, ZenonT(60) DEF Reflects
  <2>2. \A ch \in changes : ch.version \in Nat
    BY ZenonT(60) DEF StoreTypes
  <2>3. \A r \in responses : r.version \in Nat
    BY ZenonT(60) DEF ClientTypes, ResponseType
  <2>4. \A ch \in changes : ch.store # current
    BY <1>4, <2>1, <2>2, SMTT(60) DEF IsHistory
  <2>5. \A r \in responses : r.kind # "content" => r.store # current
    BY <1>4, <2>1, <2>3, SMTT(60) DEF IsHistory
  <2>6. \A r \in responses : r.kind = "content" => r.store # current
    BY <1>4, <2>1, ZenonT(60) DEF IsHistory
  <2>7. \A c \in Client : seen[c].store # current
    BY <1>4, <2>1, SMTT(60) DEF IsHistory
  <2> QED
    BY <2>4, <2>5, <2>6, <2>7, ZenonT(60)
<1> HIDE DEF h
<1>9. IsHistory(h)'
  BY <1>1, <1>6, <1>7, <1>8, ZenonT(60) DEF IsHistory, clients
<1>10. ASSUME NEW c \in Client
       PROVE  Follows(h, c)'
  <2>1. Follower(c)' => Follower(c)
    BY <1>1, ZenonT(60) DEF Follower, service, monitor, clients
  <2>2. Follower(c) => Coming(c)
    BY <1>5, <1>8, ZenonT(60) DEF Reflects, Follows, Overtaken, Holds
  <2>3. Coming(c) => Coming(c)'
    BY <1>1, <1>8, ZenonT(60) DEF Coming, service, clients
  <2> QED
    BY <2>1, <2>2, <2>3, ZenonT(60) DEF Follows
<1> QED
  BY <1>6, <1>9, <1>10, ZenonT(60) DEF Reflects

(***************************************************************************)
(* A Put or Remove on the server makes a version, and its change is on its *)
(* way to every client (store.go:312, 366).                                *)
(***************************************************************************)
LEMMA ChangedRecords ==
  ASSUME Types, Recorded, NEW s \in 1 .. created, NEW id \in Id, NEW value \in Item, Changed(s, id, value),
         UNCHANGED <<current, untold, responses, seen, replica, stale, late, mixed, listener, syncClients,
                     channel, requests, readers>>,
         \A g \in handled : g.request.kind = "open" => g \in handled'
  PROVE  Recorded'
<1> USE DEF Types
<1>0. /\ stores \in [1 .. bound.store -> Stored] /\ s \in 1 .. bound.store
      /\ created \in 1 .. bound.store /\ current \in {0, created}
  BY SyncAssumption, SMTT(60) DEF StoreTypes
<1>1. ASSUME NEW c \in Client, Follower(c)'
      PROVE  Follower(c)
  BY <1>1, ZenonT(60) DEF Follower
<1>2. CASE UNCHANGED <<stores, changes>>
  <2>1. \A c \in Client : Coming(c) => Coming(c)'
    BY <1>2, SMTT(60) DEF Coming, Pending
  <2> QED
    BY <1>1, <1>2, <2>1, RecordedFrame, ZenonT(60)
<1>3. CASE /\ ItemIsSet(1 .. bound.store, stores, stores', s, id, value, stores[s].version + 1)
           /\ changes' = changes \cup
                {[store |-> s, id |-> id, value |-> value, version |-> stores[s].version + 1]}
  <2> SUFFICES ASSUME current # 0, current \notin untold
               PROVE  (\E h \in [Nat -> Contents] : Reflects(h))'
    BY ZenonT(60) DEF Recorded
  <2>1. PICK g \in [Nat -> Contents] : Reflects(g)
    BY ZenonT(60) DEF Recorded
  <2>2. CASE s # current
    <3>1. stores'[current] = stores[current]
      BY <1>0, <1>3, <2>2, ZenonT(60) DEF ItemIsSet
    <3>2. \A ch \in changes' : ch.store = current => ch \in changes
      BY <1>3, <2>2, SMTT(60)
    <3>3. changes \subseteq changes'
      BY <1>3, ZenonT(60)
    <3>4. IsHistory(g)'
      BY <2>1, <3>1, <3>2, ZenonT(60) DEF Reflects, IsHistory
    <3>5. ASSUME NEW c \in Client
          PROVE  Follows(g, c)'
      <4>1. Coming(c) => Coming(c)'
        BY <3>1, <3>3, SMTT(60) DEF Coming, Pending
      <4>2. Overtaken(c) => Overtaken(c)'
        BY <3>3, ZenonT(60) DEF Overtaken
      <4>3. Holds(g, c) => Holds(g, c)'
        BY <3>1, <3>3, ZenonT(60) DEF Holds, Pending
      <4> QED
        BY <1>1, <2>1, <4>1, <4>2, <4>3, ZenonT(60) DEF Reflects, Follows
    <3> QED
      BY <3>4, <3>5, ZenonT(60) DEF Reflects
  <2>3. CASE s = current
    <3>1. PICK n \in Nat : n = stores[current].version /\ n > 0
      BY <1>0, <2>3, SMTT(60) DEF Stored
    <3>2. PICK new \in Contents : new = WithItem(stores[current].items, id, value)
      BY <1>0, <2>3, ZenonT(60) DEF Stored, Contents, WithItem
    <3>3. /\ stores'[current].version = n + 1 /\ stores'[current].items = new
          /\ stores'[current].ready = stores[current].ready
      BY <1>3, <2>3, <3>1, <3>2, ZenonT(60) DEF ItemIsSet
    <3>4. changes' = changes \cup {[store |-> current, id |-> id, value |-> value, version |-> n + 1]}
      BY <1>3, <2>3, <3>1, ZenonT(60)
    <3> DEFINE h == [g EXCEPT ![n + 1] = new]
    <3>5. /\ h \in [Nat -> Contents] /\ h[n + 1] = new
          /\ \A v \in Nat : v <= n => h[v] = g[v]
      BY <2>1, <3>1, <3>2, SMTT(60)
    <3> HIDE DEF h
    <3>6. IsHistory(g)
      BY <2>1, ZenonT(60) DEF Reflects
    <3>7. IsHistory(h)'
      <4>1. h[n] = stores[current].items
        BY <3>1, <3>5, <3>6, SMTT(60) DEF IsHistory
      <4>2. h[n + 1] = WithItem(h[n], id, value)
        BY <3>2, <3>5, <4>1, ZenonT(60)
      <4>3. \A ch \in changes' : ch.store = current =>
              /\ 1 < ch.version /\ ch.version <= n + 1
              /\ h[ch.version] = WithItem(h[ch.version - 1], ch.id, ch.value)
        <5>1. ASSUME NEW ch \in changes, ch.store = current
              PROVE  /\ 1 < ch.version /\ ch.version <= n + 1
                     /\ h[ch.version] = WithItem(h[ch.version - 1], ch.id, ch.value)
          <6>1. /\ ch.version \in Nat /\ 1 < ch.version /\ ch.version <= n
                /\ g[ch.version] = WithItem(g[ch.version - 1], ch.id, ch.value)
            BY <3>1, <3>6, <5>1, ZenonT(60) DEF IsHistory, StoreTypes
          <6>2. h[ch.version] = g[ch.version] /\ h[ch.version - 1] = g[ch.version - 1]
            BY <3>1, <3>5, <6>1, SMTT(60)
          <6> QED
            BY <3>1, <6>1, <6>2, SMTT(60)
        <5> QED
          BY <3>1, <3>4, <4>2, <5>1, SMTT(60)
      <4>4. \A r \in responses : r.store = current /\ r.kind # "content" =>
              /\ 1 < r.version /\ r.version <= n + 1
              /\ h[r.version] = WithItem(h[r.version - 1], r.id, r.value)
        <5>1. ASSUME NEW r \in responses, r.store = current, r.kind # "content"
              PROVE  /\ 1 < r.version /\ r.version <= n + 1
                     /\ h[r.version] = WithItem(h[r.version - 1], r.id, r.value)
          <6>1. /\ r.version \in Nat /\ 1 < r.version /\ r.version <= n
                /\ g[r.version] = WithItem(g[r.version - 1], r.id, r.value)
            BY <3>1, <3>6, <5>1, ZenonT(60) DEF IsHistory, ClientTypes, ResponseType
          <6>2. h[r.version] = g[r.version] /\ h[r.version - 1] = g[r.version - 1]
            BY <3>1, <3>5, <6>1, SMTT(60)
          <6> QED
            BY <3>1, <6>1, <6>2, SMTT(60)
        <5> QED
          BY <5>1, ZenonT(60)
      <4>5. \A r \in responses : r.store = current /\ r.kind = "content" =>
              /\ stores'[current].ready
              /\ 0 < r.version /\ r.version <= n + 1
              /\ h[r.version] = r.items
        <5>1. \A r \in responses : r.version \in Nat
          BY ZenonT(60) DEF ClientTypes, ResponseType
        <5> QED
          BY <3>1, <3>3, <3>5, <3>6, <5>1, SMTT(60) DEF IsHistory
      <4> QED
        BY <3>1, <3>3, <3>5, <4>3, <4>4, <4>5, SMTT(60) DEF IsHistory
    <3>8. ASSUME NEW c \in Client
          PROVE  Follows(h, c)'
      <4>1. \A v \in Nat : (v <= n /\ Pending(c, v)) \/ v = n + 1 => Pending(c, v)'
        <5>1. \A v \in Nat : Pending(c, v) => Pending(c, v)'
          BY <3>4, ZenonT(60) DEF Pending
        <5>2. PICK ch \in changes' : ch.store = current /\ ch.version = n + 1
          <6>1. PICK ch : ch = [store |-> current, id |-> id, value |-> value, version |-> n + 1]
            BY ZenonT(60)
          <6>2. ch.store = current /\ ch.version = n + 1 /\ ch \in changes'
            BY <3>4, <6>1, ZenonT(60)
          <6> QED
            BY <6>2, ZenonT(60)
        <5>3. Pending(c, n + 1)'
          BY <5>2, ZenonT(60) DEF Pending
        <5> QED
          BY <5>1, <5>3, ZenonT(60)
      <4>2. \A v \in Nat : v <= n + 1 => v <= n \/ v = n + 1
        BY <3>1, SMTT(60)
      <4>3. Coming(c) => Coming(c)'
        BY <3>1, <3>3, <4>1, <4>2, ZenonT(60) DEF Coming
      <4>4. Overtaken(c) => Overtaken(c)'
        BY <3>4, ZenonT(60) DEF Overtaken
      <4>5. Holds(g, c) => Holds(h, c)'
        <5>1. seen[c].version \in Nat
          BY ZenonT(60) DEF ClientTypes
        <5> QED
          BY <3>1, <3>3, <3>5, <4>1, <4>2, <5>1, SMTT(60) DEF Holds
      <4> QED
        BY <1>1, <2>1, <4>3, <4>4, <4>5, ZenonT(60) DEF Reflects, Follows
    <3> QED
      BY <3>5, <3>7, <3>8, ZenonT(60) DEF Reflects
  <2> QED
    BY <2>2, <2>3, ZenonT(60)
<1> QED
  BY <1>2, <1>3, ChangedEffect, ZenonT(60)

(***************************************************************************)
(* A change told to the listener goes to every client that is served.      *)
(***************************************************************************)
LEMMA TellRecords ==
  ASSUME Types, Entries, Listens, Recorded, NEW change \in changes, TellChange(change)
  PROVE  Recorded'
<1> USE DEF Types
<1> DEFINE Told(c) == [client |-> c, kind |-> "update", store |-> change.store, version |-> change.version,
                       id |-> change.id, value |-> change.value]
<1>1. /\ UNCHANGED <<stores, current, untold, service, monitor, clients>>
      /\ changes' = changes \ {change} /\ responses \subseteq responses'
  BY ZenonT(60) DEF TellChange
<1>2. \A r \in responses' : r \in responses \/ \E c \in listener.channels : r = Told(c)
  BY ZenonT(60) DEF TellChange
<1>3. ASSUME NEW c \in Client, Follower(c), change.store = current
      PROVE  Told(c) \in responses'
  <2>1. channel[c] # 0 /\ c \in listener.channels /\ listener.store = current
    BY <1>3, FollowerListens, ZenonT(60) DEF Follower
  <2> QED
    BY <1>3, <2>1, ZenonT(60) DEF TellChange
<1>4. \A c : /\ Told(c).client = c /\ Told(c).kind = "update" /\ Told(c).store = change.store
             /\ Told(c).version = change.version /\ Told(c).id = change.id /\ Told(c).value = change.value
  BY ZenonT(60)
<1> HIDE DEF Told
<1> SUFFICES ASSUME current # 0, current \notin untold
             PROVE  (\E h \in [Nat -> Contents] : Reflects(h))'
  BY <1>1, ZenonT(60) DEF Recorded
<1>5. PICK h \in [Nat -> Contents] : Reflects(h)
  BY ZenonT(60) DEF Recorded
<1>6. IsHistory(h)'
  <2>1. IsHistory(h)
    BY <1>5, ZenonT(60) DEF Reflects
  <2>2. \A r \in responses' : r.store = current /\ r.kind # "content" =>
          /\ 1 < r.version /\ r.version <= stores[current].version
          /\ h[r.version] = WithItem(h[r.version - 1], r.id, r.value)
    BY <1>2, <1>4, <2>1, SMTT(60) DEF IsHistory
  <2>3. \A r \in responses' : r.kind = "content" => r \in responses
    BY <1>2, <1>4, ZenonT(60)
  <2> QED
    BY <1>1, <2>1, <2>2, <2>3, ZenonT(60) DEF IsHistory, clients
<1>7. ASSUME NEW c \in Client, Follower(c)'
      PROVE  Coming(c)' \/ Overtaken(c)' \/ Holds(h, c)'
  <2>1. Follower(c)
    BY <1>1, <1>7, ZenonT(60) DEF Follower, service, monitor, clients
  <2>2. \A v \in Nat : Pending(c, v) => Pending(c, v)'
    <3>1. ASSUME NEW v \in Nat, Pending(c, v)
          PROVE  Pending(c, v)'
      <4>1. CASE change.store = current /\ change.version = v
        BY <1>1, <1>3, <1>4, <2>1, <4>1, ZenonT(60) DEF Pending
      <4>2. CASE ~(change.store = current /\ change.version = v)
        BY <1>1, <3>1, <4>2, ZenonT(60) DEF Pending
      <4> QED
        BY <4>1, <4>2, ZenonT(60)
    <3> QED
      BY <3>1, ZenonT(60)
  <2>3. Coming(c) => Coming(c)'
    BY <1>1, <2>2, ZenonT(60) DEF Coming, service, clients
  <2>4. Overtaken(c) => Overtaken(c)'
    <3>1. CASE change.store = current /\ change.version < seen[c].version
      BY <1>1, <1>3, <1>4, <2>1, <3>1, ZenonT(60) DEF Overtaken, clients
    <3>2. CASE ~(change.store = current /\ change.version < seen[c].version)
      BY <1>1, <3>2, ZenonT(60) DEF Overtaken, clients
    <3> QED
      BY <3>1, <3>2, ZenonT(60)
  <2>5. Holds(h, c) => Holds(h, c)'
    BY <1>1, <2>2, ZenonT(60) DEF Holds, clients
  <2> QED
    BY <1>5, <2>1, <2>3, <2>4, <2>5, ZenonT(60) DEF Reflects, Follows
<1> QED
  BY <1>6, <1>7, ZenonT(60) DEF Reflects, Follows

(***************************************************************************)
(* The contents are sent with their version: every later change is still   *)
(* to come (store_sync_service.go:160).                                    *)
(***************************************************************************)
LEMMA ContentRecords ==
  ASSUME Types, Entries, Listens, Recorded, NEW reader \in readers, SendContent(reader)
  PROVE  Recorded'
<1> USE DEF Types
<1>1. /\ UNCHANGED <<syncClients, openStores, listener, handled, late, mixed, server, monitor, clients>>
      /\ readers' = readers \ {reader} /\ responses \subseteq responses'
      /\ stores[reader.store].ready
  BY ZenonT(60) DEF SendContent
<1>2. PICK sent1 : sent1 = [client |-> reader.client, kind |-> "content", request |-> reader.request,
                            store |-> reader.store, version |-> stores[reader.store].version,
                            items |-> stores[reader.store].items]
  BY ZenonT(60)
<1>3. /\ sent1.client = reader.client /\ sent1.kind = "content" /\ sent1.store = reader.store
      /\ sent1.version = stores[reader.store].version /\ sent1.items = stores[reader.store].items
  BY <1>2, ZenonT(60)
<1>4. /\ \A r \in responses' : r \in responses \/ r = sent1
      /\ channel[reader.client] # 0 => sent1 \in responses'
  BY <1>2, ZenonT(60) DEF SendContent
<1> SUFFICES ASSUME current # 0, current \notin untold
             PROVE  (\E h \in [Nat -> Contents] : Reflects(h))'
  BY <1>1, ZenonT(60) DEF Recorded, server
<1>5. PICK h \in [Nat -> Contents] : Reflects(h)
  BY ZenonT(60) DEF Recorded
<1>6. stores[current].version \in Nat \ {0}
  BY SyncAssumption, ZenonT(60) DEF StoreTypes, Stored
<1>7. IsHistory(h)'
  <2>1. IsHistory(h)
    BY <1>5, ZenonT(60) DEF Reflects
  <2>2. \A r \in responses' : r.store = current /\ r.kind = "content" =>
          /\ stores[current].ready
          /\ 0 < r.version /\ r.version <= stores[current].version
          /\ h[r.version] = r.items
    BY <1>1, <1>3, <1>4, <1>6, <2>1, SMTT(60) DEF IsHistory
  <2>3. \A r \in responses' : r.kind # "content" => r \in responses
    BY <1>3, <1>4, ZenonT(60)
  <2> QED
    BY <1>1, <2>1, <2>2, <2>3, ZenonT(60) DEF IsHistory, clients, server
<1>8. ASSUME NEW c \in Client, Follower(c)'
      PROVE  Coming(c)' \/ Overtaken(c)' \/ Holds(h, c)'
  <2>1. Follower(c)
    BY <1>1, <1>8, ZenonT(60) DEF Follower, server, monitor, clients
  <2>2. \A v \in Nat : Pending(c, v) => Pending(c, v)'
    BY <1>1, ZenonT(60) DEF Pending, server
  <2>3. Coming(c) => Coming(c)'
    <3>1. CASE reader.client = c /\ reader.store = current
      <4>1. sent1 \in responses'
        BY <1>4, <2>1, <3>1, FollowerListens, ZenonT(60)
      <4>2. /\ sent1.client = c /\ sent1.kind = "content" /\ sent1.store = current'
            /\ \A v \in Nat : sent1.version < v /\ v <= stores'[current'].version => Pending(c, v)'
        BY <1>1, <1>3, <1>6, <3>1, SMTT(60) DEF server
      <4> QED
        BY <4>1, <4>2, ZenonT(60) DEF Coming
    <3>2. CASE ~(reader.client = c /\ reader.store = current)
      BY <1>1, <2>2, <3>2, ZenonT(60) DEF Coming, server, clients
    <3> QED
      BY <3>1, <3>2, ZenonT(60)
  <2>4. Overtaken(c) => Overtaken(c)'
    BY <1>1, ZenonT(60) DEF Overtaken, server, clients
  <2>5. Holds(h, c) => Holds(h, c)'
    BY <1>1, <2>2, ZenonT(60) DEF Holds, server, clients
  <2> QED
    BY <1>5, <2>1, <2>3, <2>4, <2>5, ZenonT(60) DEF Reflects, Follows
<1> QED
  BY <1>7, <1>8, ZenonT(60) DEF Reflects, Follows

(***************************************************************************)
(* Responses are dropped only for clients without a channel.               *)
(***************************************************************************)
LEMMA LoseRecords ==
  ASSUME Types, Entries, Listens, Recorded, NEW r \in responses, Lose(r)
  PROVE  Recorded'
<1>1. /\ UNCHANGED <<server, service, monitor, clients>>
      /\ responses' = responses \ {r} /\ channel[r.client] = 0
  BY ZenonT(60) DEF Lose
<1> SUFFICES ASSUME current # 0, current \notin untold
             PROVE  (\E h \in [Nat -> Contents] : Reflects(h))'
  BY <1>1, ZenonT(60) DEF Recorded, server
<1>2. PICK h \in [Nat -> Contents] : Reflects(h)
  BY ZenonT(60) DEF Recorded
<1>3. IsHistory(h)'
  BY <1>1, <1>2, ZenonT(60) DEF Reflects, IsHistory, server, clients
<1>4. ASSUME NEW c \in Client, Follower(c)'
      PROVE  Coming(c)' \/ Overtaken(c)' \/ Holds(h, c)'
  <2>1. Follower(c)
    BY <1>1, <1>4, ZenonT(60) DEF Follower, server, service, monitor, clients
  <2>2. c # r.client
    BY <1>1, <2>1, FollowerListens, ZenonT(60)
  <2>3. \A v \in Nat : Pending(c, v) => Pending(c, v)'
    BY <1>1, <2>2, ZenonT(60) DEF Pending, server
  <2>4. Coming(c) => Coming(c)'
    BY <1>1, <2>2, <2>3, ZenonT(60) DEF Coming, server, service, clients
  <2>5. Overtaken(c) => Overtaken(c)'
    BY <1>1, <2>2, ZenonT(60) DEF Overtaken, server, clients
  <2>6. Holds(h, c) => Holds(h, c)'
    BY <1>1, <2>3, ZenonT(60) DEF Holds, server, clients
  <2> QED
    BY <1>2, <2>1, <2>4, <2>5, <2>6, ZenonT(60) DEF Reflects, Follows
<1> QED
  BY <1>3, <1>4, ZenonT(60) DEF Reflects, Follows

\* A version and the next one.
LEMMA Numbers ==
  ASSUME NEW a \in Nat, NEW b \in Nat
  PROVE  /\ a + 1 \in Nat /\ (a + 1) - 1 = a /\ a < a + 1
         /\ 1 < a => a - 1 \in Nat /\ 0 < a
         /\ a < b \/ b <= a
         /\ a <= b /\ b <= a + 1 => b = a \/ b = a + 1
  BY SMTT(60)

\* Versions in order.
LEMMA Between ==
  ASSUME NEW a \in Nat, NEW b \in Nat, NEW v \in Nat
  PROVE  /\ a <= b /\ b < v => a < v /\ v # a /\ v # b
         /\ a < b /\ b <= v => a <= v /\ a # b
  BY SMTT(60)

\* An item set twice to the same value.
LEMMA SetTwice ==
  ASSUME NEW map \in Contents, NEW id \in Id, NEW value \in Item
  PROVE  WithItem(WithItem(map, id, value), id, value) = WithItem(map, id, value)
  BY ZenonT(60) DEF WithItem, Contents

(***************************************************************************)
(* A response applied by a client that is served: contents bring it to     *)
(* their version; an update brings it to the next version, or overtakes    *)
(* another that is still on its way (store.go:155).                        *)
(***************************************************************************)
LEMMA ReceivedFollows ==
  ASSUME Types, NEW h \in [Nat -> Contents], IsHistory(h), NEW r \in responses, NEW c \in Client,
         c = r.client, Receive(r), current # 0, Follower(c), Follows(h, c),
         replica'[c] = Applied(replica[c], r), ~Older(r, seen[c]),
         seen'[c] = [store |-> r.store, version |-> r.version]
  PROVE  Coming(c)' \/ Overtaken(c)' \/ Holds(h, c)'
<1> USE DEF Types
<1>1. /\ responses' = responses \ {r}
      /\ UNCHANGED <<stores, current, created, changes, requests, handled, readers>>
  BY ZenonT(60) DEF Receive, server, service
<1>2. /\ ResponseType(r) /\ r.version \in Nat /\ r.store \in 1 .. created /\ replica[c] \in Replica
      /\ seen[c].store \in Nat /\ seen[c].version \in Nat /\ created \in Nat /\ current = created
      /\ stores[current].version \in Nat
  <2>1. /\ ResponseType(r) /\ r.version \in Nat /\ r.store \in 1 .. created /\ replica[c] \in Replica
        /\ seen[c] \in [store : Nat, version : Nat]
    BY ZenonT(60) DEF ClientTypes, ResponseType
  <2>2. seen[c].store \in Nat /\ seen[c].version \in Nat
    BY <2>1, ZenonT(60)
  <2>3. bound.store \in Nat \ {0} /\ created \in 1 .. bound.store /\ current = created
    BY SyncAssumption, ZenonT(60) DEF StoreTypes
  <2>4. created \in Nat
    BY <2>3, SMTT(60)
  <2>5. stores[current] \in [items : Contents, version : Nat \ {0}, ready : Flag]
    BY <2>3, ZenonT(60) DEF StoreTypes, Stored
  <2>6. stores[current].version \in Nat
    BY <2>5, ZenonT(60)
  <2> QED
    BY <2>1, <2>2, <2>3, <2>4, <2>6, ZenonT(60)
<1>3. seen'[c].store = r.store /\ seen'[c].version = r.version
  BY SMTT(60)
<1>4. Coming(c) \/ Overtaken(c) \/ Holds(h, c)
  BY ZenonT(60) DEF Follows
<1>5. \A v \in Nat : Pending(c, v) /\ (r.kind = "content" \/ r.store # current \/ v # r.version) => Pending(c, v)'
  BY <1>1, ZenonT(60) DEF Pending
<1>6. CASE r.store # current
  <2>1. seen[c].store # current
    BY <1>2, <1>6, SMTT(60) DEF Older
  <2>2. Coming(c)
    BY <1>4, <2>1, ZenonT(60) DEF Overtaken, Holds
  <2>3. \A v \in Nat : Pending(c, v) => Pending(c, v)'
    BY <1>5, <1>6, ZenonT(60)
  <2> QED
    BY <1>1, <1>6, <2>2, <2>3, ZenonT(60) DEF Coming
<1>7. CASE r.store = current
  <2>1. seen[c].store = current => seen[c].version <= r.version
    BY <1>2, <1>7, SMTT(60) DEF Older
  <2>2. Overtaken(c) => Overtaken(c)'
    <3>1. SUFFICES ASSUME Overtaken(c) PROVE Overtaken(c)'
      BY ZenonT(60)
    <3>2. seen[c].version <= r.version
      BY <2>1, <3>1, ZenonT(60) DEF Overtaken
    <3>3. CASE \E ch \in changes : ch.store = current /\ ch.version < seen[c].version
      <4>1. PICK ch \in changes : ch.store = current /\ ch.version < seen[c].version
        BY <3>3, ZenonT(60)
      <4>2. ch.version < r.version
        BY <1>2, <3>2, <4>1, SMTT(60) DEF StoreTypes
      <4> QED
        BY <1>1, <1>3, <1>7, <4>1, <4>2, ZenonT(60) DEF Overtaken
    <3>4. CASE \E q \in responses : q.client = c /\ q.store = current /\ q.version < seen[c].version
      <4>1. PICK q \in responses : q.client = c /\ q.store = current /\ q.version < seen[c].version
        BY <3>4, ZenonT(60)
      <4>2. q.version < r.version /\ q # r
        BY <1>2, <3>2, <4>1, SMTT(60) DEF ClientTypes, ResponseType
      <4> QED
        BY <1>1, <1>3, <1>7, <4>1, <4>2, ZenonT(60) DEF Overtaken
    <3> QED
      BY <3>1, <3>3, <3>4, ZenonT(60) DEF Overtaken
  <2>3. CASE r.kind = "content"
    <3>1. \A v \in Nat : Pending(c, v) => Pending(c, v)'
      BY <1>5, <2>3, ZenonT(60)
    <3>2. CASE \A v \in Nat : r.version < v /\ v <= stores[current].version => Pending(c, v)
      <4>1. 0 < r.version /\ r.version <= stores[current].version /\ h[r.version] = r.items
        BY <1>7, <2>3, ZenonT(60) DEF IsHistory
      <4>2. replica'[c].at = "ready" /\ replica'[c].items = r.items /\ replica'[c].version = r.version
        BY <1>2, <2>3, AppliedEffect, SMTT(60)
      <4> QED
        BY <1>1, <1>3, <1>7, <3>1, <3>2, <4>1, <4>2, ZenonT(60) DEF Holds
    <3>3. CASE ~(\A v \in Nat : r.version < v /\ v <= stores[current].version => Pending(c, v))
      <4>1. ~Holds(h, c)
        BY <1>2, <2>1, <3>3, SMTT(60) DEF Holds
      <4>2. Coming(c) => Coming(c)'
        BY <1>1, <3>1, <3>3, ZenonT(60) DEF Coming
      <4> QED
        BY <1>4, <2>2, <4>1, <4>2, ZenonT(60)
    <3> QED
      BY <3>2, <3>3, ZenonT(60)
  <2>4. CASE r.kind # "content"
    <3>1. /\ 1 < r.version /\ r.version <= stores[current].version
          /\ h[r.version] = WithItem(h[r.version - 1], r.id, r.value)
      BY <1>7, <2>4, ZenonT(60) DEF IsHistory
    <3>2. /\ replica'[c].at = replica[c].at /\ replica'[c].version = r.version
          /\ replica'[c].items = WithItem(replica[c].items, r.id, r.value)
      BY <1>2, <2>4, AppliedEffect, SMTT(60)
    <3>3. ASSUME Coming(c)
          PROVE  Coming(c)' \/ Overtaken(c)'
      <4>1. CASE \E q \in responses :
                   /\ q.client = c /\ q.kind = "content" /\ q.store = current
                   /\ \A v \in Nat : q.version < v /\ v <= stores[current].version => Pending(c, v)
        <5>1. PICK q \in responses :
                   /\ q.client = c /\ q.kind = "content" /\ q.store = current
                   /\ \A v \in Nat : q.version < v /\ v <= stores[current].version => Pending(c, v)
          BY <4>1, ZenonT(60)
        <5>2. q \in responses' /\ q.version \in Nat
          BY <1>1, <2>4, <5>1, ZenonT(60) DEF ClientTypes, ResponseType
        <5>3. CASE q.version < r.version
          BY <1>1, <1>3, <1>7, <5>1, <5>2, <5>3, ZenonT(60) DEF Overtaken
        <5>4. CASE r.version <= q.version
          <6>1. \A v \in Nat : q.version < v /\ v <= stores[current].version => Pending(c, v)'
            BY <1>2, <1>5, <5>1, <5>2, <5>4, Between, ZenonT(60)
          <6> QED
            BY <1>1, <5>1, <5>2, <6>1, ZenonT(60) DEF Coming
        <5> QED
          BY <1>2, <5>2, <5>3, <5>4, Numbers, ZenonT(60)
      <4>2. CASE ~(\E q \in responses :
                     /\ q.client = c /\ q.kind = "content" /\ q.store = current
                     /\ \A v \in Nat : q.version < v /\ v <= stores[current].version => Pending(c, v))
        BY <1>1, <3>3, <4>2, ZenonT(60) DEF Coming
      <4> QED
        BY <4>1, <4>2, ZenonT(60)
    <3>4. ASSUME Holds(h, c)
          PROVE  Overtaken(c)' \/ Holds(h, c)'
      <4>1. /\ seen[c].version <= r.version /\ 0 < seen[c].version
            /\ replica[c].at = "ready" /\ replica[c].items = h[seen[c].version]
            /\ \A v \in Nat : seen[c].version < v /\ v <= stores[current].version => Pending(c, v)
        BY <2>1, <3>4, ZenonT(60) DEF Holds
      <4>2. CASE r.version <= seen[c].version + 1
        <5>1. replica'[c].items = h[r.version]
          <6>1. r.id \in Id /\ r.value \in Item /\ h[r.version - 1] \in Contents
            BY <1>2, <2>4, <3>1, Numbers, ZenonT(60) DEF ResponseType
          <6>2. CASE r.version = seen[c].version
            BY <3>1, <3>2, <4>1, <6>1, <6>2, SetTwice, SMTT(60)
          <6>3. CASE r.version = seen[c].version + 1
            <7>1. r.version - 1 = seen[c].version
              BY <1>2, <6>3, Numbers, ZenonT(60)
            <7> QED
              BY <3>1, <3>2, <4>1, <7>1, ZenonT(60)
          <6> QED
            BY <1>2, <4>1, <4>2, <6>2, <6>3, Numbers, ZenonT(60)
        <5>2. \A v \in Nat : r.version < v /\ v <= stores[current].version => Pending(c, v)'
          BY <1>2, <1>5, <4>1, Between, ZenonT(60)
        <5>3. 0 < r.version
          BY <1>2, <3>1, Numbers, ZenonT(60)
        <5>4. stores'[current'].version = stores[current].version /\ current' = current
          BY <1>1, ZenonT(60)
        <5> QED
          BY <1>3, <1>7, <3>1, <3>2, <4>1, <5>1, <5>2, <5>3, <5>4, ZenonT(60) DEF Holds
      <4>3. CASE seen[c].version + 1 < r.version
        <5>1. PICK v \in Nat : v = seen[c].version + 1
          BY <1>2, Numbers, ZenonT(60)
        <5>2. Pending(c, v)' /\ v < r.version
          <6>1. seen[c].version < v /\ v < r.version
            BY <1>2, <4>3, <5>1, Numbers, ZenonT(60)
          <6>2. v <= stores[current].version /\ v # r.version
            BY <1>2, <3>1, <6>1, Between, ZenonT(60)
          <6> QED
            BY <1>5, <4>1, <6>1, <6>2, ZenonT(60)
        <5> QED
          BY <1>1, <1>3, <1>7, <5>2, ZenonT(60) DEF Pending, Overtaken
      <4> QED
        BY <1>2, <4>2, <4>3, Numbers, ZenonT(60)
    <3> QED
      BY <1>4, <2>2, <3>3, <3>4, ZenonT(60)
  <2> QED
    BY <2>3, <2>4, ZenonT(60)
<1> QED
  BY <1>6, <1>7, ZenonT(60)

(***************************************************************************)
(* A response received keeps the clients in step.                          *)
(***************************************************************************)
LEMMA ReceiveRecords ==
  ASSUME Types, Recorded, NEW r \in responses, Receive(r)
  PROVE  Recorded'
<1> USE DEF Types
<1>1. /\ responses' = responses \ {r} /\ UNCHANGED <<requests, sent, server, service, monitor>>
  BY ZenonT(60) DEF Receive
<1>2. r.client \in Client /\ seen \in [Client -> [store : Nat, version : Nat]] /\ replica \in [Client -> Replica]
  BY ZenonT(60) DEF ClientTypes, ResponseType
<1>3. \A c \in Client : c # r.client =>
        /\ seen'[c] = seen[c] /\ replica'[c] = replica[c]
        /\ c \notin stale' => c \notin stale
  BY <1>2, ZenonT(60) DEF Receive
<1>4. CASE current = 0
  BY <1>1, <1>4, ZenonT(60) DEF Recorded, server
<1>5. CASE current # 0
  <2> SUFFICES ASSUME current \notin untold
               PROVE  (\E h \in [Nat -> Contents] : Reflects(h))'
    BY <1>1, ZenonT(60) DEF Recorded, server
  <2>1. PICK h \in [Nat -> Contents] : Reflects(h)
    BY <1>5, ZenonT(60) DEF Recorded
  <2>2. IsHistory(h)
    BY <2>1, ZenonT(60) DEF Reflects
  <2>3. \A c \in Client : seen'[c].store = current => stores[current].ready \/ stores[current].version > 1
    <3>1. r.store = current => stores[current].ready \/ stores[current].version > 1
      <4>1. r.version \in Nat /\ stores[current].version \in Nat
        BY <1>5, SyncAssumption, ZenonT(60) DEF ClientTypes, ResponseType, StoreTypes, Stored
      <4> QED
        BY <2>2, <4>1, SMTT(60) DEF IsHistory
    <3>2. seen'[r.client].store \in {seen[r.client].store, r.store}
      BY <1>2, SMTT(60) DEF Receive
    <3> QED
      BY <1>2, <1>3, <2>2, <3>1, <3>2, ZenonT(60) DEF IsHistory
  <2>4. IsHistory(h)'
    BY <1>1, <2>2, <2>3, ZenonT(60) DEF IsHistory, server
  <2>5. ASSUME NEW c \in Client, c # r.client, Follower(c)'
        PROVE  Coming(c)' \/ Overtaken(c)' \/ Holds(h, c)'
    <3>1. Follower(c)
      BY <1>1, <1>3, <2>5, ZenonT(60) DEF Follower, server, service, monitor
    <3>2. \A v \in Nat : Pending(c, v) => Pending(c, v)'
      BY <1>1, <2>5, ZenonT(60) DEF Pending, server
    <3>3. Coming(c) => Coming(c)'
      BY <1>1, <2>5, <3>2, ZenonT(60) DEF Coming, server, service
    <3>4. Overtaken(c) => Overtaken(c)'
      BY <1>1, <1>3, <2>5, ZenonT(60) DEF Overtaken, server
    <3>5. Holds(h, c) => Holds(h, c)'
      BY <1>1, <1>3, <2>5, <3>2, ZenonT(60) DEF Holds, server
    <3> QED
      BY <2>1, <3>1, <3>3, <3>4, <3>5, ZenonT(60) DEF Reflects, Follows
  <2>6. ASSUME NEW c \in Client, c = r.client, Follower(c)'
        PROVE  Coming(c)' \/ Overtaken(c)' \/ Holds(h, c)'
    <3>1. replica[c].at # "closed"
      BY <2>6, ZenonT(60) DEF Receive, Follower
    <3>2. ~Older(r, seen[c])
      BY <2>6, <3>1, ZenonT(60) DEF Receive, Follower
    <3>3. /\ replica'[c] = Applied(replica[c], r)
          /\ seen'[c] = [store |-> r.store, version |-> r.version]
          /\ stale' = stale
      BY <1>2, <2>6, <3>1, <3>2, ZenonT(60) DEF Receive
    <3>4. Follower(c)
      BY <1>1, <2>6, <3>1, <3>3, ZenonT(60) DEF Follower, server, service, monitor
    <3>5. Follows(h, c)
      BY <2>1, ZenonT(60) DEF Reflects
    <3> QED
      BY <1>5, <2>2, <2>6, <3>2, <3>3, <3>4, <3>5, ReceivedFollows, ZenonT(60)
  <2> QED
    BY <2>4, <2>5, <2>6, ZenonT(60) DEF Reflects, Follows
<1> QED
  BY <1>4, <1>5, ZenonT(60)

(***************************************************************************)
(* Every step keeps the clients that are served in step with the store.    *)
(***************************************************************************)
LEMMA RecordedKept ==
  ASSUME SyncInv, Step, UNCHANGED bound
  PROVE  Recorded'
<1> USE DEF SyncInv
<1>1. CASE DestroyStore
  BY <1>1, ZenonT(60) DEF DestroyStore, Recorded
<1>2. ASSUME NEW id \in Id, NEW value \in Item, Update(id, value)
      PROVE  Recorded'
  <2>1. current \in 1 .. created
    BY <1>2, SMTT(60) DEF Update, Types, StoreTypes
  <2>2. UNCHANGED <<current, untold, responses, service, monitor, clients>>
    BY <1>2, ZenonT(60) DEF Update
  <2> QED
    BY <1>2, <2>1, <2>2, ChangedRecords, ZenonT(60) DEF Update, service, monitor, clients
<1>3. ASSUME NEW g \in handled, updateStore(g)
      PROVE  Recorded'
  <2>1. g.store \in 1 .. created /\ g.request.id \in Id /\ g.request.value \in Item
    BY <1>3, ZenonT(60) DEF updateStore, Types, ServiceTypes, RequestType
  <2>2. \A k \in handled : k.request.kind = "open" => k \in handled'
    BY <1>3, ZenonT(60) DEF updateStore
  <2>3. /\ UNCHANGED <<readers, syncClients, openStores, listener, late, mixed, current, created, untold>>
        /\ UNCHANGED <<monitor, clients, responses>>
    BY <1>3, ZenonT(60) DEF updateStore
  <2> QED
    BY <1>3, <2>1, <2>2, <2>3, ChangedRecords, ZenonT(60) DEF updateStore, monitor, clients
<1> QED
  BY <1>1, <1>2, <1>3, Operations, CreateRecords, InitializeRecords, PopulateRecords, TellRecords,
     MonitorRecords, HearRecords, OpenRecords, CloseRecords, ContentRecords, ClientRecords,
     ReceiveRecords, LoseRecords, ZenonT(60)

(***************************************************************************)
(* The first state.                                                        *)
(***************************************************************************)
LEMMA InitHolds ==
  ASSUME Init
  PROVE  SyncInv
<1>0. bound \in Bounds /\ bound.store \in Nat \ {0}
  BY SyncAssumption, ZenonT(60) DEF Init
<1>1. Empty \in Contents
  BY ZenonT(60) DEF Empty, Contents, Item
<1>2. StoreTypes
  BY <1>0, NewStoreType, SMTT(60) DEF Init, StoreTypes
<1>3. ServiceTypes
  BY SMTT(60) DEF Init, NoListener, ServiceTypes
<1>4. ClientTypes
  BY <1>1, SMTT(60) DEF Init, Closed, Unseen, Replica, ClientTypes
<1>5. ChannelTypes
  BY ZenonT(60) DEF Init, ChannelTypes
<1>6. Entries
  BY SMTT(60) DEF Init, Entries
<1>7. Listens
  BY ZenonT(60) DEF Init, NoListener, Listens
<1>8. Unused
  BY ZenonT(60) DEF Init, Unused
<1>9. Recorded
  <2> DEFINE h == [n \in Nat |-> Empty]
  <2>1. h \in [Nat -> Contents] /\ h[1] = Empty
    BY <1>1, ZenonT(60)
  <2> HIDE DEF h
  <2>2. stores[current].version = 1 /\ stores[current].items = Empty
    BY <1>0, SMTT(60) DEF Init, NewStore
  <2>3. \A c \in Client : seen[c].store # current
    BY SMTT(60) DEF Init, Unseen
  <2>4. IsHistory(h)
    BY <2>1, <2>2, <2>3, ZenonT(60) DEF Init, IsHistory
  <2>5. \A c \in Client : ~Follower(c)
    BY ZenonT(60) DEF Init, NoListener, Follower
  <2> QED
    BY <2>1, <2>4, <2>5, ZenonT(60) DEF Recorded, Reflects, Follows
<1> QED
  BY <1>2, <1>3, <1>4, <1>5, <1>6, <1>7, <1>8, <1>9, ZenonT(60) DEF SyncInv, Types

(***************************************************************************)
(* The inductive invariant holds of every behaviour, for any clients,      *)
(* items, values and bounds.                                               *)
(***************************************************************************)
THEOREM Invariant == Spec => []SyncInv
<1>1. SyncInv /\ [Next]_vars => SyncInv'
  <2>1. ASSUME SyncInv, Next
        PROVE  SyncInv'
    <3>1. Step /\ UNCHANGED bound
      BY <2>1, ZenonT(60) DEF Next
    <3>2. Types'
      BY <2>1, <3>1, StoreTypesKept, ServiceTypesKept, ClientTypesKept, ChannelTypesKept, ZenonT(60) DEF SyncInv, Types
    <3>3. Entries' /\ Listens' /\ Unused' /\ Recorded'
      BY <2>1, <3>1, EntriesKept, ListensKept, UnusedKept, RecordedKept, ZenonT(60) DEF SyncInv
    <3> QED
      BY <3>2, <3>3, ZenonT(60) DEF SyncInv
  <2>2. ASSUME SyncInv, UNCHANGED vars
        PROVE  SyncInv'
    <3>1. UNCHANGED <<bound, stores, current, created, changes, untold, readers, syncClients, openStores, listener,
                      handled, late, mixed, channel, subscriptions, listening, destroyed, loop, replica, seen,
                      stale, requests, responses>>
      BY <2>2, ZenonT(60) DEF vars, server, service, monitor, clients
    <3>2. Types'
      BY <2>2, <3>1, ZenonT(60) DEF SyncInv, Types, StoreTypes, ServiceTypes, ClientTypes, ChannelTypes
    <3>3. Entries' /\ Listens' /\ Unused'
      BY <2>2, <3>1, ZenonT(60) DEF SyncInv, Entries, Listens, Unused
    <3>4. Recorded'
      <4>1. ASSUME NEW c \in Client, Follower(c)'
            PROVE  Follower(c) /\ (Coming(c) => Coming(c)')
        BY <3>1, <4>1, ComingKept, ZenonT(60) DEF Follower
      <4> QED
        BY <2>2, <3>1, <4>1, RecordedFrame, ZenonT(60) DEF SyncInv
    <3> QED
      BY <3>2, <3>3, <3>4, ZenonT(60) DEF SyncInv
  <2> QED
    BY <2>1, <2>2, ZenonT(60)
<1> QED
  BY <1>1, InitHolds, PTL DEF Spec

(***************************************************************************)
(* When nothing is under way, a galactic store that is open and served     *)
(* holds the contents and the version of the server's store                *)
(* (store_sync_service.go:132, store.go:155), with the exceptions that     *)
(* QuietReplicasAgree names.                                               *)
(***************************************************************************)
THEOREM ReplicasAgree == Spec => []QuietReplicasAgree
<1>1. SyncInv => QuietReplicasAgree
  <2> SUFFICES ASSUME SyncInv, Quiet, ~late, current # 0, current \notin untold, listener.store = current,
                      NEW c \in listener.channels \ (stale \cup mixed), replica[c].at # "closed"
               PROVE  replica[c] = [at |-> "ready", items |-> stores[current].items,
                                    version |-> stores[current].version]
    BY ZenonT(60) DEF QuietReplicasAgree
  <2>1. c \in Client
    BY ZenonT(60) DEF SyncInv, Types, ServiceTypes
  <2>2. syncClients[c] = channel[c]
    BY <2>1, ZenonT(60) DEF SyncInv, Entries, Listens, Quiet
  <2>3. PICK h \in [Nat -> Contents] : Reflects(h)
    BY ZenonT(60) DEF SyncInv, Recorded
  <2>4. Follower(c)
    BY <2>2, ZenonT(60) DEF Follower
  <2>5. ~Coming(c) /\ ~Overtaken(c) /\ \A v \in Nat : ~Pending(c, v)
    BY ZenonT(60) DEF Quiet, Coming, Overtaken, Pending
  <2>6. Holds(h, c)
    BY <2>1, <2>3, <2>4, <2>5, ZenonT(60) DEF Reflects, Follows
  <2>7. /\ stores[current].version \in Nat /\ seen[c].version \in Nat
        /\ replica[c] \in Replica
    BY <2>1, SyncAssumption, ZenonT(60) DEF SyncInv, Types, StoreTypes, Stored, ClientTypes
  <2>8. seen[c].version = stores[current].version
    BY <2>5, <2>6, <2>7, SMTT(60) DEF Holds
  <2>9. /\ replica[c].at = "ready" /\ replica[c].version = stores[current].version
        /\ replica[c].items = stores[current].items
    BY <2>3, <2>6, <2>8, ZenonT(60) DEF Holds, Reflects, IsHistory
  <2> QED
    BY <2>7, <2>9, ZenonT(60) DEF Replica
<1> QED
  BY <1>1, Invariant, PTL

(***************************************************************************)
(* With all sync channels destroyed and the events handled, the sync       *)
(* service holds no client and no listener                                 *)
(* (store_sync_service.go:109), unless an openStore was waiting for the    *)
(* lock when its client was closed.                                        *)
(***************************************************************************)
THEOREM ServiceIsLeftEmpty == Spec => []NothingLeft
<1>1. SyncInv => NothingLeft
  <2> SUFFICES ASSUME SyncInv, \A c \in Client : channel[c] = 0, destroyed = {}, ~late
               PROVE  listener = NoListener /\ \A c \in Client : syncClients[c] = 0
    BY ZenonT(60) DEF NothingLeft
  <2>1. \A c \in Client : syncClients[c] = 0
    BY ZenonT(60) DEF SyncInv, Entries
  <2>2. listener.channels \subseteq Client
    BY ZenonT(60) DEF SyncInv, Types, ServiceTypes
  <2>3. listener.channels = {}
    BY <2>1, <2>2, ZenonT(60) DEF SyncInv, Listens
  <2> QED
    BY <2>1, <2>3, ZenonT(60) DEF SyncInv, Listens
<1> QED
  BY <1>1, Invariant, PTL
=============================================================================
