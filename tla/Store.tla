------------------------------- MODULE Store -------------------------------
(***************************************************************************)
(* A local store (bus/store.go): its items and version under itemsLock,    *)
(* the streams that hear of changes and of mutation requests, the ready    *)
(* channel that WhenReady waits on, and Reset, which makes all of it new.  *)
(*                                                                         *)
(* Every change is passed to the streams by a goroutine of its own.        *)
(* Reset holds the three locks but Initialize and WhenReady take none, so  *)
(* Reset is two steps: readyC is replaced first and the Once last.         *)
(***************************************************************************)
EXTENDS Integers, Sequences, FiniteSets

CONSTANTS
  Id, Value, State,   \* item ids, item values, and the states passed with a change
  NoValue,            \* not in the store
  StoreStream,        \* the streams made by OnChange and OnAllChanges
  MutationStream,     \* the streams made by OnMutationRequest
  RequestType,        \* types of mutation requests
  Filter,             \* the filter of each stream
  Population,         \* the maps that Populate may be called with
  Watcher,            \* the callers of WhenReady
  Uses,               \* the sets of streams and watchers a program may have
  MaxEvent, MaxReset  \* bounds: changes and mutation requests; calls of Reset

ASSUME StoreAssumption ==
  /\ StoreStream \cap MutationStream = {}
  /\ Population \subseteq [Id -> Value \cup {NoValue}]
  /\ MaxEvent \in Nat /\ MaxReset \in Nat

VARIABLES
  items, storeVersion,
  storeStreams, mutationStreams,
  call,        \* where the owner of a stream is in Subscribe and Unsubscribe
  readyC,      \* the number of the ready channel in use
  closed,      \* the ready channels that have been closed
  initializer, \* the sync.Once: "fresh" or "done"
  resetting,   \* Reset has replaced readyC and not yet returned
  goroutines,  \* changes whose onStoreChange has not run
  watcher,     \* where the goroutine of WhenReady is, its ready channel and the one in use at the call
  panicked,    \* a closed channel was closed again; the process has ended
  \* What happened so far.
  events,      \* the number of changes and mutation requests
  live,        \* streams whose Subscribe returned and that were not unsubscribed or reset since
  due,         \* for each event, the live streams that want it
  heard,       \* how often a stream's handler was started for an event
  made,        \* the changes since the last Reset
  silent,      \* items that Populate has put in since their last change
  raced        \* an Initialize ran while Reset was under way

contents == <<items, storeVersion, made, silent>>
streams == <<storeStreams, mutationStreams, call, live>>
readiness == <<readyC, closed, initializer, panicked, raced>>
hearing == <<goroutines, events, due, heard>>
vars == <<contents, streams, readiness, hearing, watcher, resetting>>

Stream == StoreStream \cup MutationStream
Event == 1 .. MaxEvent
Empty == [id \in Id |-> NoValue]
Elements(seq) == {seq[i] : i \in DOMAIN seq}

Init ==
  /\ items = Empty /\ storeVersion = 1
  /\ storeStreams = << >> /\ mutationStreams = << >>
  /\ \E use \in Uses :
       /\ call = [s \in Stream |-> IF s \in use THEN "off" ELSE "unused"]
       /\ watcher = [w \in Watcher |->
            [at |-> IF w \in use THEN "idle" ELSE "unused", on |-> 0, since |-> 0]]
  /\ readyC = 1 /\ closed = {} /\ initializer = "fresh"
  /\ resetting = FALSE
  /\ goroutines = {}
  /\ panicked = FALSE
  /\ events = 0 /\ live = {}
  /\ due = [e \in Event |-> {}]
  /\ heard = [s \in Stream |-> [e \in Event |-> 0]]
  /\ made = {} /\ silent = {} /\ raced = FALSE

(***************************************************************************)
(* Readiness.                                                              *)
(***************************************************************************)
\* Mutant: the Once is used up and the channel stays open.
Initialized_NoClose == initializer' = "done" /\ UNCHANGED <<readyC, closed, panicked, raced>>

Initialized ==
  IF initializer = "done" THEN UNCHANGED readiness
  ELSE /\ initializer' = "done"
       /\ closed' = closed \cup {readyC}
       /\ panicked' = (readyC \in closed)
       /\ raced' = (raced \/ resetting)
       /\ UNCHANGED readyC

Initialize ==
  /\ Initialized
  /\ UNCHANGED <<contents, streams, hearing, watcher, resetting>>

\* The goroutine of WhenReady reads store.readyC when it runs, not when WhenReady is called.
WhenReady(w) ==
  /\ watcher[w].at = "idle"
  /\ watcher' = [watcher EXCEPT ![w] = [at |-> "called", on |-> 0, since |-> readyC]]
  /\ UNCHANGED <<contents, streams, readiness, hearing, resetting>>

WaitReady(w) ==
  /\ watcher[w].at = "called"
  /\ watcher' = [watcher EXCEPT ![w].at = "waits", ![w].on = readyC]
  /\ UNCHANGED <<contents, streams, readiness, hearing, resetting>>

RunReady(w) ==
  /\ watcher[w].at = "waits"
  /\ watcher[w].on \in closed
  /\ watcher' = [watcher EXCEPT ![w].at = "ran"]
  /\ UNCHANGED <<contents, streams, readiness, hearing, resetting>>

\* Mutant: Reset keeps the ready channel.
BeginReset_KeepsReady ==
  /\ ~resetting /\ readyC <= MaxReset
  /\ resetting' = TRUE
  /\ UNCHANGED <<contents, streams, readiness, hearing, watcher>>

BeginReset ==
  /\ ~resetting /\ readyC <= MaxReset
  /\ resetting' = TRUE
  /\ readyC' = readyC + 1
  /\ UNCHANGED <<contents, streams, closed, initializer, panicked, raced, hearing, watcher>>

EndReset ==
  /\ resetting
  /\ resetting' = FALSE
  /\ storeStreams' = << >> /\ mutationStreams' = << >>
  /\ items' = Empty /\ storeVersion' = 1
  /\ initializer' = "fresh"
  /\ live' = {} /\ made' = {} /\ silent' = {}
  /\ due' = [e \in Event |-> {}]
  /\ UNCHANGED <<call, readyC, closed, panicked, raced, goroutines, events, heard, watcher>>

(***************************************************************************)
(* Contents. All of it happens under itemsLock.                            *)
(***************************************************************************)
Populate(map) ==
  /\ ~resetting
  /\ items = Empty
  /\ items' = map
  /\ silent' = silent \cup {id \in Id : map[id] # NoValue}
  /\ Initialized
  /\ UNCHANGED <<storeVersion, made, streams, hearing, watcher, resetting>>

\* The two match functions: an item id or all of them, and a list of states or any.
match(filter, change) ==
  /\ change.id \in filter.ids
  /\ filter.states = {} \/ change.state \in filter.states

matchRequest(filter, requestType) == filter.types = {} \/ requestType \in filter.types

\* The change of the next event is handed to a goroutine.
Started(change) ==
  /\ events' = events + 1
  /\ goroutines' = goroutines \cup {change}
  /\ made' = made \cup {change}
  /\ silent' = silent \ {change.id}
  /\ due' = [due EXCEPT ![events + 1] = {s \in live \cap StoreStream : match(Filter[s], change)}]

putInternal(id, value, state) ==
  /\ storeVersion' = storeVersion + 1
  /\ items' = [items EXCEPT ![id] = value]
  /\ Started([event |-> events + 1, id |-> id, value |-> value, state |-> state,
              version |-> storeVersion', isDelete |-> FALSE])

Put(id, value, state) ==
  /\ ~resetting /\ events < MaxEvent
  /\ putInternal(id, value, state)
  /\ UNCHANGED <<streams, readiness, heard, watcher, resetting>>

\* Mutant: a removal does not count as a version.
removeInternal_SameVersion(id, state) ==
  /\ items[id] # NoValue
  /\ items' = [items EXCEPT ![id] = NoValue]
  /\ Started([event |-> events + 1, id |-> id, value |-> items[id], state |-> state,
              version |-> storeVersion, isDelete |-> TRUE])
  /\ UNCHANGED storeVersion

removeInternal(id, state) ==
  /\ items[id] # NoValue
  /\ storeVersion' = storeVersion + 1
  /\ items' = [items EXCEPT ![id] = NoValue]
  /\ Started([event |-> events + 1, id |-> id, value |-> items[id], state |-> state,
              version |-> storeVersion', isDelete |-> TRUE])

Remove(id, state) ==
  /\ ~resetting /\ events < MaxEvent
  /\ removeInternal(id, state)
  /\ UNCHANGED <<streams, readiness, heard, watcher, resetting>>

(***************************************************************************)
(* Streams. Subscribe sets the handler under the lock of the stream and    *)
(* then adds the stream to the store's slice; Unsubscribe likewise. One    *)
(* goroutine at a time owns a stream.                                      *)
(***************************************************************************)
HasHandler(s) == call[s] \in {"subscribing", "on"}

Subscribe(s) ==
  /\ call[s] = "off"
  /\ call' = [call EXCEPT ![s] = "subscribing"]
  /\ UNCHANGED <<contents, storeStreams, mutationStreams, live, readiness, hearing, watcher, resetting>>

Joined(s) ==
  /\ ~resetting
  /\ call[s] = "subscribing"
  /\ call' = [call EXCEPT ![s] = "on"]
  /\ live' = live \cup {s}
  /\ UNCHANGED <<contents, readiness, hearing, watcher, resetting>>

onStreamSubscribe(s) ==
  /\ s \in StoreStream /\ Joined(s)
  /\ storeStreams' = Append(storeStreams, s)
  /\ UNCHANGED mutationStreams

onMutationStreamSubscribe(s) ==
  /\ s \in MutationStream /\ Joined(s)
  /\ mutationStreams' = Append(mutationStreams, s)
  /\ UNCHANGED storeStreams

Unsubscribe(s) ==
  /\ call[s] = "on"
  /\ call' = [call EXCEPT ![s] = "unsubscribing"]
  /\ live' = live \ {s}
  /\ due' = [e \in Event |-> due[e] \ {s}]
  /\ UNCHANGED <<contents, storeStreams, mutationStreams, readiness,
                 goroutines, events, heard, watcher, resetting>>

\* Mutant: the last entry goes, whichever stream it is.
Without_Last(seq, s) == IF s \in Elements(seq) THEN SubSeq(seq, 1, Len(seq) - 1) ELSE seq

\* The last entry takes the place of the first one that is s.
Without(seq, s) ==
  IF s \notin Elements(seq) THEN seq
  ELSE LET i == CHOOSE i \in DOMAIN seq : seq[i] = s /\ \A j \in 1 .. i - 1 : seq[j] # s
       IN SubSeq([seq EXCEPT ![i] = seq[Len(seq)]], 1, Len(seq) - 1)

onStreamUnsubscribe(s) ==
  /\ ~resetting /\ s \in StoreStream
  /\ call[s] = "unsubscribing"
  /\ call' = [call EXCEPT ![s] = "off"]
  /\ storeStreams' = Without(storeStreams, s)
  /\ UNCHANGED <<contents, mutationStreams, live, readiness, hearing, watcher, resetting>>

onMutationStreamUnsubscribe(s) ==
  /\ ~resetting /\ s \in MutationStream
  /\ call[s] = "unsubscribing"
  /\ call' = [call EXCEPT ![s] = "off"]
  /\ mutationStreams' = Without(mutationStreams, s)
  /\ UNCHANGED <<contents, storeStreams, live, readiness, hearing, watcher, resetting>>

\* A handler is started for every entry of the slice with a handler that wants the event.
Times(seq, s) == Cardinality({i \in DOMAIN seq : seq[i] = s})

onStoreChange(change) ==
  /\ ~resetting
  /\ change \in goroutines
  /\ goroutines' = goroutines \ {change}
  /\ heard' = [s \in Stream |->
       IF HasHandler(s) /\ s \in StoreStream /\ match(Filter[s], change)
       THEN [heard[s] EXCEPT ![change.event] = @ + Times(storeStreams, s)] ELSE heard[s]]
  /\ UNCHANGED <<contents, streams, readiness, events, due, watcher, resetting>>

Mutate(requestType) ==
  LET wants(s) == s \in MutationStream /\ matchRequest(Filter[s], requestType) IN
  /\ ~resetting /\ events < MaxEvent
  /\ events' = events + 1
  /\ due' = [due EXCEPT ![events + 1] = {s \in live : wants(s)}]
  /\ heard' = [s \in Stream |->
       IF HasHandler(s) /\ wants(s)
       THEN [heard[s] EXCEPT ![events + 1] = @ + Times(mutationStreams, s)] ELSE heard[s]]
  /\ UNCHANGED <<contents, streams, readiness, goroutines, watcher, resetting>>

Ended == panicked /\ UNCHANGED vars

StreamStep(s) ==
  \/ Subscribe(s) \/ onStreamSubscribe(s) \/ onMutationStreamSubscribe(s)
  \/ Unsubscribe(s) \/ onStreamUnsubscribe(s) \/ onMutationStreamUnsubscribe(s)

Next ==
  \/ /\ ~panicked
     /\ \/ Initialize \/ BeginReset \/ EndReset
        \/ \E map \in Population : Populate(map)
        \/ \E id \in Id, value \in Value, state \in State : Put(id, value, state)
        \/ \E id \in Id, state \in State : Remove(id, state)
        \/ \E s \in Stream : StreamStep(s)
        \/ \E change \in goroutines : onStoreChange(change)
        \/ \E requestType \in RequestType : Mutate(requestType)
        \/ \E w \in Watcher : WhenReady(w) \/ WaitReady(w) \/ RunReady(w)
  \/ Ended

Spec == Init /\ [][Next]_vars

\* Goroutines of WhenReady that have started, and a Reset under way, go on.
FairSpec ==
  /\ Spec
  /\ \A w \in Watcher : WF_vars(~panicked /\ (WaitReady(w) \/ RunReady(w)))
  /\ WF_vars(~panicked /\ EndReset)

-----------------------------------------------------------------------------
(***************************************************************************)
(* A stream subscribed from before a change or a mutation request until it *)
(* has been passed on hears of it once; nobody hears of one twice,         *)
(* although subscribing, unsubscribing and passing on interleave and the   *)
(* slice is reordered by every removal (store.go:450, 518).                *)
(***************************************************************************)
EachHeardOnce ==
  \A e \in 1 .. events, s \in Stream :
    /\ heard[s][e] <= 1
    /\ s \in due[e] /\ (\A c \in goroutines : c.event # e) => heard[s][e] = 1

(***************************************************************************)
(* Changes reach a stream in any order; StoreVersion tells which one is    *)
(* newest, and the newest change of an item tells what the store holds     *)
(* (store.go:312, 366). Only Populate puts items in without a change.      *)
(***************************************************************************)
NewestTells ==
  \A id \in Id \ silent :
    LET of == {c \in made : c.id = id} IN
    /\ of = {} => items[id] = NoValue
    /\ \A c \in of : (\A d \in of : d.version <= c.version) =>
         items[id] = IF c.isDelete THEN NoValue ELSE c.value

(***************************************************************************)
(* The ready channel is closed twice, which ends the process, only if an   *)
(* Initialize ran in the middle of a Reset (store.go:459, 466).            *)
(***************************************************************************)
PanicNeedsRace == panicked => raced

(***************************************************************************)
(* The function given to WhenReady runs if the store is ready while it     *)
(* waits, whatever the order of WhenReady, Initialize and Populate. A      *)
(* Reset after the call may leave it waiting for ever, on the old channel  *)
(* or on the new one (store.go:483).                                       *)
(***************************************************************************)
WatchersRun ==
  \A w \in Watcher :
    (watcher[w].at \in {"called", "waits"} /\ initializer = "done" /\ ~resetting)
      ~> (watcher[w].at = "ran" \/ readyC # watcher[w].since \/ panicked)
=============================================================================
