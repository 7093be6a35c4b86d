---------------------------- MODULE StoreProofs ----------------------------
(***************************************************************************)
(* Proofs about Store, for any items, streams, filters and watchers.       *)
(*                                                                         *)
(* A ready channel in use has been closed only if the Once is used up, or  *)
(* an Initialize ran within a Reset (Readiness). A change has a version    *)
(* above all earlier ones (Contents). A stream is at most once in its      *)
(* slice, and is there while it is live (Slices); nobody has heard of a    *)
(* change that a goroutine is still to pass on, and the streams it is due  *)
(* to are live (Hearing).                                                  *)
(***************************************************************************)
EXTENDS Store, FiniteSetTheorems, TLAPS

Distinct(seq) == \A i, j \in DOMAIN seq : seq[i] = seq[j] => i = j

Readiness ==
  /\ readyC \in Nat \ {0} /\ closed \subseteq 1 .. readyC
  /\ initializer \in {"fresh", "done"}
  /\ ~raced /\ (resetting \/ initializer = "fresh") => readyC \notin closed
  /\ PanicNeedsRace

Contents ==
  /\ storeVersion \in Nat /\ items \in [Id -> Value \cup {NoValue}]
  /\ \A c \in made : c.version \in Nat /\ c.version <= storeVersion
  /\ NewestTells

Slices ==
  /\ call \in [Stream -> {"unused", "off", "subscribing", "on", "unsubscribing"}]
  /\ storeStreams \in Seq(StoreStream) /\ Distinct(storeStreams)
  /\ mutationStreams \in Seq(MutationStream) /\ Distinct(mutationStreams)
  /\ \A s \in Elements(storeStreams) \cup Elements(mutationStreams) : call[s] \in {"on", "unsubscribing"}
  /\ live \subseteq Stream
  /\ \A s \in live : call[s] = "on" /\ s \in Elements(storeStreams) \cup Elements(mutationStreams)

Wants(change) == {s \in StoreStream : match(Filter[s], change)}

Hearing ==
  /\ events \in 0 .. MaxEvent
  /\ heard \in [Stream -> [Event -> {0, 1}]] /\ due \in [Event -> SUBSET live]
  /\ \A e \in Event : e > events => due[e] = {} /\ \A s \in Stream : heard[s][e] = 0
  /\ \A c \in goroutines :
       /\ c.event \in 1 .. events
       /\ \A s \in Stream : heard[s][c.event] = 0
       /\ due[c.event] \subseteq Wants(c)
  /\ \A c, d \in goroutines : c.event = d.event => c = d
  /\ EachHeardOnce

-----------------------------------------------------------------------------
(* A step is one of the actions, and most of them leave a part of the state alone. *)
LEMMA Steps ==
  ASSUME [Next]_vars
  PROVE  \/ Initialize \/ BeginReset \/ EndReset
         \/ \E map \in Population : Populate(map)
         \/ \E id \in Id, value \in Value, state \in State : Put(id, value, state)
         \/ \E id \in Id, state \in State : Remove(id, state)
         \/ \E s \in Stream : StreamStep(s)
         \/ \E change \in goroutines : onStoreChange(change)
         \/ \E requestType \in RequestType : Mutate(requestType)
         \/ UNCHANGED <<contents, streams, readiness, hearing, resetting>>
  BY ZenonT(60) DEF Next, Ended, WhenReady, WaitReady, RunReady, vars, contents, streams, readiness, hearing

(* Initialize, Populate and Reset keep the ready channel in use open until it is closed. *)
LEMMA ReadinessKept ==
  ASSUME Readiness, [Next]_vars
  PROVE  Readiness'
<1>1. CASE Initialized /\ UNCHANGED resetting
  <2>1. CASE initializer = "done"
    <3>1. UNCHANGED <<readiness, resetting>>
      BY <1>1, <2>1, ZenonT(60) DEF Initialized
    <3>2. QED
      BY <3>1, ZenonT(60) DEF Readiness, readiness, PanicNeedsRace
  <2>2. CASE initializer # "done"
    <3>1. initializer' = "done" /\ closed' = closed \cup {readyC} /\ readyC' = readyC
      BY <1>1, <2>2, ZenonT(60) DEF Initialized
    <3>2. (panicked' <=> readyC \in closed) /\ (raced' <=> raced \/ resetting) /\ (resetting' <=> resetting)
      BY <1>1, <2>2, ZenonT(60) DEF Initialized
    <3>3. /\ readyC' \in Nat \ {0} /\ closed' \subseteq 1 .. readyC'
          /\ ~raced => readyC \notin closed
      BY <2>2, <3>1, SMTT(60) DEF Readiness
    <3>4. initializer' # "fresh"
      BY <3>1, ZenonT(60)
    <3>5. QED
      BY <3>1, <3>2, <3>3, <3>4, ZenonT(60) DEF Readiness, PanicNeedsRace
  <2>3. QED
    BY <2>1, <2>2, ZenonT(60)
<1>2. CASE BeginReset
  BY <1>2, SMTT(60) DEF Readiness, BeginReset, PanicNeedsRace
<1>3. CASE EndReset
  BY <1>3, ZenonT(60) DEF Readiness, EndReset, PanicNeedsRace
<1>4. CASE UNCHANGED <<readiness, resetting>>
  BY <1>4, ZenonT(60) DEF Readiness, readiness, PanicNeedsRace
<1>5. QED
  BY <1>1, <1>2, <1>3, <1>4, Steps, ZenonT(60)
     DEF Initialize, Populate, Put, Remove, StreamStep, Subscribe, Joined, onStreamSubscribe,
         onMutationStreamSubscribe, Unsubscribe, onStreamUnsubscribe, onMutationStreamUnsubscribe,
         onStoreChange, Mutate

(***************************************************************************)
(* PanicNeedsRace for any number of resets and watchers: Initialize closes *)
(* a ready channel twice only if one ran in the middle of a Reset.         *)
(***************************************************************************)
THEOREM PanicsOnlyRaced == Spec => []PanicNeedsRace
<1>1. Init => Readiness
  BY SMTT(60) DEF Init, Readiness, PanicNeedsRace
<1>2. Readiness /\ [Next]_vars => Readiness'
  BY ReadinessKept, ZenonT(60)
<1>3. Readiness => PanicNeedsRace
  BY ZenonT(60) DEF Readiness
<1>4. QED
  BY <1>1, <1>2, <1>3, PTL DEF Spec

-----------------------------------------------------------------------------
(* A change has a version of its own, above those before, and tells what the item is then. *)
LEMMA ChangeIsNewest ==
  ASSUME Contents, NEW change, change.id \in Id,
         storeVersion' = storeVersion + 1, change.version = storeVersion',
         Started(change),
         items' = [items EXCEPT ![change.id] = IF change.isDelete THEN NoValue ELSE change.value],
         ~change.isDelete => change.value \in Value
  PROVE  Contents'
<1>1. /\ storeVersion' \in Nat /\ items' \in [Id -> Value \cup {NoValue}]
      /\ \A c \in made' : c.version \in Nat /\ c.version <= storeVersion'
  BY SMTT(60) DEF Contents, Started
<1>2. ASSUME NEW id \in Id \ silent',
             NEW of, of = {c \in made' : c.id = id}
      PROVE  /\ of = {} => items'[id] = NoValue
             /\ \A c \in of : (\A d \in of : d.version <= c.version) =>
                  items'[id] = IF c.isDelete THEN NoValue ELSE c.value
  <2>1. CASE id = change.id
    BY <1>2, <2>1, SMTT(60) DEF Contents, Started
  <2>2. CASE id # change.id
    BY <1>2, <2>2, SMTT(60) DEF Contents, Started, NewestTells
  <2>3. QED
    BY <2>1, <2>2, ZenonT(60)
<1>3. NewestTells'
  BY <1>2, ZenonT(60) DEF NewestTells
<1>4. QED
  BY <1>1, <1>3, ZenonT(60) DEF Contents

(* Every step keeps what the versions of changes say about the items. *)
LEMMA ContentsKept ==
  ASSUME Contents, [Next]_vars
  PROVE  Contents'
<1>1. ASSUME NEW id \in Id, NEW value \in Value, NEW state \in State, Put(id, value, state)
      PROVE  Contents'
  BY <1>1, ChangeIsNewest, ZenonT(60) DEF Put, putInternal
<1>2. ASSUME NEW id \in Id, NEW state \in State, Remove(id, state)
      PROVE  Contents'
  BY <1>2, ChangeIsNewest, ZenonT(60) DEF Remove, removeInternal
<1>3. ASSUME NEW map \in Population, Populate(map)
      PROVE  Contents'
  BY <1>3, StoreAssumption, ZenonT(60) DEF Populate, Contents, NewestTells, Empty
<1>4. CASE EndReset
  BY <1>4, ZenonT(60) DEF EndReset, Contents, NewestTells, Empty
<1>5. CASE UNCHANGED contents
  BY <1>5, SMTT(60) DEF contents, Contents, NewestTells
<1>6. QED
  BY <1>1, <1>2, <1>3, <1>4, <1>5, Steps, ZenonT(60)
     DEF Initialize, BeginReset, StreamStep, Subscribe, Joined, onStreamSubscribe,
         onMutationStreamSubscribe, Unsubscribe, onStreamUnsubscribe, onMutationStreamUnsubscribe,
         onStoreChange, Mutate

(***************************************************************************)
(* NewestTells for any items and changes: of the changes of an item the    *)
(* one with the highest StoreVersion tells what the store holds.           *)
(***************************************************************************)
THEOREM VersionsTell == Spec => []NewestTells
<1>1. Init => Contents
  BY SMTT(60) DEF Init, Contents, NewestTells, Empty
<1>2. Contents /\ [Next]_vars => Contents'
  BY ContentsKept, SMTT(60)
<1>3. Contents => NewestTells
  BY ZenonT(60) DEF Contents
<1>4. QED
  BY <1>1, <1>2, <1>3, PTL DEF Spec

-----------------------------------------------------------------------------
(* append on a slice of streams: one more element, no duplicate if it is new. *)
LEMMA AppendFacts ==
  ASSUME NEW S, NEW seq \in Seq(S), NEW x \in S
  PROVE  /\ Append(seq, x) \in Seq(S)
         /\ Elements(Append(seq, x)) = Elements(seq) \cup {x}
         /\ Distinct(seq) /\ x \notin Elements(seq) => Distinct(Append(seq, x))
<1> DEFINE r == Append(seq, x)
<1>1. /\ r \in Seq(S) /\ Len(seq) \in Nat
      /\ DOMAIN seq = 1 .. Len(seq) /\ DOMAIN r = 1 .. Len(seq) + 1
      /\ \A i \in 1 .. Len(seq) : r[i] = seq[i]
      /\ r[Len(seq) + 1] = x
  BY SMTT(60)
<1> HIDE DEF r
<1>2. DOMAIN r = DOMAIN seq \cup {Len(seq) + 1}
  BY <1>1, SMTT(60)
<1>3. Elements(r) = Elements(seq) \cup {x}
  BY <1>1, <1>2, SMTT(60) DEF Elements
<1>4. Distinct(seq) /\ x \notin Elements(seq) => Distinct(r)
  BY <1>1, <1>2, ZenonT(60) DEF Distinct, Elements
<1>5. QED
  BY <1>1, <1>3, <1>4, ZenonT(60) DEF r

(* onStreamUnsubscribe moves the last entry to the place of the one removed: the others stay. *)
LEMMA WithoutFacts ==
  ASSUME NEW S, NEW seq \in Seq(S), NEW s, Distinct(seq)
  PROVE  /\ Without(seq, s) \in Seq(S)
         /\ Distinct(Without(seq, s))
         /\ Elements(Without(seq, s)) = Elements(seq) \ {s}
<1>1. CASE s \notin Elements(seq)
  BY <1>1, ZenonT(60) DEF Without
<1>2. CASE s \in Elements(seq)
  <2> DEFINE first(i) == seq[i] = s /\ \A j \in 1 .. i - 1 : seq[j] # s
             n == Len(seq)
             k == CHOOSE i \in DOMAIN seq : first(i)
             r == Without(seq, s)
  <2>1. n \in Nat /\ DOMAIN seq = 1 .. n
    BY SMTT(60)
  <2>2. PICK i \in DOMAIN seq : seq[i] = s
    BY <1>2, ZenonT(60) DEF Elements
  <2>3. first(i)
    BY <2>1, <2>2, SMTT(60) DEF Distinct
  <2>4. k \in DOMAIN seq /\ seq[k] = s
    BY <2>3, ZenonT(60)
  <2>5. r = SubSeq([seq EXCEPT ![k] = seq[n]], 1, n - 1)
    BY <1>2, ZenonT(60) DEF Without
  <2> HIDE DEF k, n
  <2>6. [seq EXCEPT ![k] = seq[n]] \in Seq(S) /\ Len([seq EXCEPT ![k] = seq[n]]) = n
    BY <2>1, <2>4, SMTT(60) DEF n
  <2>7. /\ r \in Seq(S) /\ DOMAIN r = 1 .. n - 1 /\ n >= 1
        /\ \A j \in 1 .. n - 1 : r[j] = IF j = k THEN seq[n] ELSE seq[j]
    BY <2>1, <2>4, <2>5, <2>6, SMTT(60)
  <2> HIDE DEF r
  <2>8. Distinct(r)
    BY <2>1, <2>4, <2>7, SMTT(60) DEF Distinct
  <2>9. Elements(r) \subseteq Elements(seq) \ {s}
    BY <2>1, <2>4, <2>7, SMTT(60) DEF Distinct, Elements
  <2>10. ASSUME NEW j \in DOMAIN seq, seq[j] # s
         PROVE  seq[j] \in Elements(r)
    <3>1. CASE j = n
      BY <2>1, <2>4, <2>7, <2>10, <3>1, SMTT(60) DEF Elements
    <3>2. CASE j # n
      BY <2>1, <2>4, <2>7, <2>10, <3>2, SMTT(60) DEF Elements
    <3>3. QED
      BY <3>1, <3>2, ZenonT(60)
  <2>11. Elements(seq) \ {s} \subseteq Elements(r)
    BY <2>10, ZenonT(60) DEF Elements
  <2>12. QED
    BY <2>7, <2>8, <2>9, <2>11, ZenonT(60) DEF r
<1>3. QED
  BY <1>1, <1>2, ZenonT(60)

(* A stream that is once in its slice is started once. *)
LEMMA TimesFacts ==
  ASSUME NEW S, NEW seq \in Seq(S), NEW s, Distinct(seq)
  PROVE  Times(seq, s) = IF s \in Elements(seq) THEN 1 ELSE 0
<1> DEFINE at == {i \in DOMAIN seq : seq[i] = s}
<1>1. CASE s \in Elements(seq)
  <2>1. PICK i \in DOMAIN seq : seq[i] = s
    BY <1>1, ZenonT(60) DEF Elements
  <2>2. at = {i}
    BY <2>1, ZenonT(60) DEF Distinct
  <2>3. Cardinality({i}) = 1
    BY FS_Singleton, ZenonT(60)
  <2>4. QED
    BY <1>1, <2>2, <2>3, ZenonT(60) DEF Times
<1>2. CASE s \notin Elements(seq)
  <2>1. at = {}
    BY <1>2, ZenonT(60) DEF Elements
  <2>2. QED
    BY <1>2, <2>1, FS_EmptySet, ZenonT(60) DEF Times
<1>3. QED
  BY <1>1, <1>2, ZenonT(60)

(* An empty slice. *)
LEMMA EmptyFacts == Distinct(<< >>) /\ Elements(<< >>) = {}
  BY SMTT(60) DEF Distinct, Elements

(* A stream joins and leaves its slice as its owner subscribes and unsubscribes. *)
LEMMA SlicesKept ==
  ASSUME Slices, [Next]_vars
  PROVE  Slices'
<1> USE StoreAssumption DEF Slices, Stream
<1>1. ASSUME NEW s \in Stream, Subscribe(s)
      PROVE  Slices'
  BY <1>1, SMTT(60) DEF Subscribe
<1>2. ASSUME NEW s \in Stream, onStreamSubscribe(s)
      PROVE  Slices'
  BY <1>2, AppendFacts, SMTT(60) DEF onStreamSubscribe, Joined
<1>3. ASSUME NEW s \in Stream, onMutationStreamSubscribe(s)
      PROVE  Slices'
  BY <1>3, AppendFacts, SMTT(60) DEF onMutationStreamSubscribe, Joined
<1>4. ASSUME NEW s \in Stream, Unsubscribe(s)
      PROVE  Slices'
  BY <1>4, SMTT(60) DEF Unsubscribe
<1>5. ASSUME NEW s \in Stream, onStreamUnsubscribe(s)
      PROVE  Slices'
  <2>1. Elements(storeStreams') = Elements(storeStreams) \ {s}
        /\ storeStreams' \in Seq(StoreStream) /\ Distinct(storeStreams')
    BY <1>5, WithoutFacts, ZenonT(60) DEF onStreamUnsubscribe
  <2>2. s \notin Elements(mutationStreams)
    BY <1>5, SMTT(60) DEF onStreamUnsubscribe, Elements
  <2>3. QED
    BY <1>5, <2>1, <2>2, SMTT(60) DEF onStreamUnsubscribe
<1>6. ASSUME NEW s \in Stream, onMutationStreamUnsubscribe(s)
      PROVE  Slices'
  <2>1. Elements(mutationStreams') = Elements(mutationStreams) \ {s}
        /\ mutationStreams' \in Seq(MutationStream) /\ Distinct(mutationStreams')
    BY <1>6, WithoutFacts, ZenonT(60) DEF onMutationStreamUnsubscribe
  <2>2. s \notin Elements(storeStreams)
    BY <1>6, SMTT(60) DEF onMutationStreamUnsubscribe, Elements
  <2>3. QED
    BY <1>6, <2>1, <2>2, SMTT(60) DEF onMutationStreamUnsubscribe
<1>7. CASE EndReset
  BY <1>7, EmptyFacts, SMTT(60) DEF EndReset
<1>8. CASE UNCHANGED streams
  BY <1>8, ZenonT(60) DEF streams
<1>9. QED
  BY <1>1, <1>2, <1>3, <1>4, <1>5, <1>6, <1>7, <1>8, Steps, ZenonT(60)
     DEF Initialize, BeginReset, Populate, Put, Remove, StreamStep, onStoreChange, Mutate

(* A change handed to a goroutine is a new event that nobody has heard of. *)
LEMMA ChangeIsPending ==
  ASSUME Slices, Hearing, events < MaxEvent, NEW change, change.event = events + 1,
         Started(change), UNCHANGED <<streams, heard>>
  PROVE  Hearing'
<1> DEFINE who == Wants(change)
<1>1. {s \in live \cap StoreStream : match(Filter[s], change)} = live \cap who
  BY ZenonT(60) DEF Wants
<1>2. /\ events' = events + 1 /\ heard' = heard /\ live' = live /\ goroutines' = goroutines \cup {change}
      /\ due' = [due EXCEPT ![events + 1] = live \cap who]
  BY <1>1, ZenonT(60) DEF Started, streams
<1> HIDE DEF who
<1> USE StoreAssumption DEF Hearing, Event
<1>3. /\ events' \in 0 .. MaxEvent /\ events + 1 \in Event
      /\ heard' \in [Stream -> [Event -> {0, 1}]] /\ due' \in [Event -> SUBSET live']
  BY <1>2, SMTT(60)
<1>4. \A e \in Event : e > events' => due'[e] = {} /\ \A s \in Stream : heard'[s][e] = 0
  BY <1>2, <1>3, SMTT(60)
<1>5. ASSUME NEW c \in goroutines'
      PROVE  /\ c.event \in 1 .. events'
             /\ \A s \in Stream : heard'[s][c.event] = 0
             /\ due'[c.event] \subseteq Wants(c)
  <2>1. CASE c = change
    BY <1>2, <1>3, <2>1, SMTT(60) DEF who
  <2>2. CASE c \in goroutines
    BY <1>2, <1>3, <2>2, SMTT(60)
  <2>3. QED
    BY <1>2, <2>1, <2>2, ZenonT(60)
<1>6. \A c, d \in goroutines' : c.event = d.event => c = d
  BY <1>2, SMTT(60)
<1>7. ASSUME NEW e \in 1 .. events', NEW s \in Stream
      PROVE  /\ heard'[s][e] <= 1
             /\ s \in due'[e] /\ (\A c \in goroutines' : c.event # e) => heard'[s][e] = 1
  <2>1. CASE e = events + 1
    BY <1>2, <1>3, <2>1, SMTT(60)
  <2>2. CASE e # events + 1
    BY <1>2, <1>3, <1>7, <2>2, SMTT(60) DEF EachHeardOnce
  <2>3. QED
    BY <2>1, <2>2, ZenonT(60)
<1>8. EachHeardOnce'
  BY <1>7, ZenonT(60) DEF EachHeardOnce
<1>9. QED
  BY <1>3, <1>4, <1>5, <1>6, <1>8, ZenonT(60)

(* When handlers are started for an event, each stream's once at most, this adds up. *)
LEMMA HeardOnce ==
  ASSUME Hearing, NEW e0 \in Event, NEW who, NEW seq,
         \A s \in Stream : heard[s][e0] = 0,
         \A s \in Stream : Times(seq, s) = IF s \in Elements(seq) THEN 1 ELSE 0,
         heard' = [s \in Stream |->
           IF s \in who THEN [heard[s] EXCEPT ![e0] = @ + Times(seq, s)] ELSE heard[s]]
  PROVE  /\ heard' \in [Stream -> [Event -> {0, 1}]]
         /\ \A s \in Stream : \A e \in Event \ {e0} : heard'[s][e] = heard[s][e]
         /\ \A s \in Stream : s \in who /\ s \in Elements(seq) => heard'[s][e0] = 1
<1>1. heard \in [Stream -> [Event -> {0, 1}]]
  BY ZenonT(60) DEF Hearing
<1>2. ASSUME NEW s \in Stream
      PROVE  /\ heard'[s] \in [Event -> {0, 1}]
             /\ \A e \in Event \ {e0} : heard'[s][e] = heard[s][e]
             /\ s \in who /\ s \in Elements(seq) => heard'[s][e0] = 1
  BY <1>1, <1>2, SMTT(60)
<1>3. QED
  BY <1>2, ZenonT(60)

(* onStoreChange starts every stream that the change is due to, once. *)
LEMMA ChangePassedOn ==
  ASSUME Slices, Hearing, NEW change \in goroutines, onStoreChange(change)
  PROVE  Hearing'
<1> DEFINE e0 == change.event
           who == {s \in Stream : HasHandler(s) /\ s \in StoreStream /\ match(Filter[s], change)}
<1>1. /\ goroutines' = goroutines \ {change} /\ events' = events /\ due' = due /\ live' = live
  BY ZenonT(60) DEF onStoreChange, streams
<1>2. heard' = [s \in Stream |->
         IF s \in who THEN [heard[s] EXCEPT ![e0] = @ + Times(storeStreams, s)] ELSE heard[s]]
  BY ZenonT(60) DEF onStoreChange
<1>3. \A s \in Stream : Times(storeStreams, s) = IF s \in Elements(storeStreams) THEN 1 ELSE 0
  BY TimesFacts, ZenonT(60) DEF Slices
<1>4. /\ e0 \in Event /\ e0 <= events /\ events \in Nat
      /\ \A s \in Stream : heard[s][e0] = 0
      /\ due[e0] \subseteq live /\ due[e0] \subseteq Wants(change)
  BY StoreAssumption, SMTT(60) DEF Hearing, Event
<1>5. ASSUME NEW s \in due[e0]
      PROVE  s \in who /\ s \in Elements(storeStreams)
  <2>1. s \in live /\ s \in StoreStream /\ match(Filter[s], change)
    BY <1>4, ZenonT(60) DEF Wants
  <2>2. s \notin Elements(mutationStreams)
    BY <2>1, StoreAssumption, SMTT(60) DEF Slices, Elements
  <2>3. s \in Elements(storeStreams) /\ HasHandler(s) /\ s \in Stream
    BY <2>1, <2>2, ZenonT(60) DEF Slices, HasHandler, Stream
  <2>4. QED
    BY <2>1, <2>3, ZenonT(60)
<1> HIDE DEF e0, who
<1>6. /\ heard' \in [Stream -> [Event -> {0, 1}]]
      /\ \A s \in Stream : \A e \in Event \ {e0} : heard'[s][e] = heard[s][e]
      /\ \A s \in Stream : s \in who /\ s \in Elements(storeStreams) => heard'[s][e0] = 1
  BY <1>2, <1>3, <1>4, HeardOnce, ZenonT(60)
<1>7. \A c \in goroutines' : c \in goroutines /\ c.event \in Event \ {e0}
  <2> SUFFICES ASSUME NEW c \in goroutines' PROVE c \in goroutines /\ c.event \in Event \ {e0}
    BY ZenonT(60)
  <2>1. c \in goroutines /\ c # change
    BY <1>1, ZenonT(60)
  <2>2. c.event \in 1 .. events /\ c.event # change.event
    BY <2>1, ZenonT(60) DEF Hearing
  <2>3. QED
    BY <1>4, <2>1, <2>2, StoreAssumption, SMTT(60) DEF Event, Hearing, e0
<1>8. ASSUME NEW e \in 1 .. events, NEW s \in Stream
      PROVE  /\ heard'[s][e] <= 1
             /\ s \in due[e] /\ (\A c \in goroutines' : c.event # e) => heard'[s][e] = 1
  <2>0. e \in Event
    BY StoreAssumption, SMTT(60) DEF Event, Hearing
  <2>1. CASE e = e0
    BY <1>4, <1>5, <1>6, <2>0, <2>1, SMTT(60)
  <2>2. CASE e # e0
    <3>1. heard'[s][e] = heard[s][e]
      BY <1>6, <2>0, <2>2, ZenonT(60)
    <3>2. (\A c \in goroutines' : c.event # e) => \A c \in goroutines : c.event # e
      BY <1>1, <2>2, ZenonT(60) DEF e0
    <3>3. /\ heard[s][e] <= 1
          /\ s \in due[e] /\ (\A c \in goroutines : c.event # e) => heard[s][e] = 1
      BY ZenonT(60) DEF Hearing, EachHeardOnce
    <3>4. QED
      BY <3>1, <3>2, <3>3, ZenonT(60)
  <2>3. QED
    BY <2>1, <2>2, ZenonT(60)
<1>9. EachHeardOnce'
  BY <1>1, <1>8, ZenonT(60) DEF EachHeardOnce
<1>10. \A e \in Event : e > events' => e # e0
  BY <1>1, <1>4, SMTT(60) DEF Event
<1>11. QED
  BY <1>1, <1>6, <1>7, <1>9, <1>10, SMTT(60) DEF Hearing

(* Mutate starts every live stream that wants the request, once. *)
LEMMA MutationPassedOn ==
  ASSUME Slices, Hearing, NEW requestType \in RequestType, Mutate(requestType)
  PROVE  Hearing'
<1> DEFINE e0 == events + 1
           wanted == {s \in MutationStream : matchRequest(Filter[s], requestType)}
           who == {s \in wanted : HasHandler(s)}
<1>1. /\ goroutines' = goroutines /\ events' = e0 /\ live' = live /\ events < MaxEvent
  BY ZenonT(60) DEF Mutate, streams
<1>2. /\ due' = [due EXCEPT ![e0] = {s \in live : s \in wanted}]
      /\ heard' = [s \in Stream |->
           IF s \in who THEN [heard[s] EXCEPT ![e0] = @ + Times(mutationStreams, s)] ELSE heard[s]]
  BY ZenonT(60) DEF Mutate
<1>3. \A s \in Stream : Times(mutationStreams, s) = IF s \in Elements(mutationStreams) THEN 1 ELSE 0
  BY TimesFacts, ZenonT(60) DEF Slices
<1>4. /\ e0 \in Event /\ events \in Nat /\ e0 \in 0 .. MaxEvent
      /\ \A s \in Stream : heard[s][e0] = 0
  BY <1>1, StoreAssumption, SMTT(60) DEF Hearing, Event
<1>5. ASSUME NEW s \in live, s \in wanted
      PROVE  s \in who /\ s \in Elements(mutationStreams)
  <2>1. s \notin Elements(storeStreams)
    BY <1>5, StoreAssumption, SMTT(60) DEF Slices, Elements
  <2>2. QED
    BY <1>5, <2>1, ZenonT(60) DEF Slices, HasHandler
<1> HIDE DEF e0, who, wanted
<1>6. /\ heard' \in [Stream -> [Event -> {0, 1}]]
      /\ \A s \in Stream : \A e \in Event \ {e0} : heard'[s][e] = heard[s][e]
      /\ \A s \in Stream : s \in who /\ s \in Elements(mutationStreams) => heard'[s][e0] = 1
  BY <1>2, <1>3, <1>4, HeardOnce, ZenonT(60)
<1>7. /\ due' \in [Event -> SUBSET live']
      /\ \A e \in Event \ {e0} : due'[e] = due[e]
      /\ due'[e0] = {s \in live : s \in wanted}
  BY <1>1, <1>2, <1>4, ZenonT(60) DEF Hearing
<1>8. \A c \in goroutines : c.event \in Event \ {e0} /\ c.event \in 1 .. events'
  <2> SUFFICES ASSUME NEW c \in goroutines
               PROVE  c.event \in Event \ {e0} /\ c.event \in 1 .. events'
    BY ZenonT(60)
  <2>1. c.event \in 1 .. events
    BY ZenonT(60) DEF Hearing
  <2>2. QED
    BY <1>1, <1>4, <2>1, StoreAssumption, SMTT(60) DEF e0, Event
<1>9. ASSUME NEW e \in 1 .. e0, NEW s \in Stream
      PROVE  /\ heard'[s][e] <= 1
             /\ s \in due'[e] /\ (\A c \in goroutines : c.event # e) => heard'[s][e] = 1
  <2>0. e \in Event
    BY <1>4, StoreAssumption, SMTT(60) DEF Event
  <2>1. CASE e = e0
    BY <1>5, <1>6, <1>7, <2>0, <2>1, SMTT(60)
  <2>2. CASE e # e0
    <3>1. e \in 1 .. events /\ heard'[s][e] = heard[s][e] /\ due'[e] = due[e]
      BY <1>4, <1>6, <1>7, <2>0, <2>2, SMTT(60) DEF e0
    <3>2. QED
      BY <3>1, ZenonT(60) DEF Hearing, EachHeardOnce
  <2>3. QED
    BY <2>1, <2>2, ZenonT(60)
<1>10. EachHeardOnce'
  BY <1>1, <1>9, ZenonT(60) DEF EachHeardOnce
<1>11. \A e \in Event : e > events' => e # e0 /\ e > events
  BY <1>1, <1>4, SMTT(60) DEF e0, Event
<1>12. QED
  BY <1>1, <1>4, <1>6, <1>7, <1>8, <1>10, <1>11, SMTT(60) DEF Hearing

(* Every step keeps what streams have heard. *)
LEMMA HearingKept ==
  ASSUME Slices, Hearing, [Next]_vars
  PROVE  Hearing'
<1>1. ASSUME NEW id \in Id, NEW value \in Value, NEW state \in State, Put(id, value, state)
      PROVE  Hearing'
  BY <1>1, ChangeIsPending, ZenonT(60) DEF Put, putInternal
<1>2. ASSUME NEW id \in Id, NEW state \in State, Remove(id, state)
      PROVE  Hearing'
  BY <1>2, ChangeIsPending, ZenonT(60) DEF Remove, removeInternal
<1>3. ASSUME NEW s \in Stream, Joined(s)
      PROVE  Hearing'
  BY <1>3, ZenonT(60) DEF Joined, Hearing, hearing, EachHeardOnce
<1>4. ASSUME NEW s \in Stream, Unsubscribe(s)
      PROVE  Hearing'
  <2>1. /\ live' = live \ {s} /\ due' = [e \in Event |-> due[e] \ {s}]
        /\ goroutines' = goroutines /\ events' = events /\ heard' = heard
    BY <1>4, ZenonT(60) DEF Unsubscribe
  <2>2. /\ due' \in [Event -> SUBSET live']
        /\ \A e \in Event : due'[e] = due[e] \ {s}
    BY <2>1, ZenonT(60) DEF Hearing
  <2>3. 1 .. events \subseteq Event
    BY StoreAssumption, SMTT(60) DEF Hearing, Event
  <2>4. EachHeardOnce'
    BY <2>1, <2>2, <2>3, ZenonT(60) DEF Hearing, EachHeardOnce
  <2>5. QED
    BY <2>1, <2>2, <2>3, <2>4, ZenonT(60) DEF Hearing
<1>5. CASE EndReset
  <2>1. /\ live' = {} /\ due' = [e \in Event |-> {}]
        /\ goroutines' = goroutines /\ events' = events /\ heard' = heard
    BY <1>5, ZenonT(60) DEF EndReset
  <2>2. /\ due' \in [Event -> SUBSET live']
        /\ \A e \in Event : due'[e] = {}
    BY <2>1, ZenonT(60)
  <2>3. 1 .. events \subseteq Event
    BY StoreAssumption, SMTT(60) DEF Hearing, Event
  <2>4. EachHeardOnce'
    BY <2>1, <2>2, <2>3, ZenonT(60) DEF Hearing, EachHeardOnce
  <2>5. QED
    BY <2>1, <2>2, <2>3, <2>4, ZenonT(60) DEF Hearing
<1>6. CASE UNCHANGED <<hearing, live>>
  BY <1>6, ZenonT(60) DEF hearing, Hearing, EachHeardOnce
<1>7. QED
  BY <1>1, <1>2, <1>3, <1>4, <1>5, <1>6, Steps, ChangePassedOn, MutationPassedOn, ZenonT(60)
     DEF Initialize, BeginReset, Populate, StreamStep, Subscribe, onStreamSubscribe, onMutationStreamSubscribe,
         onStreamUnsubscribe, onMutationStreamUnsubscribe, streams

(***************************************************************************)
(* EachHeardOnce for any streams and filters: a stream that stays          *)
(* subscribed is started once for every change and mutation request.       *)
(***************************************************************************)
THEOREM StreamsHearOnce == Spec => []EachHeardOnce
<1>1. Init => Slices /\ Hearing
  <2> SUFFICES ASSUME Init PROVE Slices /\ Hearing
    BY ZenonT(60)
  <2>1. Slices
    BY EmptyFacts, SMTT(60) DEF Init, Slices
  <2>2. Hearing
    BY StoreAssumption, SMTT(60) DEF Init, Hearing, EachHeardOnce, Event
  <2>3. QED
    BY <2>1, <2>2, ZenonT(60)
<1>2. Slices /\ Hearing /\ [Next]_vars => (Slices /\ Hearing)'
  BY SlicesKept, HearingKept, ZenonT(60)
<1>3. Hearing => EachHeardOnce
  BY ZenonT(60) DEF Hearing
<1>4. QED
  BY <1>1, <1>2, <1>3, PTL DEF Spec
=============================================================================
