----------------------- MODULE GalacticChannelProofs -----------------------
(***************************************************************************)
(* Proofs about GalacticChannel, for any channels and destinations.        *)
(*                                                                         *)
(* A subscription object belongs to the channel whose goroutine made it,   *)
(* from SubscribeNew on: while no object is handed out again, no other     *)
(* channel has it, and it is open until its channel unsubscribes it        *)
(* (Owned). If moreover nobody else made an entry for its destination, the *)
(* map has it. Room is about the bound on objects.                         *)
(***************************************************************************)
EXTENDS GalacticChannel, FiniteSetTheorems, TLAPS

Marks ==
  {Idle} \cup [at : {"subscribe", "create"}, to : Destination] \cup [at : {"add"}, sub : 1 .. MaxSub]
         \cup [at : {"unsubscribe"}]

Types ==
  /\ nsubs \in Nat /\ destination \in Seq(Destination) /\ Len(destination) = nsubs
  /\ open \subseteq 1 .. nsubs /\ subscriptions \in [Destination -> 0 .. nsubs]
  /\ brokerSubs \in [Channel -> Seq(1 .. MaxSub)] /\ listeners \in [Channel -> [1 .. MaxSub -> Nat]]
  /\ mark \in [Channel -> Marks]

\* The calls that are going to make an object.
Makers ==
  {c \in Channel : \/ mark[c].at = "create"
                   \/ mark[c].at = "subscribe" /\ subscriptions[mark[c].to] = 0}

Room == nsubs + Cardinality(Makers) <= MaxSub

\* The object is in the channel's slice, or about to be.
Has(ch, s) == s \in Entries(ch) \/ (mark[ch].at = "add" /\ mark[ch].sub = s)

Owned ==
  "reused" \notin causes /\ ~panicked =>
    \A ch \in Channel, s \in 1 .. MaxSub : Has(ch, s) =>
      /\ s \in open
      /\ s \in Entries(ch) => listeners[ch][s] > 0
      /\ \A c \in Channel : Has(c, s) => c = ch
      /\ "raced" \notin causes => subscriptions[destination[s]] = s

Leaving ==
  \A ch \in Channel : mark[ch].at = "unsubscribe" =>
    brokerSubs[ch] # << >> /\ (Len(brokerSubs[ch]) > 1 => "many" \in causes)

IInv == Types /\ Room /\ Owned /\ Leaving /\ PanicNeedsReuse

-----------------------------------------------------------------------------
\* What the steps of the connection that are not about subscriptions leave alone.
Quiet == UNCHANGED <<nsubs, destination, open, subscriptions, panicked, galacticVars>>

(* A step is one of a channel, or one of the connection that leaves subscriptions and channels alone. *)
LEMMA Steps ==
  ASSUME [Next]_vars
  PROVE  \/ Quiet
         \/ \E ch \in Channel, s \in 1 .. nsubs : StopListening(ch, s)
         \/ \E ch \in Channel :
              /\ ~panicked
              /\ \/ \E d \in Destination : MarkChannelAsGalactic(ch, d)
                 \/ Subscribe(ch) \/ SubscribeNew(ch) \/ SubscribeFails(ch) \/ addBrokerSubscription(ch)
                 \/ MarkChannelAsLocal(ch) \/ Unsubscribe(ch)
<1>1. ASSUME UNCHANGED vars PROVE Quiet
  BY <1>1, ZenonT(60) DEF vars, bridgeVars, galacticVars, Quiet
<1>2. ASSUME NEW ch \in Channel, NEW s \in 1 .. nsubs, Receive(ch, s) PROVE Quiet
  BY <1>2, ZenonT(60) DEF Receive, Taken, galacticVars, Quiet
<1>3. ASSUME UNCHANGED galacticVars,
             \/ \E s \in open : MessageFrame(s) \/ listenTCPFrames(s)
             \/ \E d \in Destination : ErrorFrame(d)
             \/ connectTCP \/ connectWs \/ ConnectedFrame \/ Disconnect \/ TakeDisconnect
      PROVE  Quiet
  BY <1>3, ZenonT(60) DEF MessageFrame, listenTCPFrames, Deliver, ErrorFrame, connectTCP, connectWs, ConnectedFrame,
              Disconnect, TakeDisconnect, galacticVars, Quiet
<1>4. QED
  BY <1>1, <1>2, <1>3, ZenonT(60) DEF Next, Ended, Marking, Listening, Reading

(* The fields of a mark. *)
LEMMA MarkFacts ==
  ASSUME Types, NEW ch \in Channel
  PROVE  /\ mark[ch].at \in {"subscribe", "create"} => mark[ch].to \in Destination
         /\ mark[ch].at = "add" => mark[ch].sub \in 1 .. MaxSub
<1>1. mark[ch] \in Marks
  BY ZenonT(60) DEF Types
<1>2. CASE mark[ch] = Idle
  BY <1>2, SMTT(60) DEF Idle
<1>3. CASE mark[ch] \in [at : {"subscribe", "create"}, to : Destination]
  BY <1>3, ZenonT(60)
<1>4. CASE mark[ch] \in [at : {"add"}, sub : 1 .. MaxSub]
  BY <1>4, ZenonT(60)
<1>5. CASE mark[ch] \in [at : {"unsubscribe"}]
  BY <1>5, ZenonT(60)
<1>6. QED
  BY <1>1, <1>2, <1>3, <1>4, <1>5, ZenonT(60) DEF Marks

(* The objects that are left to make are as many as MaxSub allows. *)
LEMMA Counted ==
  ASSUME Types, Room
  PROVE  /\ IsFiniteSet(Makers) /\ Cardinality(Makers) \in Nat
         /\ nsubs <= MaxSub
         /\ Makers # {} => nsubs + 1 <= MaxSub
<1>1. IsFiniteSet(Makers)
  BY GalacticAssumption, FS_Subset, ZenonT(60) DEF Makers
<1>2. Cardinality(Makers) \in Nat
  BY <1>1, FS_CardinalityType, ZenonT(60)
<1>3. Makers # {} => Cardinality(Makers) # 0
  BY <1>1, FS_EmptySet, ZenonT(60)
<1>4. QED
  BY <1>1, <1>2, <1>3, GalacticAssumption, SMTT(60) DEF Types, Room

(* A new object is within the bound, and its number is its place in destination. *)
LEMMA SubscribeNewFacts ==
  ASSUME Types, Room, NEW ch \in Channel, SubscribeNew(ch)
  PROVE  /\ mark[ch].to \in Destination /\ nsubs + 1 \in 1 .. MaxSub
         /\ nsubs' = nsubs + 1 /\ open' = open \cup {nsubs + 1}
         /\ subscriptions' = [subscriptions EXCEPT ![mark[ch].to] = nsubs + 1]
         /\ destination' \in Seq(Destination) /\ Len(destination') = nsubs + 1
         /\ destination'[nsubs + 1] = mark[ch].to
         /\ \A s \in 1 .. nsubs : destination'[s] = destination[s]
<1>1. mark[ch].to \in Destination
  BY MarkFacts, ZenonT(60) DEF SubscribeNew
<1>2. ch \in Makers
  BY ZenonT(60) DEF SubscribeNew, Makers
<1>3. nsubs + 1 \in 1 .. MaxSub
  BY <1>2, Counted, GalacticAssumption, SMTT(60) DEF Types
<1>4. NewSubscription(mark[ch].to)
  BY ZenonT(60) DEF SubscribeNew, subscribeWs, subscribeTCP
<1>5. /\ destination' = Append(destination, mark[ch].to)
      /\ destination \in Seq(Destination) /\ Len(destination) = nsubs
  BY <1>4, ZenonT(60) DEF NewSubscription, Types
<1>6. /\ destination' \in Seq(Destination) /\ Len(destination') = nsubs + 1
      /\ destination'[nsubs + 1] = mark[ch].to
      /\ \A s \in 1 .. nsubs : destination'[s] = destination[s]
  BY <1>1, <1>5, SMTT(60)
<1>7. QED
  BY <1>1, <1>3, <1>4, <1>6, ZenonT(60) DEF NewSubscription

(* Every step keeps the types. *)
LEMMA TypesKept ==
  ASSUME Types, Room, Leaving, [Next]_vars
  PROVE  Types'
<1> USE GalacticAssumption
<1>1. CASE Quiet
  BY <1>1, ZenonT(60) DEF Quiet, galacticVars, Types
<1>2. ASSUME NEW ch \in Channel, NEW s \in 1 .. nsubs, StopListening(ch, s)
      PROVE  Types'
  <2>1. s \in 1 .. MaxSub
    BY <1>2, Counted, SMTT(60) DEF Types
  <2>2. listeners' \in [Channel -> [1 .. MaxSub -> Nat]]
    BY <1>2, <2>1, SMTT(60) DEF StopListening, Types
  <2>3. QED
    BY <1>2, <2>2, ZenonT(60) DEF StopListening, bridgeVars, Types
<1>3. ASSUME NEW ch \in Channel, NEW d \in Destination, MarkChannelAsGalactic(ch, d)
      PROVE  Types'
  <2>1. [at |-> "subscribe", to |-> d] \in Marks
    BY ZenonT(60) DEF Marks
  <2>2. QED
    BY <1>3, <2>1, ZenonT(60) DEF MarkChannelAsGalactic, bridgeVars, Types
<1>4. ASSUME NEW ch \in Channel, Subscribe(ch)
      PROVE  Types'
  <2>1. mark[ch].to \in Destination
    BY <1>4, MarkFacts, ZenonT(60) DEF Subscribe
  <2>2. Existing(mark[ch].to) # 0 => [at |-> "add", sub |-> Existing(mark[ch].to)] \in Marks
    <3>1. Existing(mark[ch].to) \in 0 .. nsubs /\ nsubs \in Nat
      BY <2>1, ZenonT(60) DEF Existing, Types
    <3>2. nsubs <= MaxSub
      BY Counted, ZenonT(60)
    <3>3. Existing(mark[ch].to) # 0 => Existing(mark[ch].to) \in 1 .. MaxSub
      BY <3>1, <3>2, SMTT(60)
    <3>4. QED
      BY <3>3, ZenonT(60) DEF Marks
  <2>3. [at |-> "create", to |-> mark[ch].to] \in Marks
    BY <2>1, ZenonT(60) DEF Marks
  <2>4. mark' \in [Channel -> Marks]
    BY <1>4, <2>2, <2>3, ZenonT(60) DEF Subscribe, Types
  <2>5. QED
    BY <1>4, <2>4, ZenonT(60) DEF Subscribe, bridgeVars, Types
<1>5. ASSUME NEW ch \in Channel, SubscribeNew(ch)
      PROVE  Types'
  <2>1. [at |-> "add", sub |-> nsubs + 1] \in Marks
    BY <1>5, SubscribeNewFacts, ZenonT(60) DEF Marks
  <2>2. mark' \in [Channel -> Marks]
    BY <1>5, <2>1, ZenonT(60) DEF SubscribeNew, Types
  <2>3. nsubs' \in Nat /\ open' \subseteq 1 .. nsubs' /\ subscriptions' \in [Destination -> 0 .. nsubs']
    <3>1. /\ nsubs' = nsubs + 1 /\ open' = open \cup {nsubs + 1}
          /\ subscriptions' = [subscriptions EXCEPT ![mark[ch].to] = nsubs + 1]
      BY <1>5, SubscribeNewFacts, ZenonT(60)
    <3>2. /\ nsubs \in Nat /\ open \subseteq 1 .. nsubs /\ subscriptions \in [Destination -> 0 .. nsubs]
      BY ZenonT(60) DEF Types
    <3>3. nsubs' \in Nat /\ 0 .. nsubs \subseteq 0 .. nsubs' /\ nsubs + 1 \in 0 .. nsubs'
      BY <3>1, <3>2, SMTT(60)
    <3>4. subscriptions' \in [Destination -> 0 .. nsubs']
      BY <3>1, <3>2, <3>3, ZenonT(60)
    <3>5. open' \subseteq 1 .. nsubs'
      BY <3>1, <3>2, SMTT(60)
    <3>6. QED
      BY <3>3, <3>4, <3>5, ZenonT(60)
  <2>4. QED
    BY <1>5, <2>2, <2>3, SubscribeNewFacts, ZenonT(60) DEF SubscribeNew, Types
<1>6. ASSUME NEW ch \in Channel, SubscribeFails(ch)
      PROVE  Types'
  BY <1>6, ZenonT(60) DEF SubscribeFails, bridgeVars, Types, Marks
<1>7. ASSUME NEW ch \in Channel, addBrokerSubscription(ch)
      PROVE  Types'
  <2>1. mark[ch].sub \in 1 .. MaxSub
    BY <1>7, MarkFacts, ZenonT(60) DEF addBrokerSubscription
  <2>2. brokerSubs' \in [Channel -> Seq(1 .. MaxSub)]
    BY <1>7, <2>1, SMTT(60) DEF addBrokerSubscription, Types
  <2>3. listeners' \in [Channel -> [1 .. MaxSub -> Nat]]
    BY <1>7, <2>1, SMTT(60) DEF addBrokerSubscription, Types
  <2>4. mark' \in [Channel -> Marks]
    BY <1>7, ZenonT(60) DEF addBrokerSubscription, Types, Marks
  <2>5. QED
    BY ZenonT(60), <1>7, <2>2, <2>3, <2>4 DEF addBrokerSubscription, bridgeVars, Types
<1>8. ASSUME NEW ch \in Channel, MarkChannelAsLocal(ch)
      PROVE  Types'
  <2>1. mark' \in [Channel -> Marks]
    <3>1. [at |-> "unsubscribe"] \in Marks
      BY ZenonT(60) DEF Marks
    <3>2. QED
      BY <1>8, <3>1, ZenonT(60) DEF MarkChannelAsLocal, Types
  <2>2. QED
    BY <1>8, <2>1, ZenonT(60) DEF MarkChannelAsLocal, bridgeVars, Types
<1>9. ASSUME NEW ch \in Channel, Unsubscribe(ch), brokerSubs[ch] # << >>
      PROVE  Types'
  <2>1. brokerSubs' \in [Channel -> Seq(1 .. MaxSub)]
    <3>1. Tail(brokerSubs[ch]) \in Seq(1 .. MaxSub)
      BY <1>9, SMTT(60) DEF Types
    <3>2. QED
      BY <1>9, <3>1, ZenonT(60) DEF Unsubscribe, removeBrokerSubscription, Types
  <2>2. open' \subseteq 1 .. nsubs
    BY <1>9, ZenonT(60) DEF Unsubscribe, UnsubscribeObject, Types
  <2>3. mark' \in [Channel -> Marks]
    BY <1>9, ZenonT(60) DEF Unsubscribe, Types, Marks
  <2>4. QED
    BY <1>9, <2>1, <2>2, <2>3, ZenonT(60) DEF Unsubscribe, Types
<1>10. QED
  BY <1>1, <1>2, <1>3, <1>4, <1>5, <1>6, <1>7, <1>8, <1>9, Steps, ZenonT(60) DEF Leaving, Unsubscribe

(* Every step keeps room for the objects that the calls under way are going to make. *)
LEMMA RoomKept ==
  ASSUME Types, Room, [Next]_vars
  PROVE  Room'
<1> USE GalacticAssumption
<1>1. /\ IsFiniteSet(Makers) /\ Cardinality(Makers) \in Nat /\ nsubs \in Nat
      /\ nsubs + Cardinality(Makers) <= MaxSub
  BY Counted, ZenonT(60) DEF Types, Room
<1>2. ASSUME Makers' \subseteq Makers, nsubs' = nsubs
      PROVE  Room'
  <2>1. Cardinality(Makers') \in Nat /\ Cardinality(Makers') <= Cardinality(Makers)
    BY <1>1, <1>2, FS_Subset, FS_CardinalityType, ZenonT(60)
  <2>2. QED
    BY <1>1, <1>2, <2>1, SMTT(60) DEF Room
<1>3. CASE UNCHANGED <<nsubs, subscriptions, mark>>
  BY <1>2, <1>3, ZenonT(60) DEF Makers
<1>4. ASSUME NEW ch \in Channel, NEW d \in Destination, MarkChannelAsGalactic(ch, d)
      PROVE  Room'
  <2>1. Makers' \subseteq Makers \cup {ch} /\ UNCHANGED <<nsubs, subscriptions>>
    BY <1>4, ZenonT(60) DEF MarkChannelAsGalactic, bridgeVars, Makers, Types
  <2>2. CASE Existing(d) # 0
    <3>1. Makers' \subseteq Makers
      BY <1>4, <2>2, ZenonT(60) DEF MarkChannelAsGalactic, bridgeVars, Makers, Existing, Types
    <3>2. QED
      BY <1>2, <2>1, <3>1, ZenonT(60)
  <2>3. CASE Existing(d) = 0
    <3> DEFINE Calling == {c \in Channel : mark[c].at \in {"subscribe", "create"}}
    <3>1. IsFiniteSet(Calling) /\ nsubs + Cardinality(Calling) < MaxSub
      BY <1>4, <2>3, FS_Subset, ZenonT(60) DEF MarkChannelAsGalactic
    <3>2. Makers \subseteq Calling
      BY ZenonT(60) DEF Makers
    <3> HIDE DEF Calling
    <3>3. Cardinality(Calling) \in Nat
      BY <3>1, FS_CardinalityType, ZenonT(60)
    <3>4. IsFiniteSet(Calling \cup {ch}) /\ Cardinality(Calling \cup {ch}) <= Cardinality(Calling) + 1
      <4>1. /\ IsFiniteSet(Calling \cup {ch})
            /\ Cardinality(Calling \cup {ch}) = IF ch \in Calling THEN Cardinality(Calling)
                                                                  ELSE Cardinality(Calling) + 1
        BY <3>1, FS_AddElement, ZenonT(60)
      <4>2. QED
        BY <3>3, <4>1, SMTT(60)
    <3>5. Makers' \subseteq Calling \cup {ch}
      BY <2>1, <3>2, ZenonT(60)
    <3>6. Cardinality(Makers') \in Nat /\ Cardinality(Makers') <= Cardinality(Calling \cup {ch})
      BY <3>4, <3>5, FS_Subset, FS_CardinalityType, ZenonT(60)
    <3>7. Cardinality(Calling \cup {ch}) \in Nat
      BY <3>4, FS_CardinalityType, ZenonT(60)
    <3>8. QED
      BY <1>1, <2>1, <3>1, <3>3, <3>4, <3>6, <3>7, SMTT(60) DEF Room
  <2>4. QED
    BY <2>2, <2>3, ZenonT(60)
<1>5. ASSUME NEW ch \in Channel, Subscribe(ch)
      PROVE  Room'
  <2>1. Makers' \subseteq Makers
    BY <1>5, ZenonT(60) DEF Subscribe, bridgeVars, Existing, Makers, Types
  <2>2. QED
    BY <1>2, <1>5, <2>1, ZenonT(60) DEF Subscribe, bridgeVars
<1>6. ASSUME NEW ch \in Channel, SubscribeNew(ch)
      PROVE  Room'
  <2>1. ch \in Makers /\ nsubs' = nsubs + 1
    BY <1>6, SubscribeNewFacts, ZenonT(60) DEF SubscribeNew, Makers
  <2>2. Makers' \subseteq Makers \ {ch}
    <3>1. \A d \in Destination : subscriptions'[d] = 0 => subscriptions[d] = 0
      <4>1. /\ subscriptions' = [subscriptions EXCEPT ![mark[ch].to] = nsubs + 1]
            /\ mark[ch].to \in Destination
        BY <1>6, SubscribeNewFacts, ZenonT(60)
      <4>2. nsubs \in Nat /\ subscriptions \in [Destination -> 0 .. nsubs]
        BY ZenonT(60) DEF Types
      <4>3. QED
        BY <4>1, <4>2, SMTT(60)
    <3>2. mark'[ch].at = "add" /\ \A c \in Channel \ {ch} : mark'[c] = mark[c]
      BY <1>6, ZenonT(60) DEF SubscribeNew, Types
    <3>3. QED
      BY <3>1, <3>2, MarkFacts, ZenonT(60) DEF Makers
  <2>3. IsFiniteSet(Makers \ {ch}) /\ Cardinality(Makers \ {ch}) = Cardinality(Makers) - 1
    BY <1>1, <2>1, FS_RemoveElement, ZenonT(60)
  <2>4. Cardinality(Makers') \in Nat /\ Cardinality(Makers') <= Cardinality(Makers \ {ch})
    BY <2>2, <2>3, FS_Subset, FS_CardinalityType, ZenonT(60)
  <2>5. QED
    BY <1>1, <2>1, <2>3, <2>4, SMTT(60) DEF Room
<1>7. ASSUME NEW ch \in Channel, NEW m, m.at \notin {"create", "subscribe"},
             mark' = [mark EXCEPT ![ch] = m], UNCHANGED <<nsubs, subscriptions>>
      PROVE  Room'
  <2>1. Makers' \subseteq Makers
    BY <1>7, ZenonT(60) DEF Makers, Types
  <2>2. QED
    BY <1>2, <1>7, <2>1, ZenonT(60)
<1>8. Idle.at = "idle" /\ [at |-> "unsubscribe"].at = "unsubscribe"
  BY ZenonT(60) DEF Idle
<1>9. QED
  BY <1>3, <1>4, <1>5, <1>6, <1>7, <1>8, Steps, ZenonT(60)
     DEF Quiet, galacticVars, bridgeVars, StopListening, SubscribeFails, addBrokerSubscription,
         MarkChannelAsLocal, Unsubscribe

(* Every step keeps Leaving: only its own goroutine changes the slice of a channel. *)
LEMMA LeavingKept ==
  ASSUME Types, Leaving, [Next]_vars
  PROVE  Leaving'
<1>1. CASE UNCHANGED <<brokerSubs, mark, causes>>
  BY <1>1, ZenonT(60) DEF Leaving
<1>2. ASSUME NEW ch \in Channel, causes \subseteq causes',
             NEW m, m.at = "unsubscribe" => brokerSubs[ch] # << >> /\ (Len(brokerSubs[ch]) > 1 => "many" \in causes'),
             m.at = "unsubscribe" => brokerSubs' = brokerSubs,
             mark' = [mark EXCEPT ![ch] = m],
             \A c \in Channel \ {ch} : brokerSubs'[c] = brokerSubs[c]
      PROVE  Leaving'
  BY <1>2, ZenonT(60) DEF Leaving, Types
<1>3. ASSUME NEW ch \in Channel, NEW d \in Destination, MarkChannelAsGalactic(ch, d)
      PROVE  Leaving'
  BY <1>2, <1>3, ZenonT(60) DEF MarkChannelAsGalactic
<1>4. ASSUME NEW ch \in Channel, Subscribe(ch)
      PROVE  Leaving'
  BY <1>2, <1>4, ZenonT(60) DEF Subscribe
<1>5. ASSUME NEW ch \in Channel, SubscribeNew(ch)
      PROVE  Leaving'
  BY <1>2, <1>5, ZenonT(60) DEF SubscribeNew
<1>6. ASSUME NEW ch \in Channel, SubscribeFails(ch) \/ addBrokerSubscription(ch)
      PROVE  Leaving'
  BY <1>2, <1>6, ZenonT(60) DEF SubscribeFails, addBrokerSubscription, Idle, Types
<1>7. ASSUME NEW ch \in Channel, MarkChannelAsLocal(ch)
      PROVE  Leaving'
  BY <1>2, <1>7, ZenonT(60) DEF MarkChannelAsLocal
<1>8. ASSUME NEW ch \in Channel, Unsubscribe(ch)
      PROVE  Leaving'
  BY <1>2, <1>8, ZenonT(60) DEF Unsubscribe, removeBrokerSubscription, Idle, Types
<1>9. QED
  BY <1>1, <1>3, <1>4, <1>5, <1>6, <1>7, <1>8, Steps, ZenonT(60)
     DEF Quiet, galacticVars, StopListening

-----------------------------------------------------------------------------
(* The entry added is the last of the slice, and the others stay. *)
LEMMA AddedEntries ==
  ASSUME Types, NEW ch \in Channel, NEW x \in 1 .. MaxSub,
         brokerSubs' = [brokerSubs EXCEPT ![ch] = Append(@, x)]
  PROVE  /\ Entries(ch)' = Entries(ch) \cup {x}
         /\ \A c \in Channel \ {ch} : Entries(c)' = Entries(c)
<1> DEFINE old == brokerSubs[ch]
           new == Append(old, x)
<1>1. old \in Seq(1 .. MaxSub) /\ brokerSubs'[ch] = new
  BY ZenonT(60) DEF Types
<1>2. /\ Len(old) \in Nat /\ DOMAIN old = 1 .. Len(old) /\ DOMAIN new = 1 .. Len(old) + 1
      /\ \A i \in 1 .. Len(old) : new[i] = old[i]
      /\ new[Len(old) + 1] = x
  BY <1>1, SMTT(60)
<1> HIDE DEF old, new
<1>3. DOMAIN new = DOMAIN old \cup {Len(old) + 1}
  BY <1>2, SMTT(60)
<1>4. {new[i] : i \in DOMAIN new} = {old[i] : i \in DOMAIN old} \cup {x}
  BY <1>2, <1>3, SMTT(60)
<1>5. Entries(ch)' = Entries(ch) \cup {x}
  BY <1>1, <1>4, ZenonT(60) DEF Entries, old
<1>6. \A c \in Channel \ {ch} : Entries(c)' = Entries(c)
  BY ZenonT(60) DEF Entries, Types
<1>7. QED
  BY <1>5, <1>6, ZenonT(60)

(* A slice holds objects. *)
LEMMA EntryFacts ==
  ASSUME Types, NEW ch \in Channel
  PROVE  /\ Entries(ch) \subseteq 1 .. MaxSub
         /\ brokerSubs[ch] # << >> => brokerSubs[ch][1] \in Entries(ch)
<1>1. brokerSubs[ch] \in Seq(1 .. MaxSub)
  BY ZenonT(60) DEF Types
<1>2. \A i \in DOMAIN brokerSubs[ch] : brokerSubs[ch][i] \in 1 .. MaxSub
  <2>1. ASSUME NEW S, NEW q \in Seq(S) PROVE \A i \in DOMAIN q : q[i] \in S
    BY SMTT(60)
  <2>2. QED
    BY <1>1, <2>1, ZenonT(60)
<1>3. brokerSubs[ch] # << >> => 1 \in DOMAIN brokerSubs[ch]
  BY <1>1, SMTT(60)
<1>4. QED
  BY <1>2, <1>3, ZenonT(60) DEF Entries

(* A step keeps what channels own if it changes neither objects nor who has them. *)
LEMMA OwnedStays ==
  ASSUME Owned, UNCHANGED <<open, subscriptions, destination, panicked>>,
         causes \subseteq causes',
         \A ch \in Channel : Entries(ch)' = Entries(ch),
         \A ch \in Channel : mark'[ch].at = "add" => mark'[ch] = mark[ch],
         \A ch \in Channel, s \in 1 .. MaxSub : listeners[ch][s] > 0 /\ s \in open => listeners'[ch][s] > 0
  PROVE  Owned'
<1> SUFFICES ASSUME "reused" \notin causes', ~panicked',
                    NEW ch \in Channel, NEW s \in 1 .. MaxSub, Has(ch, s)'
             PROVE  /\ s \in open'
                    /\ s \in Entries(ch)' => listeners'[ch][s] > 0
                    /\ \A c \in Channel : Has(c, s)' => c = ch
                    /\ "raced" \notin causes' => subscriptions'[destination'[s]] = s
  BY ZenonT(60) DEF Owned
<1>1. "reused" \notin causes /\ ~panicked /\ ("raced" \notin causes' => "raced" \notin causes)
  BY ZenonT(60)
<1>2. \A c \in Channel : Has(c, s)' => Has(c, s)
  <2> TAKE c \in Channel
  <2>1. Entries(c)' = Entries(c) /\ (mark'[c].at = "add" => mark'[c] = mark[c])
    BY ZenonT(60)
  <2>2. QED
    BY <2>1, ZenonT(60) DEF Has
<1>3. /\ s \in open
      /\ s \in Entries(ch) => listeners[ch][s] > 0
      /\ \A c \in Channel : Has(c, s) => c = ch
      /\ "raced" \notin causes => subscriptions[destination[s]] = s
  BY <1>1, <1>2, ZenonT(60) DEF Owned
<1>4. QED
  BY <1>1, <1>2, <1>3, ZenonT(60)

\* What Owned says of an object that a channel has.
Good(ch, s) ==
  /\ s \in open
  /\ s \in Entries(ch) => listeners[ch][s] > 0
  /\ \A c \in Channel : Has(c, s) => c = ch
  /\ "raced" \notin causes => subscriptions[destination[s]] = s

(* An object that was just made is its channel's own, and takes nothing from the others. *)
LEMMA NewIsOwned ==
  ASSUME Types, Room, Owned, ~panicked, NEW ch \in Channel, SubscribeNew(ch)
  PROVE  Owned'
<1> DEFINE n == nsubs + 1
<1> SUFFICES ASSUME "reused" \notin causes', NEW c \in Channel, NEW s \in 1 .. MaxSub, Has(c, s)'
             PROVE  Good(c, s)'
  BY ZenonT(60) DEF Owned, Good
<1>1. /\ causes \subseteq causes' /\ UNCHANGED <<brokerSubs, listeners>>
      /\ mark' = [mark EXCEPT ![ch] = [at |-> "add", sub |-> n]]
      /\ Existing(mark[ch].to) # 0 => "raced" \in causes'
      /\ mark[ch].at = "create"
  BY ZenonT(60) DEF SubscribeNew
<1>2. /\ "reused" \notin causes
      /\ \A d \in Channel, t \in 1 .. MaxSub : Has(d, t) => Good(d, t) /\ t # n
  BY <1>1, SMTT(60) DEF Owned, Good, Types
<1>3. \A d \in Channel : Entries(d)' = Entries(d)
  BY <1>1, ZenonT(60) DEF Entries
<1>4. \A d \in Channel : Has(d, s)' <=> (Has(d, s) \/ (d = ch /\ s = n))
  <2> TAKE d \in Channel
  <2>1. CASE d = ch
    <3>1. mark'[d].at = "add" /\ mark'[d].sub = n /\ mark[d].at = "create"
      BY <1>1, <2>1, ZenonT(60) DEF Types
    <3>2. Entries(d)' = Entries(d)
      BY <1>3, ZenonT(60)
    <3> HIDE DEF n
    <3>3. QED
      BY <2>1, <3>1, <3>2, ZenonT(60) DEF Has
  <2>2. CASE d # ch
    <3>1. mark'[d] = mark[d] /\ Entries(d)' = Entries(d)
      BY <1>1, <1>3, <2>2, ZenonT(60) DEF Types
    <3>2. QED
      BY <2>2, <3>1, ZenonT(60) DEF Has
  <2>3. QED
    BY <2>1, <2>2, ZenonT(60)
<1>5. CASE s = n
  <2>1. c = ch /\ \A d \in Channel : Has(d, s)' => d = ch
    BY <1>2, <1>4, <1>5, ZenonT(60)
  <2>2. s \in open' /\ subscriptions'[destination'[s]] = s
    <3>1. /\ destination'[n] = mark[ch].to /\ mark[ch].to \in Destination /\ open' = open \cup {n}
          /\ subscriptions' = [subscriptions EXCEPT ![mark[ch].to] = n]
      BY SubscribeNewFacts, ZenonT(60)
    <3>2. DOMAIN subscriptions = Destination
      BY ZenonT(60) DEF Types
    <3> HIDE DEF n
    <3>3. QED
      BY <1>5, <3>1, <3>2, ZenonT(60)
  <2>3. s \notin Entries(c)'
    BY <1>2, <1>3, <1>5, ZenonT(60) DEF Has
  <2>4. QED
    BY <2>1, <2>2, <2>3, ZenonT(60) DEF Good
<1>6. CASE s # n
  <2>1. Has(c, s) /\ Good(c, s)
    BY <1>2, <1>4, <1>6, ZenonT(60)
  <2>2. s \in open' /\ (s \in Entries(c)' => listeners'[c][s] > 0)
    BY <1>1, <1>3, <2>1, SubscribeNewFacts, ZenonT(60) DEF Good
  <2>3. \A d \in Channel : Has(d, s)' => d = c
    BY <1>4, <1>6, <2>1, ZenonT(60) DEF Good
  <2>4. ASSUME "raced" \notin causes' PROVE subscriptions'[destination'[s]] = s
    <3>1. s \in 1 .. nsubs /\ subscriptions[destination[s]] = s /\ subscriptions[mark[ch].to] = 0
      BY <1>1, <2>1, <2>4, ZenonT(60) DEF Good, Types, Existing
    <3>2. /\ destination'[s] = destination[s]
          /\ subscriptions' = [subscriptions EXCEPT ![mark[ch].to] = n]
      BY <3>1, SubscribeNewFacts, ZenonT(60)
    <3>3. destination[s] # mark[ch].to
      BY <3>1, SMTT(60)
    <3>4. destination[s] \in Destination
      BY <3>1, SMTT(60) DEF Types
    <3>5. QED
      BY <3>1, <3>2, <3>3, <3>4, ZenonT(60) DEF Types
  <2>5. QED
    BY <2>2, <2>3, <2>4, ZenonT(60) DEF Good
<1>7. QED
  BY <1>5, <1>6, ZenonT(60)

(* An object that is added to the slice of its channel is listened to. *)
LEMMA AddedIsOwned ==
  ASSUME Types, Owned, ~panicked, NEW ch \in Channel, addBrokerSubscription(ch)
  PROVE  Owned'
<1> DEFINE x == mark[ch].sub
<1> SUFFICES ASSUME "reused" \notin causes', NEW c \in Channel, NEW s \in 1 .. MaxSub, Has(c, s)'
             PROVE  Good(c, s)'
  BY ZenonT(60) DEF Owned, Good
<1>1. /\ UNCHANGED <<causes, open, subscriptions, destination>> /\ mark[ch].at = "add"
      /\ mark' = [mark EXCEPT ![ch] = Idle]
      /\ brokerSubs' = [brokerSubs EXCEPT ![ch] = Append(@, x)]
      /\ listeners' = [listeners EXCEPT ![ch][x] = @ + 1]
  BY ZenonT(60) DEF addBrokerSubscription, bridgeVars
<1>2. x \in 1 .. MaxSub
  BY <1>1, MarkFacts, ZenonT(60)
<1>3. /\ Entries(ch)' = Entries(ch) \cup {x}
      /\ \A d \in Channel \ {ch} : Entries(d)' = Entries(d)
  BY <1>1, <1>2, AddedEntries, ZenonT(60)
<1>4. \A d \in Channel : Has(d, s)' => Has(d, s)
  <2> TAKE d \in Channel
  <2>1. CASE d = ch
    <3>1. mark'[d].at # "add"
      BY <1>1, <2>1, ZenonT(60) DEF Types, Idle
    <3>2. QED
      BY <1>1, <1>3, <2>1, <3>1, ZenonT(60) DEF Has
  <2>2. CASE d # ch
    <3>1. mark'[d] = mark[d] /\ Entries(d)' = Entries(d)
      BY <1>1, <1>3, <2>2, ZenonT(60) DEF Types
    <3>2. QED
      BY <3>1, ZenonT(60) DEF Has
  <2>3. QED
    BY <2>1, <2>2, ZenonT(60)
<1>5. Good(c, s)
  BY <1>1, <1>4, ZenonT(60) DEF Owned, Good
<1>6. s \in Entries(c)' => listeners'[c][s] > 0
  <2>1. listeners[c][s] \in Nat /\ listeners[ch][x] \in Nat
    BY <1>2, ZenonT(60) DEF Types
  <2>2. CASE c = ch /\ s = x
    <3> HIDE DEF x
    <3>1. listeners \in [Channel -> [1 .. MaxSub -> Nat]]
      BY ZenonT(60) DEF Types
    <3>2. listeners'[ch][x] = listeners[ch][x] + 1
      BY <1>1, <1>2, <3>1, ZenonT(60)
    <3>3. QED
      BY <2>1, <2>2, <3>2, SMTT(60)
  <2>3. CASE ~(c = ch /\ s = x)
    <3>1. s \in Entries(c)' => s \in Entries(c)
      BY <1>3, <2>3, ZenonT(60)
    <3>2. listeners'[c][s] = listeners[c][s]
      BY <1>1, <1>2, <2>3, ZenonT(60) DEF Types
    <3>3. QED
      BY <1>5, <3>1, <3>2, ZenonT(60) DEF Good
  <2>4. QED
    BY <2>2, <2>3, ZenonT(60)
<1>7. QED
  BY <1>1, <1>4, <1>5, <1>6, ZenonT(60) DEF Good

(* MarkChannelAsLocal takes an object from its own channel only. *)
LEMMA UnsubscribedIsOwned ==
  ASSUME Types, Owned, Leaving, ~panicked, NEW ch \in Channel, Unsubscribe(ch)
  PROVE  Owned'
<1> DEFINE x == brokerSubs[ch][1]
<1> SUFFICES ASSUME "reused" \notin causes', ~panicked',
                    NEW c \in Channel, NEW s \in 1 .. MaxSub, Has(c, s)'
             PROVE  Good(c, s)'
  BY ZenonT(60) DEF Owned, Good
<1>1. /\ causes \subseteq causes' /\ UNCHANGED <<subscriptions, destination, listeners>>
      /\ mark' = [mark EXCEPT ![ch] = Idle] /\ open' = open \ {x}
      /\ mark[ch].at = "unsubscribe"
  BY ZenonT(60) DEF Unsubscribe, UnsubscribeObject
<1>2. removeBrokerSubscription(ch)
  BY ZenonT(60) DEF Unsubscribe
<1>3. ~(Len(brokerSubs[ch]) > 1)
  BY <1>2, ZenonT(60) DEF removeBrokerSubscription
<1>4. brokerSubs[ch] \in Seq(1 .. MaxSub) /\ brokerSubs[ch] # << >>
  BY <1>1, ZenonT(60) DEF Types, Leaving
<1>5. DOMAIN Tail(brokerSubs[ch]) = {}
  BY <1>3, <1>4, SMTT(60)
<1>6. brokerSubs' = [brokerSubs EXCEPT ![ch] = Tail(@)]
  BY <1>2, ZenonT(60) DEF removeBrokerSubscription
<1>7. Entries(ch)' = {} /\ \A d \in Channel \ {ch} : Entries(d)' = Entries(d)
  BY <1>5, <1>6, ZenonT(60) DEF Entries, Types
<1>8. ~Has(ch, s)'
  <2>1. mark'[ch].at # "add"
    BY <1>1, ZenonT(60) DEF Types, Idle
  <2>2. QED
    BY <1>7, <2>1, ZenonT(60) DEF Has
<1>9. \A d \in Channel : Has(d, s)' => Has(d, s)
  <2> TAKE d \in Channel
  <2>1. CASE d # ch
    <3>1. mark'[d] = mark[d] /\ Entries(d)' = Entries(d)
      BY <1>1, <1>7, <2>1, ZenonT(60) DEF Types
    <3>2. QED
      BY <3>1, ZenonT(60) DEF Has
  <2>2. QED
    BY <1>8, <2>1, ZenonT(60)
<1>10. c # ch /\ Good(c, s)
  BY <1>1, <1>8, <1>9, ZenonT(60) DEF Owned, Good
<1>11. s # x
  <2>1. x \in Entries(ch)
    BY <1>4, EntryFacts, ZenonT(60)
  <2>2. Has(ch, x)
    BY <2>1, ZenonT(60) DEF Has
  <2>3. QED
    BY <1>10, <2>2, ZenonT(60) DEF Good
<1>12. s \in Entries(c)' => listeners'[c][s] > 0
  BY <1>1, <1>7, <1>10, ZenonT(60) DEF Good
<1>13. QED
  BY <1>1, <1>9, <1>10, <1>11, <1>12, ZenonT(60) DEF Good

(* Every step keeps the objects of channels apart, open and listened to. *)
LEMMA OwnedKept ==
  ASSUME Types, Room, Owned, Leaving, [Next]_vars
  PROVE  Owned'
<1>1. CASE Quiet
  BY <1>1, OwnedStays, ZenonT(60) DEF Quiet, galacticVars, Entries
<1>2. ASSUME NEW ch \in Channel, NEW t \in 1 .. nsubs, StopListening(ch, t)
      PROVE  Owned'
  <2>1. \A c \in Channel, s \in 1 .. MaxSub : listeners[c][s] > 0 /\ s \in open => listeners'[c][s] > 0
    <3>1. t \in 1 .. MaxSub
      BY Counted, GalacticAssumption, SMTT(60) DEF Types
    <3>2. QED
      BY <1>2, <3>1, ZenonT(60) DEF StopListening, Types
  <2>2. QED
    BY <1>2, <2>1, OwnedStays, ZenonT(60) DEF StopListening, bridgeVars, Entries
<1>3. ASSUME NEW ch \in Channel, NEW m, m.at # "add", mark' = [mark EXCEPT ![ch] = m],
             causes \subseteq causes',
             UNCHANGED <<bridgeVars, brokerSubs, listeners>>
      PROVE  Owned'
  <2>1. \A c \in Channel : mark'[c].at = "add" => mark'[c] = mark[c]
    BY <1>3, ZenonT(60) DEF Types
  <2>2. QED
    BY <1>3, <2>1, OwnedStays, ZenonT(60) DEF bridgeVars, Entries
<1>4. ASSUME NEW ch \in Channel, NEW d \in Destination, MarkChannelAsGalactic(ch, d)
      PROVE  Owned'
  BY <1>3, <1>4, ZenonT(60) DEF MarkChannelAsGalactic
<1>5. ASSUME NEW ch \in Channel, Subscribe(ch)
      PROVE  Owned'
  <2>1. CASE Existing(mark[ch].to) # 0
    BY <1>5, <2>1, ZenonT(60) DEF Subscribe, Owned
  <2>2. CASE Existing(mark[ch].to) = 0
    BY <1>3, <1>5, <2>2, ZenonT(60) DEF Subscribe
  <2>3. QED
    BY <2>1, <2>2, ZenonT(60)
<1>6. ASSUME NEW ch \in Channel, SubscribeFails(ch)
      PROVE  Owned'
  BY <1>3, <1>6, ZenonT(60) DEF SubscribeFails, Idle
<1>7. ASSUME NEW ch \in Channel, MarkChannelAsLocal(ch)
      PROVE  Owned'
  BY <1>3, <1>7, ZenonT(60) DEF MarkChannelAsLocal
<1>8. QED
  BY <1>1, <1>2, <1>4, <1>5, <1>6, <1>7, NewIsOwned, AddedIsOwned, UnsubscribedIsOwned, Steps, ZenonT(60)

(* Every step keeps PanicNeedsReuse: what Unsubscribe closes is open unless it was handed out twice. *)
LEMMA PanicKept ==
  ASSUME Types, Owned, Leaving, PanicNeedsReuse, [Next]_vars
  PROVE  PanicNeedsReuse'
<1>1. CASE causes \subseteq causes' /\ UNCHANGED panicked
  BY <1>1, ZenonT(60) DEF PanicNeedsReuse
<1>2. ASSUME NEW ch \in Channel, ~panicked, SubscribeNew(ch)
      PROVE  PanicNeedsReuse'
  <2>1. panicked' => WritesRangedMap
    BY <1>2, ZenonT(60) DEF SubscribeNew, subscribeWs, subscribeTCP, ClientSubscribe
  <2>2. WritesRangedMap => "map" \in causes'
    BY <1>2, ZenonT(60) DEF SubscribeNew
  <2>3. QED
    BY <2>1, <2>2, ZenonT(60) DEF PanicNeedsReuse
<1>3. ASSUME NEW ch \in Channel, ~panicked, Unsubscribe(ch)
      PROVE  PanicNeedsReuse'
  <2> DEFINE x == brokerSubs[ch][1]
  <2>1. brokerSubs[ch] # << >> /\ (Len(brokerSubs[ch]) > 1 => "many" \in causes)
    BY <1>3, ZenonT(60) DEF Unsubscribe, Leaving
  <2>2. causes \subseteq causes' /\ (Late => "late" \in causes')
    BY <1>3, ZenonT(60) DEF Unsubscribe
  <2>3. CASE x \in open /\ ~NilWriter
    <3>1. panicked' => Len(brokerSubs[ch]) > 1
      BY <1>3, <2>3, ZenonT(60) DEF Unsubscribe, removeBrokerSubscription
    <3>2. QED
      BY <2>1, <2>2, <3>1, ZenonT(60) DEF PanicNeedsReuse
  <2>4. CASE x \notin open
    <3>1. x \in 1 .. MaxSub /\ Has(ch, x)
      BY <2>1, EntryFacts, ZenonT(60) DEF Has
    <3>2. "reused" \in causes
      BY <1>3, <2>4, <3>1, ZenonT(60) DEF Owned
    <3>3. QED
      BY <2>2, <3>2, ZenonT(60) DEF PanicNeedsReuse
  <2>5. CASE NilWriter
    BY <2>2, <2>5, ZenonT(60) DEF NilWriter, PanicNeedsReuse
  <2>6. QED
    BY <2>3, <2>4, <2>5, ZenonT(60)
<1>4. QED
  BY <1>1, <1>2, <1>3, Steps, ZenonT(60)
     DEF Quiet, galacticVars, bridgeVars, StopListening, MarkChannelAsGalactic, Subscribe, SubscribeFails,
         addBrokerSubscription, MarkChannelAsLocal

(* The inductive invariant holds in every behaviour. *)
LEMMA Invariance == Spec => []IInv
<1>1. Init => IInv
  <2> SUFFICES ASSUME Init PROVE IInv
    BY ZenonT(60)
  <2> USE DEF Init, BridgeInit, Idle
  <2>1. Types
    BY GalacticAssumption, SMTT(60) DEF Types, Marks
  <2>2. Room
    <3>1. Makers = {}
      BY ZenonT(60) DEF Makers
    <3>2. QED
      BY <3>1, FS_EmptySet, GalacticAssumption, SMTT(60) DEF Room
  <2>3. Owned
    BY SMTT(60) DEF Owned, Has, Entries
  <2>4. Leaving /\ PanicNeedsReuse
    BY ZenonT(60) DEF Leaving, PanicNeedsReuse
  <2>5. QED
    BY <2>1, <2>2, <2>3, <2>4, ZenonT(60) DEF IInv
<1>2. IInv /\ [Next]_vars => IInv'
  BY TypesKept, RoomKept, OwnedKept, LeavingKept, PanicKept, ZenonT(60) DEF IInv
<1>3. QED
  BY <1>1, <1>2, PTL DEF Spec

(***************************************************************************)
(* MappedIsServed for any channels and destinations: while no object is    *)
(* handed out twice, the entries of a channel are open, listened to, and   *)
(* have their place in the client's map.                                   *)
(***************************************************************************)
THEOREM EntriesAreServed == Spec => []MappedIsServed
<1>1. IInv => MappedIsServed
  <2> SUFFICES ASSUME IInv, causes \cap {"reused", "raced"} = {}, ~panicked,
                      NEW ch \in Channel, NEW s \in Entries(ch)
               PROVE  s \in open /\ listeners[ch][s] > 0 /\ subscriptions[destination[s]] = s
    BY ZenonT(60) DEF MappedIsServed
  <2>1. s \in 1 .. MaxSub /\ Has(ch, s)
    BY EntryFacts, ZenonT(60) DEF IInv, Has
  <2>2. QED
    BY <2>1, ZenonT(60) DEF IInv, Owned
<1>2. QED
  BY <1>1, Invariance, PTL

(***************************************************************************)
(* PanicNeedsReuse for any channels and destinations: the causes named are *)
(* all there are for the process to end.                                   *)
(***************************************************************************)
THEOREM PanicsHaveCauses == Spec => []PanicNeedsReuse
<1>1. IInv => PanicNeedsReuse
  BY ZenonT(60) DEF IInv
<1>2. QED
  BY <1>1, Invariance, PTL
=============================================================================
