--------------------------- MODULE EventBusProofs ---------------------------
(***************************************************************************)
(* Proofs about EventBus, for any names, handlers, clients and traffic.    *)
(*                                                                         *)
(* That Fire waits for the replies rests on objects not being used twice:  *)
(* a channel object has one name (Named), and once the name maps to        *)
(* another object it never comes back, since new objects are new           *)
(* (Numbered). So while a name maps to the object Fire uses, everyone who  *)
(* replies by name has replied there, and somebody on that object carries  *)
(* the request or its reply (Owing), which the WaitGroup counts.           *)
(*                                                                         *)
(* That closed handlers are silent rests on a handler being subscribed     *)
(* once, before it has the id that Close needs (IdLast): who closes it has *)
(* looked up the object it is on, if its name maps to that one still       *)
(* (Leaves), so a message that looks the name up later does not find it.   *)
(***************************************************************************)
EXTENDS EventBus, FiniteSetTheorems, TLAPS

Calls == {"subscribe", "assign", "close", "wait"}

\* TypeOK, by parts; pc is a function.
PcOK == DOMAIN pc = Client /\ \A c \in Client : PcType(pc[c])

Message == [dir : Direction, dest : Id \cup {NoId}, closed : SUBSET Handler, client : BOOLEAN]

Delivery(n) ==
  [h : Handler, msg : 1 .. n, obj : Object, to : 0 .. MaxObject, hasId : BOOLEAN,
   at : {"call", "function", "reply", "close", "unsubscribe"}]

Deliveries == messages \in Seq(Message) /\ goroutines \subseteq Delivery(Len(messages))

Tables ==
  /\ channels \in [Name -> 0 .. MaxObject] /\ created \in 0 .. MaxObject
  /\ subscribed \in [Object -> SUBSET Handler] /\ madeOn \in [Handler -> 0 .. MaxObject]
  /\ invokeOnce \in [Handler -> {"unused", "running", "done"}]
  /\ fired \in [Handler -> {"no", "waiting", "returned"}]
  /\ handled \subseteq Handler /\ owed \subseteq Handler

Records ==
  /\ subscriptionId \subseteq handled /\ closed \subseteq handled
  /\ invoked \subseteq handled \X (1 .. Len(messages))

\* Who is anywhere in the bus has been handled.
Known ==
  /\ \A o \in Object : subscribed[o] \subseteq handled
  /\ \A c \in Client : pc[c].op \in Calls => pc[c].h \in handled
  /\ \A g \in goroutines : g.h \in handled

\* The Once of a handler is unused until the handler has run.
Onces ==
  \A h \in Handler : Mode[h].runOnce =>
    /\ invokeOnce[h] = "unused" <=> InvokedBy(h) = {}
    /\ \A i, j \in InvokedBy(h) : i = j

\* A goroutine beyond the call of the user's function has run it.
Ran ==
  \A g \in goroutines :
    /\ g.at # "call" => <<g.h, g.msg>> \in invoked
    /\ g.at \in {"reply", "close"} => g.to # 0

\* Objects are numbered in the order of their creation.
Numbered ==
  /\ \A n \in Name : channels[n] <= created
  /\ \A h \in Handler : madeOn[h] <= created /\ (madeOn[h] # 0 /\ Mode[h].needsId => Dest[h] # NoId)
  /\ \A h \in handled : madeOn[h] # 0
  /\ \A o \in Object : o > created => subscribed[o] = {}
  /\ \A c \in Client : pc[c].op = "subscribe" => pc[c].obj <= created

\* What is on the object of a name was made for the name.
Named ==
  \A n \in Name : channels[n] # 0 =>
    /\ \A m \in Name : channels[m] = channels[n] => m = n
    /\ \A h \in subscribed[channels[n]] : On[h] = n
    /\ \A c \in Client : pc[c].op = "subscribe" /\ pc[c].obj = channels[n] => On[pc[c].h] = n

\* Fire waits for the object its handler was made with.
Waiting == \A c \in Client : pc[c].op = "wait" => pc[c].obj = madeOn[pc[c].h]

\* A delivery of the request of h to somebody who answers it, or of the answer to h.
Carries(g, h) ==
  /\ g.obj = madeOn[h] /\ messages[g.msg].dest = Dest[h]
  /\ \/ /\ g.at \in {"call", "function", "reply"} /\ messages[g.msg].dir = "request"
        /\ Replies(g.h, h) /\ On[g.h] = On[h]
        /\ g.at = "reply" => g.to = madeOn[h]
     \/ g.h = h /\ g.at = "call" /\ messages[g.msg].dir = "response"

Dead == goroutines = {} /\ \A c \in Client : pc[c] = Crashed

\* An answer is due that has not come.
Due(h) == h \in owed \ closed /\ channels[On[h]] = madeOn[h] /\ InvokedBy(h) = {}

Owing ==
  /\ \A h \in owed : h \in handled /\ Mode[h].request
  /\ \A h \in Handler : Due(h) =>
       /\ fired[h] = "waiting" /\ h \in subscribed[madeOn[h]]
       /\ Dead \/ \E g \in goroutines : Carries(g, h)

Types == Tables /\ Records /\ Deliveries /\ PcOK

-----------------------------------------------------------------------------
(* The actions of the bus. *)
LEMMA Steps ==
  ASSUME [Next]_vars
  PROVE  \/ UNCHANGED vars
         \/ \E c \in Client :
              \/ \E n \in Name : CreateChannel(c, n) \/ DestroyChannel(c, n)
              \/ \E t \in Traffic : SendMessage(c, t)
              \/ \E h \in Handler : MakeHandler(c, h) \/ Handle(c, h) \/ Close(c, h) \/ Fire(c, h)
              \/ sendMessageToChannel(c) \/ SubscribeChannelHandler(c) \/ HandleReturns(c)
              \/ UnsubscribeChannelHandler(c) \/ FireReturns(c)
         \/ \E g \in goroutines :
              \/ SkipFunction(g) \/ CallFunction(g) \/ ReturnFromFunction(g) \/ LookUpInFunction(g)
              \/ ReplyInFunction(g) \/ CloseInFunction(g)
              \/ LookUpAfterOnce(g) \/ UnsubscribeAfterOnce(g) \/ NilSubscriptionId(g)
BY ZenonT(60) DEF Next, CallStep, Goroutine, Ended

(* The fields of what a client is in the middle of. *)
LEMMA PcFacts ==
  ASSUME PcOK, NEW c \in Client
  PROVE  /\ pc[c].op = "send" => /\ pc[c].obj \in Object /\ pc[c].closed \subseteq Handler
                                /\ pc[c].t.dir \in Direction /\ pc[c].t.dest \in Id \cup {NoId}
         /\ pc[c].op \in Calls => pc[c].obj \in Object /\ pc[c].h \in Handler
<1>1. PcType(pc[c])
  BY ZenonT(60) DEF PcOK
<1>2. CASE pc[c] \in {Idle, Crashed}
  BY <1>2, SMTT(60) DEF Idle, Crashed, Calls
<1>3. CASE pc[c] \in [op : {"send"}, obj : Object, t : Traffic, closed : SUBSET Handler]
  BY <1>3, EventBusAssumption, ZenonT(60) DEF Calls
<1>4. CASE pc[c] \in [op : Calls, obj : Object, h : Handler]
  BY <1>4, ZenonT(60) DEF Calls
<1>5. QED
  BY <1>1, <1>2, <1>3, <1>4, ZenonT(60) DEF PcType, Calls

(* A client goes on to something of the right type. *)
LEMMA PcSet ==
  ASSUME PcOK, NEW c \in Client, NEW p, PcType(p), pc' = [pc EXCEPT ![c] = p]
  PROVE  PcOK'
<1>1. DOMAIN pc' = Client /\ \A d \in Client : pc'[d] = IF d = c THEN p ELSE pc[d]
  BY ZenonT(60) DEF PcOK
<1>2. \A d \in Client : PcType(pc'[d])
  BY <1>1, ZenonT(60) DEF PcOK
<1>3. QED
  BY <1>1, <1>2, ZenonT(60) DEF PcOK, PcType

(* Every step keeps the type of pc. *)
LEMMA PcKept ==
  ASSUME PcOK, Tables, Records, Numbered, [Next]_vars
  PROVE  PcOK'
<1>1. CASE UNCHANGED pc
  BY <1>1, ZenonT(60) DEF PcOK, PcType
<1>2. PcType(Idle)
  BY ZenonT(60) DEF PcType
<1>3. ASSUME NEW o \in Object, NEW h \in Handler, NEW op \in Calls
      PROVE  PcType([op |-> op, obj |-> o, h |-> h])
  BY ZenonT(60) DEF PcType, Calls
<1>4. \A n \in Name : channels[n] # 0 => channels[n] \in Object
  BY EventBusAssumption, SMTT(60) DEF Tables, Object
<1>5. ASSUME NEW c \in Client, NEW t \in Traffic, SendMessage(c, t)
      PROVE  PcOK'
  <2>1. t.on \in Name
    BY EventBusAssumption, ZenonT(60)
  <2> closed \subseteq Handler
    BY ZenonT(60) DEF Records, Tables
  <2>2. PcType([op |-> "send", obj |-> channels[t.on], t |-> t, closed |-> closed])
    BY <1>4, <1>5, <2>1, ZenonT(60) DEF PcType, SendMessage
  <2>3. QED
    BY <1>5, <2>2, PcSet, ZenonT(60) DEF SendMessage
<1>6. ASSUME NEW c \in Client, sendMessageToChannel(c) \/ HandleReturns(c) \/ UnsubscribeChannelHandler(c) \/ FireReturns(c)
      PROVE  PcOK'
  BY <1>2, <1>6, PcSet, ZenonT(60) DEF sendMessageToChannel, HandleReturns, UnsubscribeChannelHandler, FireReturns
<1>7. ASSUME NEW c \in Client, NEW h \in Handler, Handle(c, h)
      PROVE  PcOK'
  <2>1. On[h] \in Name
    BY EventBusAssumption, ZenonT(60)
  <2>2. CASE channels[On[h]] = 0
    BY <1>2, <1>7, <2>2, PcSet, ZenonT(60) DEF Handle
  <2>3. CASE channels[On[h]] # 0
    <3>1. PcType([op |-> "subscribe", obj |-> channels[On[h]], h |-> h])
      BY <1>3, <1>4, <2>1, <2>3, ZenonT(60) DEF Calls
    <3>2. QED
      BY <1>7, <2>3, <3>1, PcSet, ZenonT(60) DEF Handle
  <2>4. QED
    BY <2>2, <2>3, ZenonT(60)
<1>8. ASSUME NEW c \in Client, SubscribeChannelHandler(c)
      PROVE  PcOK'
  <2>1. pc[c] \in [op : Calls, obj : Object, h : Handler]
    BY <1>8, SMTT(60) DEF SubscribeChannelHandler, PcOK, PcType, Idle, Crashed, Calls
  <2>2. PcType([pc[c] EXCEPT !.op = "assign"])
    BY <2>1, ZenonT(60) DEF PcType, Calls
  <2>3. QED
    BY <1>8, <2>2, PcSet, ZenonT(60) DEF SubscribeChannelHandler
<1>9. ASSUME NEW c \in Client, NEW h \in Handler, Close(c, h)
      PROVE  PcOK'
  <2>1. On[h] \in Name
    BY EventBusAssumption, ZenonT(60)
  <2>2. CASE channels[On[h]] = 0
    BY <1>1, <1>9, <2>2, ZenonT(60) DEF Close
  <2>3. CASE channels[On[h]] # 0
    <3>1. PcType([op |-> "close", obj |-> channels[On[h]], h |-> h])
      BY <1>3, <1>4, <2>1, <2>3, ZenonT(60) DEF Calls
    <3>2. QED
      BY <1>9, <2>3, <3>1, PcSet, ZenonT(60) DEF Close
  <2>4. QED
    BY <2>2, <2>3, ZenonT(60)
<1>10. ASSUME NEW c \in Client, NEW h \in Handler, Fire(c, h)
      PROVE  PcOK'
  <2>1. madeOn[h] \in Object
    BY <1>10, EventBusAssumption, SMTT(60) DEF Fire, Tables, Numbered, Object
  <2>2. PcType([op |-> "wait", obj |-> madeOn[h], h |-> h])
    BY <1>3, <2>1, ZenonT(60) DEF Calls
  <2>3. QED
    BY <1>10, <2>2, PcSet, ZenonT(60) DEF Fire
<1>11. ASSUME NEW g \in goroutines, NilSubscriptionId(g)
      PROVE  PcOK'
  BY <1>11, ZenonT(60) DEF NilSubscriptionId, PcOK, PcType
<1>12. QED
  BY <1>1, <1>5, <1>6, <1>7, <1>8, <1>9, <1>10, <1>11, Steps, ZenonT(60)
     DEF vars, CreateChannel, DestroyChannel, MakeHandler, SkipFunction, CallFunction, ReturnFromFunction,
         LookUpInFunction, ReplyInFunction, CloseInFunction, LookUpAfterOnce, UnsubscribeAfterOnce

-----------------------------------------------------------------------------
(* A message that is sent is the last one. *)
LEMMA SentFacts ==
  ASSUME Deliveries, NEW m \in Message, messages' = Append(messages, m)
  PROVE  /\ messages' \in Seq(Message) /\ Len(messages') = Len(messages) + 1
         /\ Len(messages) \in Nat
         /\ \A i \in 1 .. Len(messages) : messages'[i] = messages[i]
         /\ messages'[Len(messages) + 1] = m
<1>1. messages \in Seq(Message)
  BY ZenonT(60) DEF Deliveries
<1>2. QED
  BY <1>1, SMTT(60)

(* What Send starts. *)
LEMMA StartedFacts ==
  ASSUME Deliveries, Tables, NEW o \in Object
  PROVE  /\ Started(o) \subseteq Delivery(Len(messages) + 1)
         /\ \A g \in Started(o) : g.h \in subscribed[o] /\ g.at = "call" /\ g.msg = Len(messages) + 1
         /\ \A h \in subscribed[o] : \E g \in Started(o) :
              g.h = h /\ g.at = "call" /\ g.msg = Len(messages) + 1 /\ g.obj = o
<1>1. Len(messages) \in Nat /\ subscribed[o] \subseteq Handler
  BY SMTT(60) DEF Deliveries, Tables
<1>2. 0 \in 0 .. MaxObject /\ Len(messages) + 1 \in 1 .. Len(messages) + 1
  BY <1>1, EventBusAssumption, SMTT(60)
<1>3. ASSUME NEW h \in subscribed[o], NEW g,
             g = [h |-> h, msg |-> Len(messages) + 1, obj |-> o, at |-> "call", to |-> 0, hasId |-> FALSE]
      PROVE  /\ g \in Delivery(Len(messages) + 1)
             /\ g.h = h /\ g.at = "call" /\ g.msg = Len(messages) + 1 /\ g.obj = o
  BY <1>1, <1>2, <1>3, ZenonT(60) DEF Delivery
<1>4. QED
  BY <1>3, ZenonT(60) DEF Started

(* Sending keeps the types. *)
LEMMA Sending ==
  ASSUME Deliveries, Tables, NEW o \in Object, NEW m \in Message, messages' = Append(messages, m),
         NEW S, S \subseteq Delivery(Len(messages)), goroutines' = S \cup Started(o)
  PROVE  Deliveries'
<1>1. /\ messages' \in Seq(Message) /\ Len(messages') = Len(messages) + 1 /\ Len(messages) \in Nat
  BY SentFacts, ZenonT(60)
<1>2. Delivery(Len(messages)) \subseteq Delivery(Len(messages) + 1)
  BY <1>1, SMTT(60) DEF Delivery
<1>3. goroutines' \subseteq Delivery(Len(messages'))
  BY <1>1, <1>2, StartedFacts, ZenonT(60)
<1>4. QED
  BY <1>1, <1>3, ZenonT(60) DEF Deliveries, Delivery

(* A goroutine in the middle of something has the fields for it. *)
LEMMA DeliveryFacts ==
  ASSUME Deliveries, NEW g \in goroutines
  PROVE  /\ g \in Delivery(Len(messages)) /\ g.h \in Handler /\ g.msg \in 1 .. Len(messages) /\ Len(messages) \in Nat
         /\ g.obj \in Object /\ g.to \in 0 .. MaxObject /\ On[g.h] \in Name
         /\ messages[g.msg] \in Message /\ DOMAIN messages = 1 .. Len(messages)
         /\ AfterFunction(g) \subseteq Delivery(Len(messages))
<1>1. g \in Delivery(Len(messages)) /\ messages \in Seq(Message)
  BY ZenonT(60) DEF Deliveries
<1>2. /\ g.h \in Handler /\ g.msg \in 1 .. Len(messages) /\ g.obj \in Object /\ g.to \in 0 .. MaxObject
  BY <1>1, ZenonT(60) DEF Delivery
<1>3. Len(messages) \in Nat /\ messages[g.msg] \in Message /\ DOMAIN messages = 1 .. Len(messages)
  BY <1>1, <1>2, SMTT(60)
<1>4. [g EXCEPT !.at = "unsubscribe", !.to = 0] \in Delivery(Len(messages))
  <2>1. 0 \in 0 .. MaxObject
    BY EventBusAssumption, SMTT(60)
  <2>2. [g EXCEPT !.at = "unsubscribe"] \in Delivery(Len(messages))
    BY <1>1, ZenonT(60) DEF Delivery
  <2>3. QED
    BY <2>1, <2>2, ZenonT(60) DEF Delivery
<1>5. On[g.h] \in Name
  BY <1>2, EventBusAssumption, ZenonT(60)
<1>6. QED
  BY <1>1, <1>2, <1>3, <1>4, <1>5, ZenonT(60) DEF AfterFunction

(* Every step keeps the types of messages and goroutines. *)
LEMMA DeliveriesKept ==
  ASSUME Deliveries, Tables, Records, Numbered, PcOK, Ran, [Next]_vars
  PROVE  Deliveries'
<1>1. CASE UNCHANGED <<messages, goroutines>>
  BY <1>1, ZenonT(60) DEF Deliveries, Delivery
<1>2. ASSUME NEW g \in goroutines, NEW S, S \subseteq Delivery(Len(messages)),
             goroutines' \subseteq goroutines \cup S, UNCHANGED messages
      PROVE  Deliveries'
  BY <1>2, ZenonT(60) DEF Deliveries, Delivery
<1>3. goroutines \subseteq Delivery(Len(messages)) /\ closed \subseteq Handler
  BY ZenonT(60) DEF Deliveries, Records, Tables
<1>4. ASSUME NEW c \in Client, sendMessageToChannel(c)
      PROVE  Deliveries'
  <2>1. Msg(pc[c].t.dir, pc[c].t.dest, pc[c].closed, TRUE) \in Message /\ pc[c].obj \in Object
    BY <1>4, PcFacts, ZenonT(60) DEF Msg, Message, sendMessageToChannel
  <2>2. QED
    BY <1>3, <1>4, <2>1, Sending, ZenonT(60) DEF sendMessageToChannel
<1>5. ASSUME NEW c \in Client, NEW h \in Handler, Fire(c, h)
      PROVE  Deliveries'
  <2>1. madeOn[h] \in Object
    BY <1>5, EventBusAssumption, SMTT(60) DEF Fire, Tables, Numbered, Object
  <2>2. Msg("request", Dest[h], closed, FALSE) \in Message
    BY <1>3, EventBusAssumption, ZenonT(60) DEF Msg, Message, Direction
  <2>3. QED
    BY <1>3, <1>5, <2>1, <2>2, Sending, ZenonT(60) DEF Fire
<1>6. ASSUME NEW g \in goroutines, SkipFunction(g)
      PROVE  Deliveries'
  BY <1>2, <1>6, ZenonT(60) DEF SkipFunction, history
<1>7. ASSUME NEW g \in goroutines, CallFunction(g)
      PROVE  Deliveries'
  <2>1. {[g EXCEPT !.at = "function"]} \subseteq Delivery(Len(messages))
    BY DeliveryFacts, ZenonT(60) DEF Delivery
  <2>2. QED
    BY <1>2, <1>7, <2>1, ZenonT(60) DEF CallFunction
<1>8. ASSUME NEW g \in goroutines, ReturnFromFunction(g) \/ CloseInFunction(g)
      PROVE  Deliveries'
  BY <1>2, <1>8, DeliveryFacts, ZenonT(60) DEF ReturnFromFunction, CloseInFunction
<1>9. ASSUME NEW g \in goroutines, LookUpInFunction(g)
      PROVE  Deliveries'
  <2>1. Does[g.h] \in {"reply", "close"} /\ channels[On[g.h]] \in 0 .. MaxObject
    BY <1>9, DeliveryFacts, ZenonT(60) DEF LookUpInFunction, Tables
  <2>2. {[g EXCEPT !.at = Does[g.h], !.to = channels[On[g.h]]]} \subseteq Delivery(Len(messages))
    BY <2>1, DeliveryFacts, ZenonT(60) DEF Delivery
  <2>3. QED
    BY <1>2, <1>9, <2>2, ZenonT(60) DEF LookUpInFunction, history
<1>10. ASSUME NEW g \in goroutines, ReplyInFunction(g)
      PROVE  Deliveries'
  <2>1. Msg("response", messages[g.msg].dest, closed, FALSE) \in Message
    BY <1>3, DeliveryFacts, ZenonT(60) DEF Msg, Message, Direction
  <2>2. g.to \in Object
    <3>1. g.to \in 0 .. MaxObject /\ g.to # 0
      BY <1>10, DeliveryFacts, ZenonT(60) DEF Ran, ReplyInFunction
    <3>2. QED
      BY <3>1, EventBusAssumption, SMTT(60) DEF Object
  <2>3. (goroutines \ {g}) \cup AfterFunction(g) \subseteq Delivery(Len(messages))
    BY <1>3, DeliveryFacts, ZenonT(60)
  <2>4. QED
    BY <1>10, <2>1, <2>2, <2>3, Sending, ZenonT(60) DEF ReplyInFunction
<1>11. ASSUME NEW g \in goroutines, LookUpAfterOnce(g)
      PROVE  Deliveries'
  <2>1. CASE channels[On[g.h]] = 0
    BY <1>2, <1>11, <2>1, ZenonT(60) DEF LookUpAfterOnce, history
  <2>2. CASE channels[On[g.h]] # 0
    <3> DEFINE b == g.h \in subscriptionId
    <3>1. b \in BOOLEAN
      BY SMTT(60)
    <3>2. channels[On[g.h]] \in 0 .. MaxObject
      BY DeliveryFacts, ZenonT(60) DEF Tables
    <3>3. goroutines' = (goroutines \ {g}) \cup {[g EXCEPT !.to = channels[On[g.h]], !.hasId = b]} /\ UNCHANGED messages
      BY <1>11, <2>2, ZenonT(60) DEF LookUpAfterOnce, history
    <3> HIDE DEF b
    <3>4. {[g EXCEPT !.to = channels[On[g.h]], !.hasId = b]} \subseteq Delivery(Len(messages))
      BY <3>1, <3>2, DeliveryFacts, ZenonT(60) DEF Delivery
    <3>5. QED
      BY <1>2, <3>3, <3>4, ZenonT(60)
  <2>3. QED
    BY <2>1, <2>2, ZenonT(60)
<1>12. ASSUME NEW g \in goroutines, UnsubscribeAfterOnce(g) \/ NilSubscriptionId(g)
      PROVE  Deliveries'
  BY <1>12, ZenonT(60) DEF UnsubscribeAfterOnce, NilSubscriptionId, history, Deliveries, Delivery
<1>13. QED
  BY <1>1, <1>4, <1>5, <1>6, <1>7, <1>8, <1>9, <1>10, <1>11, <1>12, Steps, ZenonT(60)
     DEF vars, history, CreateChannel, DestroyChannel, SendMessage, MakeHandler, Handle, Close,
         SubscribeChannelHandler, HandleReturns, UnsubscribeChannelHandler, FireReturns

-----------------------------------------------------------------------------
(* Messages are only added, and what has happened stays. *)
LEMMA Growing ==
  ASSUME Types, Numbered, Ran, [Next]_vars
  PROVE  /\ Len(messages) \in Nat /\ Len(messages') \in Nat /\ Len(messages) <= Len(messages')
         /\ \A i \in 1 .. Len(messages) : messages'[i] = messages[i]
         /\ handled \subseteq handled' /\ closed \subseteq closed' /\ invoked \subseteq invoked'
<1>1. Len(messages) \in Nat
  BY SMTT(60) DEF Types, Deliveries
<1>2. \/ UNCHANGED messages
      \/ \E m \in Message : messages' = Append(messages, m)
  <2>1. closed \subseteq Handler
    BY ZenonT(60) DEF Types, Records, Tables
  <2>2. ASSUME NEW c \in Client, sendMessageToChannel(c)
        PROVE  \E m \in Message : messages' = Append(messages, m)
    <3>1. Msg(pc[c].t.dir, pc[c].t.dest, pc[c].closed, TRUE) \in Message
      BY <2>2, PcFacts, ZenonT(60) DEF Msg, Message, sendMessageToChannel, Types
    <3>2. QED
      BY <2>2, <3>1, ZenonT(60) DEF sendMessageToChannel
  <2>3. ASSUME NEW c \in Client, NEW h \in Handler, Fire(c, h)
        PROVE  \E m \in Message : messages' = Append(messages, m)
    <3>1. Msg("request", Dest[h], closed, FALSE) \in Message
      BY <2>1, EventBusAssumption, ZenonT(60) DEF Msg, Message, Direction
    <3>2. QED
      BY <2>3, <3>1, ZenonT(60) DEF Fire
  <2>4. ASSUME NEW g \in goroutines, ReplyInFunction(g)
        PROVE  \E m \in Message : messages' = Append(messages, m)
    <3>1. Msg("response", messages[g.msg].dest, closed, FALSE) \in Message
      BY <2>1, DeliveryFacts, ZenonT(60) DEF Msg, Message, Direction, Types
    <3>2. QED
      BY <2>4, <3>1, ZenonT(60) DEF ReplyInFunction
  <2>5. QED
    BY <2>2, <2>3, <2>4, Steps, ZenonT(60)
       DEF vars, history, CreateChannel, DestroyChannel, SendMessage, MakeHandler, Handle, Close,
           SubscribeChannelHandler, HandleReturns, UnsubscribeChannelHandler, FireReturns, SkipFunction,
           CallFunction, ReturnFromFunction, LookUpInFunction, CloseInFunction, LookUpAfterOnce,
           UnsubscribeAfterOnce, NilSubscriptionId
<1>3. /\ Len(messages') \in Nat /\ Len(messages) <= Len(messages')
      /\ \A i \in 1 .. Len(messages) : messages'[i] = messages[i]
  <2>1. CASE UNCHANGED messages
    BY <1>1, <2>1, SMTT(60)
  <2>2. CASE \E m \in Message : messages' = Append(messages, m)
    BY <1>1, <2>2, SentFacts, SMTT(60) DEF Types
  <2>3. QED
    BY <1>2, <2>1, <2>2, ZenonT(60)
<1>4. handled \subseteq handled' /\ closed \subseteq closed' /\ invoked \subseteq invoked'
  BY Steps, ZenonT(60)
     DEF vars, history, CreateChannel, DestroyChannel, SendMessage, MakeHandler, Handle, Close, Fire,
         sendMessageToChannel, SubscribeChannelHandler, HandleReturns, UnsubscribeChannelHandler, FireReturns,
         SkipFunction, CallFunction, ReturnFromFunction, LookUpInFunction, ReplyInFunction, CloseInFunction,
         LookUpAfterOnce, UnsubscribeAfterOnce, NilSubscriptionId
<1>5. QED
  BY <1>1, <1>3, <1>4, ZenonT(60)

(* Every step keeps the types of the tables. *)
LEMMA TablesKept ==
  ASSUME Types, [Next]_vars
  PROVE  Tables'
<1> USE EventBusAssumption
<1> Tables
  BY ZenonT(60) DEF Types
<1>1. CASE UNCHANGED <<channels, created, subscribed, madeOn, invokeOnce, fired, handled, owed>>
  BY <1>1, ZenonT(60) DEF Tables
<1>2. ASSUME NEW c \in Client, NEW n \in Name, CreateChannel(c, n) \/ DestroyChannel(c, n)
      PROVE  Tables'
  BY <1>2, SMTT(60) DEF Tables, CreateChannel, DestroyChannel, history
<1>3. ASSUME NEW c \in Client, NEW h \in Handler, MakeHandler(c, h)
      PROVE  Tables'
  BY <1>3, ZenonT(60) DEF Tables, MakeHandler, history
<1>4. ASSUME NEW c \in Client, NEW h \in Handler, Handle(c, h)
      PROVE  Tables'
  BY <1>4, ZenonT(60) DEF Tables, Handle
<1>5. ASSUME NEW c \in Client, SubscribeChannelHandler(c)
      PROVE  Tables'
  <2>1. pc[c].obj \in Object /\ pc[c].h \in Handler
    BY <1>5, PcFacts, ZenonT(60) DEF Types, SubscribeChannelHandler, Calls
  <2>2. subscribed' \in [Object -> SUBSET Handler]
    BY <1>5, <2>1, ZenonT(60) DEF Tables, SubscribeChannelHandler
  <2>3. QED
    BY <1>5, <2>2, ZenonT(60) DEF Tables, SubscribeChannelHandler, history
<1>6. ASSUME NEW c \in Client, UnsubscribeChannelHandler(c)
      PROVE  Tables'
  BY <1>6, ZenonT(60) DEF Tables, UnsubscribeChannelHandler
<1>7. ASSUME NEW c \in Client, NEW h \in Handler, Fire(c, h)
      PROVE  Tables'
  <2>1. owed' \subseteq Handler /\ fired' \in [Handler -> {"no", "waiting", "returned"}]
    BY <1>7, ZenonT(60) DEF Tables, Fire
  <2>2. QED
    BY <1>7, <2>1, ZenonT(60) DEF Tables, Fire
<1>8. ASSUME NEW c \in Client, FireReturns(c)
      PROVE  Tables'
  BY <1>8, ZenonT(60) DEF Tables, FireReturns
<1>9. ASSUME NEW g \in goroutines, CallFunction(g)
      PROVE  Tables'
  BY <1>9, ZenonT(60) DEF Tables, CallFunction
<1>10. ASSUME NEW g \in goroutines, CloseInFunction(g) \/ UnsubscribeAfterOnce(g)
      PROVE  Tables'
  <2>1. subscribed' \in [Object -> SUBSET Handler]
    BY <1>10, SMTT(60) DEF Tables, CloseInFunction, UnsubscribeAfterOnce
  <2>2. QED
    BY <1>10, <2>1, ZenonT(60) DEF Tables, CloseInFunction, UnsubscribeAfterOnce, history
<1>11. ASSUME NEW g \in goroutines, LookUpAfterOnce(g)
      PROVE  Tables'
  <2>1. invokeOnce' \in [Handler -> {"unused", "running", "done"}]
    BY <1>11, ZenonT(60) DEF Tables, LookUpAfterOnce
  <2>2. QED
    BY <1>11, <2>1, ZenonT(60) DEF Tables, LookUpAfterOnce, history
<1>12. QED
  BY <1>1, <1>2, <1>3, <1>4, <1>5, <1>6, <1>7, <1>8, <1>9, <1>10, <1>11, Steps, ZenonT(60)
     DEF vars, history, SendMessage, Close, sendMessageToChannel, HandleReturns, SkipFunction, ReturnFromFunction,
         LookUpInFunction, ReplyInFunction, NilSubscriptionId

(* Every step keeps what is recorded within the handlers and messages there are. *)
LEMMA RecordsKept ==
  ASSUME Types, Known, Numbered, Ran, [Next]_vars
  PROVE  Records'
<1>1. /\ subscriptionId \subseteq handled /\ closed \subseteq handled
      /\ invoked \subseteq handled \X (1 .. Len(messages))
  BY ZenonT(60) DEF Types, Records
<1>2. /\ handled \subseteq handled'
      /\ 1 .. Len(messages) \subseteq 1 .. Len(messages')
  BY Growing, SMTT(60)
<1>3. subscriptionId' \subseteq handled'
  <2>1. ASSUME NEW c \in Client, HandleReturns(c) PROVE subscriptionId' \subseteq handled
    BY <1>1, <2>1, ZenonT(60) DEF HandleReturns, Known, Calls
  <2>2. QED
    BY <1>1, <1>2, <2>1, Steps, ZenonT(60)
       DEF vars, CreateChannel, DestroyChannel, SendMessage, MakeHandler, Handle, Close, Fire,
           sendMessageToChannel, SubscribeChannelHandler, UnsubscribeChannelHandler, FireReturns,
           SkipFunction, CallFunction, ReturnFromFunction, LookUpInFunction, ReplyInFunction, CloseInFunction,
           LookUpAfterOnce, UnsubscribeAfterOnce, NilSubscriptionId
<1>4. closed' \subseteq handled'
  <2>1. ASSUME NEW c \in Client, NEW h \in Handler, Close(c, h) PROVE closed' \subseteq handled
    BY <1>1, <2>1, ZenonT(60) DEF Close
  <2>2. ASSUME NEW c \in Client, UnsubscribeChannelHandler(c) PROVE closed' \subseteq handled
    BY <1>1, <2>2, ZenonT(60) DEF UnsubscribeChannelHandler, Known, Calls
  <2>3. ASSUME NEW g \in goroutines, ReturnFromFunction(g) \/ CloseInFunction(g) PROVE closed' \subseteq handled
    BY <1>1, <2>3, ZenonT(60) DEF ReturnFromFunction, CloseInFunction, Known
  <2>4. QED
    BY <1>1, <1>2, <2>1, <2>2, <2>3, Steps, ZenonT(60)
       DEF vars, history, CreateChannel, DestroyChannel, SendMessage, MakeHandler, Handle, Fire,
           sendMessageToChannel, SubscribeChannelHandler, HandleReturns, FireReturns,
           SkipFunction, CallFunction, LookUpInFunction, ReplyInFunction,
           LookUpAfterOnce, UnsubscribeAfterOnce, NilSubscriptionId
<1>5. invoked' \subseteq handled' \X (1 .. Len(messages'))
  <2>1. ASSUME NEW g \in goroutines, CallFunction(g) PROVE invoked' \subseteq handled \X (1 .. Len(messages))
    <3>1. g.h \in handled /\ g.msg \in 1 .. Len(messages)
      BY DeliveryFacts, ZenonT(60) DEF Known, Types
    <3>2. QED
      BY <1>1, <2>1, <3>1, SMTT(60) DEF CallFunction
  <2>2. handled \X (1 .. Len(messages)) \subseteq handled' \X (1 .. Len(messages'))
    BY <1>2, ZenonT(60)
  <2>3. \/ UNCHANGED invoked
        \/ \E g \in goroutines : CallFunction(g)
    BY Steps, ZenonT(60)
       DEF vars, history, CreateChannel, DestroyChannel, SendMessage, MakeHandler, Handle, Close, Fire,
           sendMessageToChannel, SubscribeChannelHandler, HandleReturns, UnsubscribeChannelHandler, FireReturns,
           SkipFunction, ReturnFromFunction, LookUpInFunction, ReplyInFunction, CloseInFunction,
           LookUpAfterOnce, UnsubscribeAfterOnce, NilSubscriptionId
  <2>4. QED
    BY <1>1, <2>1, <2>2, <2>3, ZenonT(60)
<1>6. QED
  BY <1>3, <1>4, <1>5, ZenonT(60) DEF Records

(* Where a goroutine comes from: it was there, Send has started it, or it was an earlier stage of it. *)
LEMMA Descent ==
  ASSUME Types, Numbered, Ran, [Next]_vars, NEW k \in goroutines'
  PROVE  \/ k \in goroutines
         \/ \E o \in Object : k \in Started(o)
         \/ \E g \in goroutines :
              /\ k.h = g.h /\ k.msg = g.msg /\ k.obj = g.obj
              /\ k.at # "call" /\ <<k.h, k.msg>> \in invoked'
              /\ k.at \in {"reply", "close"} => k.to # 0
<1> DEFINE Stage(g) ==
      /\ k.h = g.h /\ k.msg = g.msg /\ k.obj = g.obj
      /\ k.at # "call" /\ <<k.h, k.msg>> \in invoked'
      /\ k.at \in {"reply", "close"} => k.to # 0
<1>1. ASSUME NEW g \in goroutines, g.at # "call", k \in AfterFunction(g)
      PROVE  Stage(g)
  <2>1. k = [g EXCEPT !.at = "unsubscribe", !.to = 0] /\ g \in Delivery(Len(messages))
    BY <1>1, DeliveryFacts, ZenonT(60) DEF AfterFunction, Types
  <2>2. k.h = g.h /\ k.msg = g.msg /\ k.obj = g.obj /\ k.at = "unsubscribe"
    BY <2>1, ZenonT(60) DEF Delivery
  <2>3. <<g.h, g.msg>> \in invoked'
    BY <1>1, Growing, ZenonT(60) DEF Ran
  <2>4. QED
    BY <2>2, <2>3, ZenonT(60)
<1>2. ASSUME NEW c \in Client, sendMessageToChannel(c)
      PROVE  k \in goroutines \/ \E o \in Object : k \in Started(o)
  BY <1>2, PcFacts, ZenonT(60) DEF sendMessageToChannel, Types
<1>3. ASSUME NEW c \in Client, NEW h \in Handler, Fire(c, h)
      PROVE  k \in goroutines \/ \E o \in Object : k \in Started(o)
  <2>1. madeOn[h] \in Object
    BY <1>3, EventBusAssumption, SMTT(60) DEF Fire, Types, Tables, Numbered, Object
  <2>2. QED
    BY <1>3, <2>1, ZenonT(60) DEF Fire
<1>4. ASSUME NEW g \in goroutines, CallFunction(g)
      PROVE  k \in goroutines \/ Stage(g)
  <2>1. CASE k = [g EXCEPT !.at = "function"]
    <3>1. k.h = g.h /\ k.msg = g.msg /\ k.obj = g.obj /\ k.at = "function"
      BY <2>1, DeliveryFacts, ZenonT(60) DEF Delivery, Types
    <3>2. QED
      BY <1>4, <3>1, ZenonT(60) DEF CallFunction
  <2>2. QED
    BY <1>4, <2>1, ZenonT(60) DEF CallFunction
<1>5. ASSUME NEW g \in goroutines, ReturnFromFunction(g) \/ CloseInFunction(g)
      PROVE  k \in goroutines \/ Stage(g)
  BY <1>1, <1>5, ZenonT(60) DEF ReturnFromFunction, CloseInFunction
<1>6. ASSUME NEW g \in goroutines, LookUpInFunction(g)
      PROVE  k \in goroutines \/ Stage(g)
  <2>1. CASE k = [g EXCEPT !.at = Does[g.h], !.to = channels[On[g.h]]]
    <3>1. Does[g.h] \in {"reply", "close"} /\ channels[On[g.h]] # 0 /\ g.at # "call"
      BY <1>6, ZenonT(60) DEF LookUpInFunction
    <3>2. k.h = g.h /\ k.msg = g.msg /\ k.obj = g.obj /\ k.at = Does[g.h] /\ k.to = channels[On[g.h]]
      BY <2>1, DeliveryFacts, ZenonT(60) DEF Delivery, Types
    <3>3. <<g.h, g.msg>> \in invoked'
      BY <3>1, Growing, ZenonT(60) DEF Ran
    <3>4. QED
      BY <3>1, <3>2, <3>3, ZenonT(60)
  <2>2. QED
    BY <1>6, <2>1, ZenonT(60) DEF LookUpInFunction
<1>7. ASSUME NEW g \in goroutines, ReplyInFunction(g)
      PROVE  k \in goroutines \/ Stage(g) \/ \E o \in Object : k \in Started(o)
  <2>1. g.to \in 0 .. MaxObject /\ g.to # 0 /\ g.at # "call"
    BY <1>7, DeliveryFacts, ZenonT(60) DEF Ran, ReplyInFunction, Types
  <2>2. g.to \in Object
    BY <2>1, EventBusAssumption, SMTT(60) DEF Object
  <2>3. QED
    BY <1>1, <1>7, <2>1, <2>2, ZenonT(60) DEF ReplyInFunction
<1>8. ASSUME NEW g \in goroutines, LookUpAfterOnce(g)
      PROVE  k \in goroutines \/ Stage(g)
  <2> DEFINE b == g.h \in subscriptionId
  <2>1. \/ k \in goroutines
        \/ k = [g EXCEPT !.to = channels[On[g.h]], !.hasId = b]
    BY <1>8, ZenonT(60) DEF LookUpAfterOnce
  <2> HIDE DEF b
  <2>2. CASE k = [g EXCEPT !.to = channels[On[g.h]], !.hasId = b]
    <3>1. k.h = g.h /\ k.msg = g.msg /\ k.obj = g.obj /\ k.at = g.at
      BY <2>2, DeliveryFacts, ZenonT(60) DEF Delivery, Types
    <3>2. g.at = "unsubscribe"
      BY <1>8, ZenonT(60) DEF LookUpAfterOnce
    <3>3. <<g.h, g.msg>> \in invoked'
      BY <3>2, Growing, ZenonT(60) DEF Ran
    <3>4. QED
      BY <3>1, <3>2, <3>3, ZenonT(60)
  <2>3. QED
    BY <2>1, <2>2, ZenonT(60)
<1>9. CASE goroutines' \subseteq goroutines
  BY <1>9, ZenonT(60)
<1> HIDE DEF Stage
<1>10. \/ k \in goroutines
       \/ \E o \in Object : k \in Started(o)
       \/ \E g \in goroutines : Stage(g)
  BY <1>2, <1>3, <1>4, <1>5, <1>6, <1>7, <1>8, <1>9, Steps, ZenonT(60)
     DEF vars, CreateChannel, DestroyChannel, SendMessage, MakeHandler, Handle, Close,
         SubscribeChannelHandler, HandleReturns, UnsubscribeChannelHandler, FireReturns,
         SkipFunction, UnsubscribeAfterOnce, NilSubscriptionId
<1>11. QED
  BY <1>10, ZenonT(60) DEF Stage

(* Every step keeps handlers that were not handled out of the bus. *)
LEMMA KnownKept ==
  ASSUME Types, Known, Numbered, Ran, [Next]_vars
  PROVE  Known'
<1>1. handled \subseteq handled'
  BY Growing, ZenonT(60)
<1>2. \A o \in Object : subscribed'[o] \subseteq handled
  <2>1. ASSUME NEW c \in Client, SubscribeChannelHandler(c)
        PROVE  \A o \in Object : subscribed'[o] \subseteq handled
    BY <2>1, ZenonT(60) DEF SubscribeChannelHandler, Known, Calls, Types, Tables
  <2>2. ASSUME \A o \in Object : subscribed'[o] \subseteq subscribed[o]
        PROVE  \A o \in Object : subscribed'[o] \subseteq handled
    BY <2>2, ZenonT(60) DEF Known
  <2>3. ASSUME NEW c \in Client, UnsubscribeChannelHandler(c)
        PROVE  \A o \in Object : subscribed'[o] \subseteq subscribed[o]
    BY <2>3, ZenonT(60) DEF UnsubscribeChannelHandler, Types, Tables
  <2>4. ASSUME NEW g \in goroutines, CloseInFunction(g) \/ UnsubscribeAfterOnce(g)
        PROVE  \A o \in Object : subscribed'[o] \subseteq subscribed[o]
    BY <2>4, SMTT(60) DEF CloseInFunction, UnsubscribeAfterOnce, Types, Tables
  <2>5. CASE UNCHANGED subscribed
    BY <2>5, ZenonT(60) DEF Known
  <2>6. QED
    BY <2>1, <2>2, <2>3, <2>4, <2>5, Steps, ZenonT(60)
       DEF vars, CreateChannel, DestroyChannel, SendMessage, MakeHandler, Handle, Close, Fire,
           sendMessageToChannel, HandleReturns, FireReturns, SkipFunction, CallFunction, ReturnFromFunction,
           LookUpInFunction, ReplyInFunction, LookUpAfterOnce, NilSubscriptionId
<1>3. \A c \in Client : pc'[c].op \in Calls => pc'[c].h \in handled'
  <2>1. ASSUME NEW c \in Client, NEW p, pc' = [pc EXCEPT ![c] = p], p.op \in Calls => p.h \in handled'
        PROVE  \A d \in Client : pc'[d].op \in Calls => pc'[d].h \in handled'
    BY <1>1, <2>1, ZenonT(60) DEF Known, Types, PcOK
  <2>2. Idle.op \notin Calls
    BY ZenonT(60) DEF Idle, Calls
  <2>3. ASSUME NEW c \in Client,
               \/ sendMessageToChannel(c) \/ HandleReturns(c) \/ UnsubscribeChannelHandler(c) \/ FireReturns(c)
        PROVE  \A d \in Client : pc'[d].op \in Calls => pc'[d].h \in handled'
    BY <2>1, <2>2, <2>3, ZenonT(60) DEF sendMessageToChannel, HandleReturns, UnsubscribeChannelHandler, FireReturns
  <2>4. ASSUME NEW c \in Client, NEW t \in Traffic, SendMessage(c, t)
        PROVE  \A d \in Client : pc'[d].op \in Calls => pc'[d].h \in handled'
    BY <2>1, <2>4, ZenonT(60) DEF SendMessage, Calls
  <2>5. ASSUME NEW c \in Client, NEW h \in Handler, Handle(c, h)
        PROVE  \A d \in Client : pc'[d].op \in Calls => pc'[d].h \in handled'
    <3>1. h \in handled'
      BY <2>5, ZenonT(60) DEF Handle
    <3>2. CASE channels[On[h]] = 0
      BY <2>1, <2>2, <2>5, <3>2, ZenonT(60) DEF Handle
    <3>3. CASE channels[On[h]] # 0
      BY <2>1, <2>5, <3>1, <3>3, ZenonT(60) DEF Handle
    <3>4. QED
      BY <3>2, <3>3, ZenonT(60)
  <2>6. ASSUME NEW c \in Client, SubscribeChannelHandler(c)
        PROVE  \A d \in Client : pc'[d].op \in Calls => pc'[d].h \in handled'
    <3>1. pc[c].h \in handled'
      BY <1>1, <2>6, ZenonT(60) DEF SubscribeChannelHandler, Known, Calls
    <3>2. pc' = [pc EXCEPT ![c] = [pc[c] EXCEPT !.op = "assign"]]
      BY <2>6, ZenonT(60) DEF SubscribeChannelHandler
    <3>3. [pc[c] EXCEPT !.op = "assign"].h = pc[c].h
      BY SMTT(60)
    <3>4. QED
      BY <2>1, <3>1, <3>2, <3>3, ZenonT(60)
  <2>7. ASSUME NEW c \in Client, NEW h \in Handler, Close(c, h)
        PROVE  \A d \in Client : pc'[d].op \in Calls => pc'[d].h \in handled'
    <3>1. h \in handled'
      BY <1>1, <2>7, ZenonT(60) DEF Close, Types, Records
    <3>2. CASE channels[On[h]] = 0
      BY <1>1, <2>7, <3>2, ZenonT(60) DEF Close, Known
    <3>3. CASE channels[On[h]] # 0
      BY <2>1, <2>7, <3>1, <3>3, ZenonT(60) DEF Close
    <3>4. QED
      BY <3>2, <3>3, ZenonT(60)
  <2>8. ASSUME NEW c \in Client, NEW h \in Handler, Fire(c, h)
        PROVE  \A d \in Client : pc'[d].op \in Calls => pc'[d].h \in handled'
    BY <1>1, <2>1, <2>8, ZenonT(60) DEF Fire
  <2>9. ASSUME NEW g \in goroutines, NilSubscriptionId(g)
        PROVE  \A d \in Client : pc'[d].op \in Calls => pc'[d].h \in handled'
    BY <2>9, ZenonT(60) DEF NilSubscriptionId, Crashed, Calls
  <2>10. CASE UNCHANGED pc
    BY <1>1, <2>10, ZenonT(60) DEF Known
  <2>11. QED
    BY <2>3, <2>4, <2>5, <2>6, <2>7, <2>8, <2>9, <2>10, Steps, ZenonT(60)
       DEF vars, CreateChannel, DestroyChannel, MakeHandler, SkipFunction, CallFunction, ReturnFromFunction,
           LookUpInFunction, ReplyInFunction, CloseInFunction, LookUpAfterOnce, UnsubscribeAfterOnce
<1>4. \A k \in goroutines' : k.h \in handled'
  <2> TAKE k \in goroutines'
  <2>1. CASE \E o \in Object : k \in Started(o)
    <3>1. PICK o \in Object : k \in Started(o)
      BY <2>1, ZenonT(60)
    <3>2. k.h \in subscribed[o]
      BY <3>1, StartedFacts, ZenonT(60) DEF Types
    <3>3. QED
      BY <1>1, <3>2, ZenonT(60) DEF Known
  <2>2. QED
    BY <1>1, <2>1, Descent, ZenonT(60) DEF Known
<1>5. QED
  BY <1>1, <1>2, <1>3, <1>4, ZenonT(60) DEF Known

(* A goroutine beyond the call has called the user's function. *)
LEMMA RanKept ==
  ASSUME Types, Numbered, Ran, [Next]_vars
  PROVE  Ran'
<1>1. ASSUME NEW k \in goroutines'
      PROVE  /\ k.at # "call" => <<k.h, k.msg>> \in invoked'
             /\ k.at \in {"reply", "close"} => k.to # 0
  <2>1. CASE k \in goroutines
    BY <2>1, Growing, ZenonT(60) DEF Ran
  <2>2. CASE \E o \in Object : k \in Started(o)
    BY <2>2, StartedFacts, ZenonT(60) DEF Types
  <2>3. QED
    BY <1>1, <2>1, <2>2, Descent, ZenonT(60)
<1>2. QED
  BY <1>1, ZenonT(60) DEF Ran

-----------------------------------------------------------------------------
(* A client begins to subscribe or to wait with what Handle and Fire find. *)
LEMMA PcStep ==
  ASSUME Types, [Next]_vars, NEW c \in Client, pc'[c].op \in {"subscribe", "wait"}
  PROVE  \/ pc'[c] = pc[c]
         \/ \E h \in Handler :
              /\ Handle(c, h) /\ channels[On[h]] # 0
              /\ pc'[c] = [op |-> "subscribe", obj |-> channels[On[h]], h |-> h]
         \/ \E h \in Handler : Fire(c, h) /\ pc'[c] = [op |-> "wait", obj |-> madeOn[h], h |-> h]
<1>1. DOMAIN pc = Client
  BY ZenonT(60) DEF Types, PcOK
<1>2. ASSUME NEW d \in Client, NEW p, pc' = [pc EXCEPT ![d] = p]
      PROVE  pc'[c] = IF c = d THEN p ELSE pc[c]
  BY <1>1, <1>2, ZenonT(60)
<1>3. ASSUME NEW d \in Client,
             \/ sendMessageToChannel(d) \/ HandleReturns(d) \/ UnsubscribeChannelHandler(d) \/ FireReturns(d)
      PROVE  pc'[c] = pc[c]
  <2>1. pc' = [pc EXCEPT ![d] = Idle] /\ Idle.op = "idle"
    BY <1>3, ZenonT(60) DEF sendMessageToChannel, HandleReturns, UnsubscribeChannelHandler, FireReturns, Idle
  <2>2. pc'[c] = IF c = d THEN Idle ELSE pc[c]
    BY <1>2, <2>1, ZenonT(60)
  <2>3. QED
    BY <2>1, <2>2, ZenonT(60)
<1>4. ASSUME NEW d \in Client, NEW t \in Traffic, SendMessage(d, t)
      PROVE  pc'[c] = pc[c]
  BY <1>2, <1>4, SMTT(60) DEF SendMessage
<1>5. ASSUME NEW d \in Client, NEW h \in Handler, Handle(d, h)
      PROVE  \/ pc'[c] = pc[c]
             \/ /\ Handle(c, h) /\ channels[On[h]] # 0
                /\ pc'[c] = [op |-> "subscribe", obj |-> channels[On[h]], h |-> h]
  <2>1. CASE channels[On[h]] = 0
    BY <1>2, <1>5, <2>1, ZenonT(60) DEF Handle, Idle
  <2>2. CASE channels[On[h]] # 0
    <3>1. pc' = [pc EXCEPT ![d] = [op |-> "subscribe", obj |-> channels[On[h]], h |-> h]]
      BY <1>5, <2>2, ZenonT(60) DEF Handle
    <3>2. QED
      BY <1>2, <1>5, <2>2, <3>1, ZenonT(60)
  <2>3. QED
    BY <2>1, <2>2, ZenonT(60)
<1>6. ASSUME NEW d \in Client, SubscribeChannelHandler(d)
      PROVE  pc'[c] = pc[c]
  <2>1. pc[d].op = "subscribe" /\ pc' = [pc EXCEPT ![d] = [pc[d] EXCEPT !.op = "assign"]]
    BY <1>6, ZenonT(60) DEF SubscribeChannelHandler
  <2>2. [pc[d] EXCEPT !.op = "assign"].op = "assign"
    BY <2>1, SMTT(60) DEF Types, PcOK, PcType, Idle, Crashed
  <2>3. QED
    BY <1>2, <2>1, <2>2, ZenonT(60)
<1>7. ASSUME NEW d \in Client, NEW h \in Handler, Close(d, h)
      PROVE  pc'[c] = pc[c]
  <2>1. CASE channels[On[h]] = 0
    BY <1>7, <2>1, ZenonT(60) DEF Close
  <2>2. CASE channels[On[h]] # 0
    <3>1. pc' = [pc EXCEPT ![d] = [op |-> "close", obj |-> channels[On[h]], h |-> h]]
      BY <1>7, <2>2, ZenonT(60) DEF Close
    <3>2. QED
      BY <1>2, <3>1, SMTT(60)
  <2>3. QED
    BY <2>1, <2>2, ZenonT(60)
<1>8. ASSUME NEW d \in Client, NEW h \in Handler, Fire(d, h)
      PROVE  \/ pc'[c] = pc[c]
             \/ Fire(c, h) /\ pc'[c] = [op |-> "wait", obj |-> madeOn[h], h |-> h]
  <2>1. pc' = [pc EXCEPT ![d] = [op |-> "wait", obj |-> madeOn[h], h |-> h]]
    BY <1>8, ZenonT(60) DEF Fire
  <2>2. QED
    BY <1>2, <1>8, <2>1, ZenonT(60)
<1>9. ASSUME NEW g \in goroutines, NilSubscriptionId(g)
      PROVE  FALSE
  BY <1>9, ZenonT(60) DEF NilSubscriptionId, Crashed
<1>10. QED
  BY <1>3, <1>4, <1>5, <1>6, <1>7, <1>8, <1>9, Steps, ZenonT(60)
     DEF vars, CreateChannel, DestroyChannel, MakeHandler, SkipFunction, CallFunction, ReturnFromFunction,
         LookUpInFunction, ReplyInFunction, CloseInFunction, LookUpAfterOnce, UnsubscribeAfterOnce

(* How a handler gets into a channel object and out of it. *)
LEMMA SubscribedStep ==
  ASSUME Types, Ran, [Next]_vars, NEW o \in Object, NEW h \in Handler
  PROVE  /\ h \in subscribed'[o] => \/ h \in subscribed[o]
                                   \/ /\ UNCHANGED <<channels, created>>
                                      /\ \E c \in Client : pc[c].op = "subscribe" /\ pc[c].obj = o /\ pc[c].h = h
         /\ h \in subscribed[o] => \/ h \in subscribed'[o] \/ h \in closed'
                                  \/ \E i : <<h, i>> \in invoked'
<1> subscribed \in [Object -> SUBSET Handler]
  BY ZenonT(60) DEF Types, Tables
<1>1. CASE UNCHANGED subscribed
  BY <1>1, ZenonT(60)
<1>2. ASSUME NEW c \in Client, SubscribeChannelHandler(c)
      PROVE  /\ h \in subscribed[o] => h \in subscribed'[o]
             /\ h \in subscribed'[o] => \/ h \in subscribed[o]
                                       \/ /\ UNCHANGED <<channels, created>>
                                          /\ pc[c].op = "subscribe" /\ pc[c].obj = o /\ pc[c].h = h
  BY <1>2, ZenonT(60) DEF SubscribeChannelHandler
<1>3. ASSUME NEW c \in Client, UnsubscribeChannelHandler(c)
      PROVE  /\ h \in subscribed'[o] => h \in subscribed[o]
             /\ h \in subscribed[o] => h \in subscribed'[o] \/ h \in closed'
  BY <1>3, ZenonT(60) DEF UnsubscribeChannelHandler
<1>4. ASSUME NEW g \in goroutines, CloseInFunction(g)
      PROVE  /\ h \in subscribed'[o] => h \in subscribed[o]
             /\ h \in subscribed[o] => h \in subscribed'[o] \/ h \in closed'
  BY <1>4, ZenonT(60) DEF CloseInFunction
<1>5. ASSUME NEW g \in goroutines, UnsubscribeAfterOnce(g)
      PROVE  /\ h \in subscribed'[o] => h \in subscribed[o]
             /\ h \in subscribed[o] => h \in subscribed'[o] \/ \E i : <<h, i>> \in invoked'
  BY <1>5, ZenonT(60) DEF UnsubscribeAfterOnce, history, Ran
<1>6. QED
  BY <1>1, <1>2, <1>3, <1>4, <1>5, Steps, ZenonT(60)
     DEF vars, CreateChannel, DestroyChannel, SendMessage, MakeHandler, Handle, Close, Fire,
         sendMessageToChannel, HandleReturns, FireReturns, SkipFunction, CallFunction, ReturnFromFunction,
         LookUpInFunction, ReplyInFunction, LookUpAfterOnce, NilSubscriptionId

(* A name keeps its object, loses it, or gets a new one. *)
LEMMA NameStep ==
  ASSUME Types, [Next]_vars
  PROVE  /\ created \in Nat /\ created' \in Nat /\ created <= created'
         /\ \/ UNCHANGED <<channels, created>>
            \/ /\ UNCHANGED <<created, subscribed, madeOn, pc, handled>>
               /\ \A n \in Name : channels'[n] \in {channels[n], 0}
            \/ /\ created' = created + 1
               /\ UNCHANGED <<subscribed, madeOn, pc, handled>>
               /\ \E n \in Name : channels' = [channels EXCEPT ![n] = created + 1]
<1>1. created \in Nat /\ channels \in [Name -> 0 .. MaxObject]
  BY EventBusAssumption, SMTT(60) DEF Types, Tables
<1>2. ASSUME NEW c \in Client, NEW n \in Name, CreateChannel(c, n)
      PROVE  /\ created' = created + 1 /\ UNCHANGED <<subscribed, madeOn, pc, handled>>
             /\ channels' = [channels EXCEPT ![n] = created + 1]
  BY <1>2, ZenonT(60) DEF CreateChannel, history
<1>3. ASSUME NEW c \in Client, NEW n \in Name, DestroyChannel(c, n)
      PROVE  /\ UNCHANGED <<created, subscribed, madeOn, pc, handled>>
             /\ \A m \in Name : channels'[m] \in {channels[m], 0}
  BY <1>1, <1>3, ZenonT(60) DEF DestroyChannel, history
<1>4. \/ UNCHANGED <<channels, created>>
      \/ \E c \in Client, n \in Name : CreateChannel(c, n) \/ DestroyChannel(c, n)
  BY Steps, ZenonT(60)
     DEF vars, SendMessage, MakeHandler, Handle, Close, Fire,
         sendMessageToChannel, SubscribeChannelHandler, HandleReturns, UnsubscribeChannelHandler, FireReturns,
         SkipFunction, CallFunction, ReturnFromFunction, LookUpInFunction, ReplyInFunction, CloseInFunction,
         LookUpAfterOnce, UnsubscribeAfterOnce, NilSubscriptionId
<1>5. QED
  BY <1>1, <1>2, <1>3, <1>4, SMTT(60)

(* Who made a handler, and when. *)
LEMMA MadeStep ==
  ASSUME Types, Numbered, [Next]_vars, NEW h \in Handler
  PROVE  /\ madeOn[h] # 0 => madeOn'[h] = madeOn[h]
         /\ (madeOn'[h] # madeOn[h] => madeOn'[h] = channels[On[h]] /\ UNCHANGED <<created, handled>>)
         /\ (madeOn'[h] # madeOn[h] /\ Mode[h].needsId => Dest[h] # NoId)
         /\ h \in handled' => madeOn'[h] # 0
<1>1. madeOn \in [Handler -> 0 .. MaxObject] /\ (h \in handled => madeOn[h] # 0)
  BY ZenonT(60) DEF Types, Tables, Numbered
<1>2. ASSUME NEW c \in Client, NEW k \in Handler, MakeHandler(c, k)
      PROVE  /\ madeOn[h] # 0 => madeOn'[h] = madeOn[h]
             /\ (madeOn'[h] # madeOn[h] => madeOn'[h] = channels[On[h]] /\ UNCHANGED <<created, handled>>)
             /\ (madeOn'[h] # madeOn[h] /\ Mode[h].needsId => Dest[h] # NoId)
             /\ UNCHANGED handled
  BY <1>1, <1>2, ZenonT(60) DEF MakeHandler, history
<1>3. ASSUME NEW c \in Client, NEW k \in Handler, Handle(c, k)
      PROVE  UNCHANGED madeOn /\ (h \in handled' => madeOn'[h] # 0)
  BY <1>1, <1>3, ZenonT(60) DEF Handle
<1>4. \/ UNCHANGED <<madeOn, handled>>
      \/ \E c \in Client, k \in Handler : MakeHandler(c, k) \/ Handle(c, k)
  BY Steps, ZenonT(60)
     DEF vars, history, CreateChannel, DestroyChannel, SendMessage, Close, Fire,
         sendMessageToChannel, SubscribeChannelHandler, HandleReturns, UnsubscribeChannelHandler, FireReturns,
         SkipFunction, CallFunction, ReturnFromFunction, LookUpInFunction, ReplyInFunction, CloseInFunction,
         LookUpAfterOnce, UnsubscribeAfterOnce, NilSubscriptionId
<1>5. QED
  BY <1>1, <1>2, <1>3, <1>4, SMTT(60)

(* Every step keeps objects numbered in the order of their creation. *)
LEMMA NumberedKept ==
  ASSUME Types, Ran, Numbered, [Next]_vars
  PROVE  Numbered'
<1> USE EventBusAssumption
<1>1. channels \in [Name -> 0 .. MaxObject] /\ created \in Nat /\ created' \in Nat /\ created <= created'
  BY NameStep, ZenonT(60) DEF Types, Tables
<1>2. \A n \in Name : channels[n] \in Nat /\ channels[n] <= created
  BY <1>1, SMTT(60) DEF Numbered
<1>3. \A n \in Name : channels'[n] <= created'
  <2>1. CASE UNCHANGED <<channels, created>>
    BY <1>2, <2>1, ZenonT(60)
  <2>2. CASE UNCHANGED created /\ \A n \in Name : channels'[n] \in {channels[n], 0}
    BY <1>1, <1>2, <2>2, SMTT(60)
  <2>3. CASE created' = created + 1 /\ \E n \in Name : channels' = [channels EXCEPT ![n] = created + 1]
    BY <1>1, <1>2, <2>3, SMTT(60)
  <2>4. QED
    BY <2>1, <2>2, <2>3, NameStep, ZenonT(60)
<1>4. \A h \in Handler : madeOn'[h] <= created' /\ (madeOn'[h] # 0 /\ Mode[h].needsId => Dest[h] # NoId)
  <2> TAKE h \in Handler
  <2>1. On[h] \in Name /\ madeOn[h] \in Nat /\ madeOn[h] <= created
    BY SMTT(60) DEF Numbered, Types, Tables
  <2>2. CASE madeOn'[h] = madeOn[h]
    BY <1>1, <2>1, <2>2, SMTT(60) DEF Numbered
  <2>3. CASE madeOn'[h] # madeOn[h]
    BY <1>1, <1>2, <2>1, <2>3, MadeStep, ZenonT(60)
  <2>4. QED
    BY <2>2, <2>3, ZenonT(60)
<1>5. \A h \in handled' : madeOn'[h] # 0
  BY MadeStep, TablesKept, ZenonT(60) DEF Tables
<1>6. \A o \in Object : o > created' => subscribed'[o] = {}
  <2> SUFFICES ASSUME NEW o \in Object, o > created' PROVE \A h \in Handler : h \notin subscribed'[o]
    BY TablesKept, ZenonT(60) DEF Tables
  <2> TAKE h \in Handler
  <2>1. o \in Nat /\ o > created
    BY <1>1, SMTT(60) DEF Object
  <2>2. h \notin subscribed[o] /\ \A c \in Client : ~(pc[c].op = "subscribe" /\ pc[c].obj = o)
    BY <1>1, <2>1, SMTT(60) DEF Numbered
  <2>3. QED
    BY <2>2, SubscribedStep, ZenonT(60)
<1>7. \A c \in Client : pc'[c].op = "subscribe" => pc'[c].obj <= created'
  <2> SUFFICES ASSUME NEW c \in Client, pc'[c].op = "subscribe" PROVE pc'[c].obj <= created'
    BY ZenonT(60)
  <2>1. CASE pc'[c] = pc[c]
    <3>1. pc[c].obj \in Object /\ pc[c].obj <= created
      BY <2>1, PcFacts, ZenonT(60) DEF Numbered, Calls, Types
    <3>2. QED
      BY <1>1, <2>1, <3>1, SMTT(60) DEF Object
  <2>2. ASSUME NEW h \in Handler, pc'[c] = [op |-> "subscribe", obj |-> channels[On[h]], h |-> h]
        PROVE  pc'[c].obj <= created'
    BY <1>1, <1>2, <2>2, SMTT(60)
  <2>3. ASSUME NEW h \in Handler, pc'[c] = [op |-> "wait", obj |-> madeOn[h], h |-> h]
        PROVE  FALSE
    BY <2>3, SMTT(60)
  <2>4. QED
    BY <2>1, <2>2, <2>3, PcStep, ZenonT(60)
<1>8. QED
  BY <1>3, <1>4, <1>5, <1>6, <1>7, ZenonT(60) DEF Numbered

(* Every step keeps the handlers of an object to those made for its name. *)
LEMMA NamedKept ==
  ASSUME Types, Ran, Numbered, Named, [Next]_vars
  PROVE  Named'
<1> USE EventBusAssumption
<1> SUFFICES ASSUME NEW n \in Name, channels'[n] # 0
             PROVE  /\ \A m \in Name : channels'[m] = channels'[n] => m = n
                    /\ \A h \in subscribed'[channels'[n]] : On[h] = n
                    /\ \A c \in Client : pc'[c].op = "subscribe" /\ pc'[c].obj = channels'[n] => On[pc'[c].h] = n
  BY ZenonT(60) DEF Named
<1>1. /\ channels \in [Name -> 0 .. MaxObject] /\ created \in Nat
      /\ \A m \in Name : channels[m] \in Nat /\ channels[m] <= created
  BY NameStep, SMTT(60) DEF Types, Tables, Numbered
<1>2. channels'[n] \in Object /\ subscribed' \in [Object -> SUBSET Handler]
  BY TablesKept, SMTT(60) DEF Tables, Object
<1>3. CASE channels'[n] = created + 1
  <2>1. /\ UNCHANGED <<subscribed, pc>>
        /\ \E m \in Name : channels' = [channels EXCEPT ![m] = created + 1]
    BY <1>1, <1>3, NameStep, SMTT(60)
  <2>2. \A m \in Name : channels'[m] = channels'[n] => m = n
    BY <1>1, <1>3, <2>1, SMTT(60)
  <2>3. subscribed[created + 1] = {}
    BY <1>1, <1>2, <1>3, SMTT(60) DEF Numbered
  <2>4. \A c \in Client : pc[c].op = "subscribe" => pc[c].obj # created + 1
    BY <1>1, PcFacts, SMTT(60) DEF Numbered, Object, Types, Calls
  <2>5. QED
    BY <1>3, <2>1, <2>2, <2>3, <2>4, ZenonT(60)
<1>4. CASE channels'[n] # created + 1
  <2>1. channels'[n] = channels[n]
    BY <1>1, <1>4, NameStep, ZenonT(60)
  <2>2. \A m \in Name : channels'[m] = channels'[n] => channels[m] = channels[n]
    BY <1>1, <1>4, <2>1, NameStep, ZenonT(60)
  <2>3. \A m \in Name : channels'[m] = channels'[n] => m = n
    BY <2>1, <2>2, ZenonT(60) DEF Named
  <2>4. \A h \in subscribed'[channels'[n]] : On[h] = n
    <3> TAKE h \in subscribed'[channels'[n]]
    <3>1. h \in Handler
      BY <1>2, ZenonT(60)
    <3>2. \/ h \in subscribed[channels[n]]
          \/ \E c \in Client : pc[c].op = "subscribe" /\ pc[c].obj = channels[n] /\ pc[c].h = h
      BY <1>2, <2>1, <3>1, SubscribedStep, ZenonT(60)
    <3>3. QED
      BY <2>1, <3>2, SMTT(60) DEF Named
  <2>5. ASSUME NEW c \in Client, pc'[c].op = "subscribe", pc'[c].obj = channels'[n]
        PROVE  On[pc'[c].h] = n
    <3>1. CASE pc'[c] = pc[c]
      <4>1. pc[c].op = "subscribe" /\ pc[c].obj = channels[n]
        BY <2>1, <2>5, <3>1, ZenonT(60)
      <4>2. channels[n] # 0 => On[pc[c].h] = n
        BY <4>1, ZenonT(60) DEF Named
      <4>3. QED
        BY <2>1, <3>1, <4>2, ZenonT(60)
    <3>2. ASSUME NEW h \in Handler, pc'[c] = [op |-> "subscribe", obj |-> channels[On[h]], h |-> h]
          PROVE  On[pc'[c].h] = n
      <4>1. On[h] \in Name /\ channels[On[h]] = channels[n] /\ channels[n] # 0 /\ pc'[c].h = h
        BY <2>1, <2>5, <3>2, SMTT(60)
      <4>2. QED
        BY <4>1, ZenonT(60) DEF Named
    <3>3. ASSUME NEW h \in Handler, pc'[c] = [op |-> "wait", obj |-> madeOn[h], h |-> h]
          PROVE  FALSE
      BY <2>5, <3>3, SMTT(60)
    <3>4. QED
      BY <2>5, <3>1, <3>2, <3>3, PcStep, ZenonT(60)
  <2>6. QED
    BY <2>3, <2>4, <2>5, ZenonT(60)
<1>5. QED
  BY <1>3, <1>4, ZenonT(60)

(* Fire keeps waiting for the object its handler was made with. *)
LEMMA WaitingKept ==
  ASSUME Types, Known, Numbered, Waiting, [Next]_vars
  PROVE  Waiting'
<1> SUFFICES ASSUME NEW c \in Client, pc'[c].op = "wait"
             PROVE  pc'[c].obj = madeOn'[pc'[c].h]
  BY ZenonT(60) DEF Waiting
<1>1. CASE pc'[c] = pc[c]
  <2>1. pc[c].h \in handled /\ pc[c].h \in Handler /\ pc[c].obj = madeOn[pc[c].h]
    BY <1>1, PcFacts, ZenonT(60) DEF Known, Calls, Waiting, Types
  <2>2. madeOn'[pc[c].h] = madeOn[pc[c].h]
    BY <2>1, MadeStep, ZenonT(60) DEF Numbered
  <2>3. QED
    BY <1>1, <2>1, <2>2, ZenonT(60)
<1>2. ASSUME NEW h \in Handler, Fire(c, h), pc'[c] = [op |-> "wait", obj |-> madeOn[h], h |-> h]
      PROVE  pc'[c].obj = madeOn'[pc'[c].h]
  BY <1>2, SMTT(60) DEF Fire
<1>3. ASSUME NEW h \in Handler, pc'[c] = [op |-> "subscribe", obj |-> channels[On[h]], h |-> h]
      PROVE  FALSE
  BY <1>3, SMTT(60)
<1>4. QED
  BY <1>1, <1>2, <1>3, PcStep, ZenonT(60)

-----------------------------------------------------------------------------
(* What ran a handler: the definition ranges over the messages there are, and nothing else was recorded. *)
LEMMA InvokedFacts ==
  ASSUME Deliveries, Records, NEW h \in Handler
  PROVE  InvokedBy(h) = {i \in Nat : <<h, i>> \in invoked}
<1>1. DOMAIN messages = 1 .. Len(messages) /\ Len(messages) \in Nat
  BY SMTT(60) DEF Deliveries
<1>2. \A i : <<h, i>> \in invoked => i \in 1 .. Len(messages)
  BY ZenonT(60) DEF Records
<1>3. QED
  BY <1>1, <1>2, SMTT(60) DEF InvokedBy

(* The same in the next state. *)
LEMMA InvokedNext ==
  ASSUME Deliveries', Records', NEW h \in Handler
  PROVE  InvokedBy(h)' = {i \in Nat : <<h, i>> \in invoked'}
<1>1. DOMAIN messages' = 1 .. Len(messages') /\ Len(messages') \in Nat
  BY SMTT(60) DEF Deliveries
<1>2. \A i : <<h, i>> \in invoked' => i \in 1 .. Len(messages')
  BY ZenonT(60) DEF Records
<1>3. QED
  BY <1>1, <1>2, SMTT(60) DEF InvokedBy

(* Every step keeps the Onces: the user's function of a once handler is called while the Once is unused. *)
LEMMA OncesKept ==
  ASSUME Types, Known, Numbered, Ran, Onces, [Next]_vars
  PROVE  Onces'
<1> SUFFICES ASSUME NEW h \in Handler, Mode[h].runOnce
             PROVE  /\ invokeOnce'[h] = "unused" <=> InvokedBy(h)' = {}
                    /\ \A i, j \in InvokedBy(h)' : i = j
  BY ZenonT(60) DEF Onces
<1>1. InvokedBy(h) = {i \in Nat : <<h, i>> \in invoked}
  BY InvokedFacts, ZenonT(60) DEF Types
<1>2. InvokedBy(h)' = {i \in Nat : <<h, i>> \in invoked'}
  BY DeliveriesKept, RecordsKept, InvokedNext, ZenonT(60) DEF Types
<1>3. /\ invokeOnce[h] = "unused" <=> InvokedBy(h) = {}
      /\ \A i, j \in InvokedBy(h) : i = j
  BY ZenonT(60) DEF Onces
<1>4. invokeOnce \in [Handler -> {"unused", "running", "done"}]
  BY ZenonT(60) DEF Types, Tables
<1>5. CASE UNCHANGED <<invokeOnce, invoked>>
  BY <1>1, <1>2, <1>3, <1>5, ZenonT(60)
<1>6. ASSUME NEW g \in goroutines, CallFunction(g)
      PROVE  /\ invokeOnce'[h] = "unused" <=> InvokedBy(h)' = {}
             /\ \A i, j \in InvokedBy(h)' : i = j
  <2>1. g.h \in Handler /\ g.msg \in Nat
    BY DeliveryFacts, SMTT(60) DEF Types
  <2>2. CASE g.h = h
    <3>1. InvokedBy(h) = {} /\ invokeOnce'[h] = "running" /\ invoked' = invoked \cup {<<h, g.msg>>}
      BY <1>3, <1>4, <1>6, <2>1, <2>2, ZenonT(60) DEF CallFunction
    <3>2. \A i \in Nat : <<h, i>> \notin invoked
      BY <1>1, <3>1, ZenonT(60)
    <3>3. InvokedBy(h)' = {g.msg}
      BY <1>2, <2>1, <3>1, <3>2, ZenonT(60)
    <3>4. QED
      BY <3>1, <3>3, ZenonT(60)
  <2>3. CASE g.h # h
    <3>1. invokeOnce'[h] = invokeOnce[h] /\ \A i : <<h, i>> \in invoked' <=> <<h, i>> \in invoked
      BY <1>4, <1>6, <2>1, <2>3, ZenonT(60) DEF CallFunction
    <3>2. InvokedBy(h)' = InvokedBy(h)
      BY <1>1, <1>2, <3>1, ZenonT(60)
    <3>3. QED
      BY <1>3, <3>1, <3>2, ZenonT(60)
  <2>4. QED
    BY <2>2, <2>3, ZenonT(60)
<1>7. ASSUME NEW g \in goroutines, LookUpAfterOnce(g) \/ UnsubscribeAfterOnce(g)
      PROVE  /\ invokeOnce'[h] = "unused" <=> InvokedBy(h)' = {}
             /\ \A i, j \in InvokedBy(h)' : i = j
  <2>1. g.h \in Handler /\ g.msg \in Nat /\ <<g.h, g.msg>> \in invoked /\ UNCHANGED invoked
    BY <1>7, DeliveryFacts, SMTT(60) DEF Types, LookUpAfterOnce, UnsubscribeAfterOnce, history, Ran
  <2>2. InvokedBy(h)' = InvokedBy(h)
    BY <1>1, <1>2, <2>1, ZenonT(60)
  <2>3. \/ invokeOnce'[h] = invokeOnce[h]
        \/ g.h = h /\ invokeOnce'[h] = "done"
    BY <1>4, <1>7, ZenonT(60) DEF LookUpAfterOnce, UnsubscribeAfterOnce
  <2>4. g.h = h => InvokedBy(h) # {}
    BY <1>1, <2>1, ZenonT(60)
  <2>5. QED
    BY <1>3, <2>2, <2>3, <2>4, ZenonT(60)
<1>8. QED
  BY <1>5, <1>6, <1>7, Steps, ZenonT(60)
     DEF vars, history, CreateChannel, DestroyChannel, SendMessage, MakeHandler, Handle, Close, Fire,
         sendMessageToChannel, SubscribeChannelHandler, HandleReturns, UnsubscribeChannelHandler, FireReturns,
         SkipFunction, ReturnFromFunction, LookUpInFunction, ReplyInFunction, CloseInFunction, NilSubscriptionId

(* Whoever made a request wants the response to it. *)
LEMMA ResponseWanted ==
  ASSUME NEW h \in Handler, Mode[h].request, Mode[h].needsId => Dest[h] # NoId
  PROVE  Wanted(h, "response", Dest[h])
<1>1. Mode[h] \in Modes
  BY EventBusAssumption, ZenonT(60)
<1>2. Mode[h].direction = "response" /\ (Mode[h].ignoreId \/ Mode[h].needsId)
  BY <1>1, SMTT(60) DEF Modes, Wrap, ListenStream, ListenStreamForDestination, ListenRequestStream,
              ListenRequestStreamForDestination, ListenRequestOnce, ListenRequestOnceForDestination, ListenFirehose,
              ListenOnce, ListenOnceForDestination, RequestOnce, RequestOnceForDestination, RequestStream,
              RequestStreamForDestination
<1>3. QED
  BY <1>2, ZenonT(60) DEF Wanted

\* What is kept of the state besides Owing.
Base == Types /\ Known /\ Onces /\ Ran /\ Numbered /\ Named /\ Waiting

(* Fire starts the delivery of its request to the repliers on the object. *)
LEMMA FireOwes ==
  ASSUME Base, NEW c \in Client, NEW h \in Handler, Fire(c, h), h \in owed' \ owed,
         channels[On[h]] = madeOn[h]
  PROVE  /\ fired'[h] = "waiting" /\ h \in subscribed'[madeOn'[h]]
         /\ \E g \in goroutines' : Carries(g, h)'
<1>1. madeOn[h] \in Object /\ madeOn[h] # 0 /\ On[h] \in Name
  <2>1. h \in handled
    BY ZenonT(60) DEF Fire
  <2>2. madeOn[h] # 0
    BY <2>1, ZenonT(60) DEF Base, Numbered
  <2>3. madeOn[h] \in 0 .. MaxObject /\ On[h] \in Name
    BY EventBusAssumption, ZenonT(60) DEF Base, Types, Tables
  <2>4. QED
    BY <2>2, <2>3, EventBusAssumption, SMTT(60) DEF Object
<1>2. h \in subscribed[madeOn[h]] /\ \E r \in subscribed[madeOn[h]] : Replies(r, h)
  BY ZenonT(60) DEF Fire
<1>3. PICK r \in subscribed[madeOn[h]] : Replies(r, h)
  BY <1>2, ZenonT(60)
<1>4. On[r] = On[h]
  BY <1>1, <1>3, ZenonT(60) DEF Base, Named
<1>5. PICK g \in Started(madeOn[h]) :
        g.h = r /\ g.at = "call" /\ g.msg = Len(messages) + 1 /\ g.obj = madeOn[h]
  BY <1>1, <1>3, StartedFacts, ZenonT(60) DEF Base, Types
<1>6. Msg("request", Dest[h], closed, FALSE) \in Message
  BY EventBusAssumption, ZenonT(60) DEF Msg, Message, Direction, Base, Types, Records, Tables
<1>7. messages'[Len(messages) + 1] = Msg("request", Dest[h], closed, FALSE)
  BY <1>6, SentFacts, ZenonT(60) DEF Fire, Base, Types
<1>8. messages'[g.msg].dir = "request" /\ messages'[g.msg].dest = Dest[h]
  BY <1>5, <1>7, SMTT(60) DEF Msg
<1>9. g \in goroutines' /\ UNCHANGED <<madeOn, subscribed>>
  BY <1>5, ZenonT(60) DEF Fire
<1>10. Carries(g, h)'
  BY <1>3, <1>4, <1>5, <1>8, <1>9, ZenonT(60) DEF Carries, Replies, Wanted
<1>11. fired'[h] = "waiting"
  BY ZenonT(60) DEF Fire, Base, Types, Tables
<1>12. QED
  BY <1>2, <1>9, <1>10, <1>11, ZenonT(60)

(* A delivery that nobody takes up goes on carrying what it carries. *)
LEMMA CarriesStays ==
  ASSUME Types, NEW h \in Handler, NEW g \in goroutines, Carries(g, h),
         madeOn'[h] = madeOn[h], messages'[g.msg] = messages[g.msg], g \in goroutines'
  PROVE  \E k \in goroutines' : Carries(k, h)'
<1>1. Carries(g, h)'
  BY ZenonT(60) DEF Carries, Replies, Wanted
<1>2. QED
  BY <1>1, ZenonT(60)

(* Who carries a request or its response passes it on, until the response is handed over. *)
LEMMA CarriedOn ==
  ASSUME Base, NEW h \in Handler, NEW g \in goroutines, Carries(g, h),
         h \in handled, Mode[h].request, h \in subscribed[madeOn[h]], channels[On[h]] = madeOn[h],
         InvokedBy(h) = {}, \A i \in Nat : <<h, i>> \notin invoked',
         Goroutine(g), [Next]_vars
  PROVE  \E k \in goroutines' : Carries(k, h)'
<1>1. /\ g \in Delivery(Len(messages)) /\ g.h \in Handler /\ g.msg \in 1 .. Len(messages)
      /\ messages[g.msg] \in Message /\ Len(messages) \in Nat
  BY DeliveryFacts, ZenonT(60) DEF Base, Types
<1>2. madeOn[h] # 0 /\ (Mode[h].needsId => Dest[h] # NoId)
  BY ZenonT(60) DEF Base, Numbered
<1>3. madeOn'[h] = madeOn[h] /\ messages'[g.msg] = messages[g.msg]
  BY <1>1, <1>2, MadeStep, Growing, ZenonT(60) DEF Base
<1>4. Wanted(h, "response", Dest[h])
  BY <1>2, ResponseWanted, ZenonT(60)
<1>5. ~(Mode[h].runOnce /\ invokeOnce[h] = "done")
  BY ZenonT(60) DEF Base, Onces
<1>6. ASSUME SkipFunction(g)
      PROVE  FALSE
  <2>1. CASE g.h = h /\ messages[g.msg].dir = "response"
    BY <1>4, <1>5, <1>6, <2>1, ZenonT(60) DEF SkipFunction, Carries
  <2>2. CASE messages[g.msg].dir = "request" /\ Replies(g.h, h)
    BY <1>6, <2>2, ZenonT(60) DEF SkipFunction, Carries, Replies
  <2>3. QED
    BY <2>1, <2>2, ZenonT(60) DEF Carries
<1>7. ASSUME CallFunction(g)
      PROVE  \E k \in goroutines' : Carries(k, h)'
  <2>1. g.h # h
    <3>1. <<g.h, g.msg>> \in invoked'
      BY <1>7, ZenonT(60) DEF CallFunction
    <3>2. g.msg \in Nat
      BY <1>1, SMTT(60)
    <3>3. QED
      BY <3>1, <3>2, ZenonT(60)
  <2>2. PICK k \in goroutines' : k = [g EXCEPT !.at = "function"]
    BY <1>7, ZenonT(60) DEF CallFunction
  <2>3. k.h = g.h /\ k.msg = g.msg /\ k.obj = g.obj /\ k.at = "function"
    BY <1>1, <2>2, ZenonT(60) DEF Delivery
  <2>4. Carries(k, h)'
    BY <1>3, <2>1, <2>3, ZenonT(60) DEF Carries, Replies, Wanted
  <2>5. QED
    BY <2>4, ZenonT(60)
<1>8. ASSUME g.at \in {"function", "reply"}
      PROVE  /\ messages[g.msg].dir = "request" /\ Replies(g.h, h) /\ On[g.h] = On[h] /\ Does[g.h] = "reply"
             /\ channels[On[g.h]] = madeOn[h]
             /\ g.at = "reply" => g.to = madeOn[h]
  BY <1>8, ZenonT(60) DEF Carries, Replies
<1>9. ASSUME ReturnFromFunction(g)
      PROVE  FALSE
  BY <1>2, <1>8, <1>9, ZenonT(60) DEF ReturnFromFunction
<1>10. ASSUME LookUpInFunction(g)
      PROVE  \E k \in goroutines' : Carries(k, h)'
  <2>1. /\ messages[g.msg].dir = "request" /\ Replies(g.h, h) /\ On[g.h] = On[h] /\ Does[g.h] = "reply"
        /\ channels[On[g.h]] = madeOn[h]
    BY <1>8, <1>10, ZenonT(60) DEF LookUpInFunction
  <2>2. PICK k \in goroutines' : k = [g EXCEPT !.at = "reply", !.to = madeOn[h]]
    BY <1>10, <2>1, ZenonT(60) DEF LookUpInFunction
  <2>3. k.h = g.h /\ k.msg = g.msg /\ k.obj = g.obj /\ k.at = "reply" /\ k.to = madeOn[h]
    BY <1>1, <2>2, ZenonT(60) DEF Delivery
  <2>4. Carries(k, h)'
    BY <1>3, <2>1, <2>3, ZenonT(60) DEF Carries, Replies, Wanted
  <2>5. QED
    BY <2>4, ZenonT(60)
<1>11. ASSUME ReplyInFunction(g)
      PROVE  \E k \in goroutines' : Carries(k, h)'
  <2>1. g.to = madeOn[h] /\ messages[g.msg].dest = Dest[h]
    BY <1>8, <1>11, ZenonT(60) DEF ReplyInFunction, Carries
  <2>2. madeOn[h] \in Object
    BY <1>2, EventBusAssumption, SMTT(60) DEF Base, Types, Tables, Object
  <2>3. PICK k \in Started(madeOn[h]) :
          k.h = h /\ k.at = "call" /\ k.msg = Len(messages) + 1 /\ k.obj = madeOn[h]
    BY <2>2, StartedFacts, ZenonT(60) DEF Base, Types
  <2>4. Msg("response", Dest[h], closed, FALSE) \in Message
    BY EventBusAssumption, ZenonT(60) DEF Msg, Message, Direction, Base, Types, Records, Tables
  <2>5. messages'[Len(messages) + 1] = Msg("response", Dest[h], closed, FALSE)
    BY <1>11, <2>1, <2>4, SentFacts, ZenonT(60) DEF ReplyInFunction, Base, Types
  <2>6. messages'[k.msg].dir = "response" /\ messages'[k.msg].dest = Dest[h]
    BY <2>3, <2>5, SMTT(60) DEF Msg
  <2>7. k \in goroutines'
    BY <1>11, <2>1, <2>3, ZenonT(60) DEF ReplyInFunction
  <2>8. Carries(k, h)'
    BY <1>3, <2>3, <2>6, ZenonT(60) DEF Carries
  <2>9. QED
    BY <2>7, <2>8, ZenonT(60)
<1>12. ASSUME CloseInFunction(g) \/ LookUpAfterOnce(g) \/ UnsubscribeAfterOnce(g) \/ NilSubscriptionId(g)
      PROVE  FALSE
  <2>1. g.at = "close" \/ g.at = "unsubscribe"
    BY <1>12, ZenonT(60) DEF CloseInFunction, LookUpAfterOnce, UnsubscribeAfterOnce, NilSubscriptionId
  <2>2. g.at = "call" \/ g.at = "function" \/ g.at = "reply"
    BY ZenonT(60) DEF Carries
  <2>3. QED
    BY <2>1, <2>2, ZenonT(60)
<1>13. QED
  BY <1>6, <1>7, <1>9, <1>10, <1>11, <1>12, ZenonT(60) DEF Goroutine

(* A process that has ended takes no step. *)
LEMMA DeadStays ==
  ASSUME Dead, [Next]_vars
  PROVE  UNCHANGED vars
<1>1. goroutines = {} /\ \A c \in Client : pc[c].op = "crashed" /\ pc[c] # Idle
  BY SMTT(60) DEF Dead, Crashed, Idle
<1>2. ASSUME NEW c \in Client,
             \/ \E n \in Name : CreateChannel(c, n) \/ DestroyChannel(c, n)
             \/ \E t \in Traffic : SendMessage(c, t)
             \/ \E h \in Handler : MakeHandler(c, h) \/ Handle(c, h) \/ Close(c, h) \/ Fire(c, h)
      PROVE  FALSE
  BY <1>1, <1>2, ZenonT(60) DEF CreateChannel, DestroyChannel, SendMessage, MakeHandler, Handle, Close, Fire
<1>3. ASSUME NEW c \in Client,
             \/ sendMessageToChannel(c) \/ SubscribeChannelHandler(c) \/ HandleReturns(c)
             \/ UnsubscribeChannelHandler(c) \/ FireReturns(c)
      PROVE  FALSE
  BY <1>1, <1>3, ZenonT(60) DEF sendMessageToChannel, SubscribeChannelHandler, HandleReturns, UnsubscribeChannelHandler,
                    FireReturns
<1>4. QED
  BY <1>1, <1>2, <1>3, Steps, ZenonT(60)

(* Only Fire makes a handler owed an answer. *)
LEMMA OwedStep ==
  ASSUME [Next]_vars, NEW h \in owed' \ owed
  PROVE  h \in handled /\ Mode[h].request /\ \E c \in Client : Fire(c, h)
<1>1. ASSUME NEW c \in Client, NEW k \in Handler, Fire(c, k)
      PROVE  h \in handled /\ Mode[h].request /\ \E d \in Client : Fire(d, h)
  <2>1. h = k
    BY <1>1, ZenonT(60) DEF Fire
  <2>2. h \in handled /\ Mode[h].request
    BY <1>1, <2>1, ZenonT(60) DEF Fire
  <2>3. QED
    BY <1>1, <2>1, <2>2, ZenonT(60)
<1>2. ASSUME NEW c \in Client,
             \/ \E n \in Name : CreateChannel(c, n) \/ DestroyChannel(c, n)
             \/ \E t \in Traffic : SendMessage(c, t)
             \/ \E k \in Handler : MakeHandler(c, k) \/ Handle(c, k) \/ Close(c, k)
             \/ sendMessageToChannel(c) \/ SubscribeChannelHandler(c) \/ HandleReturns(c)
             \/ UnsubscribeChannelHandler(c) \/ FireReturns(c)
      PROVE  UNCHANGED owed
  BY <1>2, ZenonT(60) DEF CreateChannel, DestroyChannel, SendMessage, MakeHandler, Handle, Close, sendMessageToChannel,
              SubscribeChannelHandler, HandleReturns, UnsubscribeChannelHandler, FireReturns, history
<1>3. ASSUME NEW g \in goroutines,
             \/ SkipFunction(g) \/ CallFunction(g) \/ ReturnFromFunction(g) \/ LookUpInFunction(g)
             \/ ReplyInFunction(g) \/ CloseInFunction(g)
             \/ LookUpAfterOnce(g) \/ UnsubscribeAfterOnce(g) \/ NilSubscriptionId(g)
      PROVE  UNCHANGED owed
  BY <1>3, ZenonT(60) DEF SkipFunction, CallFunction, ReturnFromFunction, LookUpInFunction, ReplyInFunction, CloseInFunction,
              LookUpAfterOnce, UnsubscribeAfterOnce, NilSubscriptionId, history
<1>4. UNCHANGED vars => UNCHANGED owed
  BY ZenonT(60) DEF vars, history
<1>5. QED
  BY <1>1, <1>2, <1>3, <1>4, Steps, ZenonT(60)

(* Only Fire and its return change what is known of the Fire of a handler. *)
LEMMA FiredStep ==
  ASSUME Types, [Next]_vars, NEW h \in Handler, fired'[h] # fired[h]
  PROVE  fired[h] = "no" \/ \E c \in Client : FireReturns(c) /\ pc[c].h = h
<1>1. DOMAIN fired = Handler
  BY ZenonT(60) DEF Types, Tables
<1>2. ASSUME NEW c \in Client, NEW k \in Handler, Fire(c, k)
      PROVE  fired[h] = "no"
  BY <1>1, <1>2, ZenonT(60) DEF Fire
<1>3. ASSUME NEW c \in Client, FireReturns(c)
      PROVE  pc[c].h = h
  BY <1>1, <1>3, ZenonT(60) DEF FireReturns
<1>4. ASSUME NEW c \in Client,
             \/ \E n \in Name : CreateChannel(c, n) \/ DestroyChannel(c, n)
             \/ \E t \in Traffic : SendMessage(c, t)
             \/ \E k \in Handler : MakeHandler(c, k) \/ Handle(c, k) \/ Close(c, k)
             \/ sendMessageToChannel(c) \/ SubscribeChannelHandler(c) \/ HandleReturns(c)
             \/ UnsubscribeChannelHandler(c)
      PROVE  UNCHANGED fired
  BY <1>4, ZenonT(60) DEF CreateChannel, DestroyChannel, SendMessage, MakeHandler, Handle, Close, sendMessageToChannel,
              SubscribeChannelHandler, HandleReturns, UnsubscribeChannelHandler, history
<1>5. ASSUME NEW g \in goroutines,
             \/ SkipFunction(g) \/ CallFunction(g) \/ ReturnFromFunction(g) \/ LookUpInFunction(g)
             \/ ReplyInFunction(g) \/ CloseInFunction(g)
             \/ LookUpAfterOnce(g) \/ UnsubscribeAfterOnce(g) \/ NilSubscriptionId(g)
      PROVE  UNCHANGED fired
  BY <1>5, ZenonT(60) DEF SkipFunction, CallFunction, ReturnFromFunction, LookUpInFunction, ReplyInFunction, CloseInFunction,
              LookUpAfterOnce, UnsubscribeAfterOnce, NilSubscriptionId, history
<1>6. UNCHANGED vars => UNCHANGED fired
  BY ZenonT(60) DEF vars, history
<1>7. QED
  BY <1>2, <1>3, <1>4, <1>5, <1>6, Steps, ZenonT(60)

(* A goroutine leaves the set by a step of its own, or when the process ends. *)
LEMMA GoroutineStep ==
  ASSUME [Next]_vars, NEW g \in goroutines
  PROVE  g \in goroutines' \/ Goroutine(g) \/ Dead'
<1>1. ASSUME NEW c \in Client,
             \/ \E n \in Name : CreateChannel(c, n) \/ DestroyChannel(c, n)
             \/ \E t \in Traffic : SendMessage(c, t)
             \/ \E k \in Handler : MakeHandler(c, k) \/ Handle(c, k) \/ Close(c, k) \/ Fire(c, k)
             \/ sendMessageToChannel(c) \/ SubscribeChannelHandler(c) \/ HandleReturns(c)
             \/ UnsubscribeChannelHandler(c) \/ FireReturns(c)
      PROVE  g \in goroutines'
  BY <1>1, ZenonT(60) DEF CreateChannel, DestroyChannel, SendMessage, MakeHandler, Handle, Close, Fire, sendMessageToChannel,
              SubscribeChannelHandler, HandleReturns, UnsubscribeChannelHandler, FireReturns
<1>2. ASSUME NEW k \in goroutines, g # k,
             \/ SkipFunction(k) \/ CallFunction(k) \/ ReturnFromFunction(k) \/ LookUpInFunction(k)
             \/ ReplyInFunction(k) \/ CloseInFunction(k) \/ LookUpAfterOnce(k) \/ UnsubscribeAfterOnce(k)
      PROVE  g \in goroutines'
  BY <1>2, ZenonT(60) DEF SkipFunction, CallFunction, ReturnFromFunction, LookUpInFunction, ReplyInFunction, CloseInFunction,
              LookUpAfterOnce, UnsubscribeAfterOnce
<1>3. ASSUME NEW k \in goroutines, NilSubscriptionId(k)
      PROVE  Dead'
  BY <1>3, ZenonT(60) DEF NilSubscriptionId, Dead
<1>4. UNCHANGED vars => g \in goroutines'
  BY ZenonT(60) DEF vars
<1>5. QED
  BY <1>1, <1>2, <1>3, <1>4, Steps, ZenonT(60) DEF Goroutine

(* While an answer is due, Fire waits and somebody carries the request or the answer. *)
LEMMA OwingKept ==
  ASSUME Base, Owing, Records', [Next]_vars
  PROVE  Owing'
<1>1. ASSUME NEW h \in owed'
      PROVE  h \in handled' /\ Mode[h].request
  <2>1. handled \subseteq handled'
    BY Growing, ZenonT(60) DEF Base
  <2>2. QED
    BY <2>1, OwedStep, ZenonT(60) DEF Owing
<1> SUFFICES ASSUME NEW h \in Handler, Due(h)'
             PROVE  /\ fired'[h] = "waiting" /\ h \in subscribed'[madeOn'[h]]
                    /\ Dead' \/ \E g \in goroutines' : Carries(g, h)'
  BY <1>1, ZenonT(60) DEF Owing
<1>3. /\ h \in owed' /\ h \notin closed' /\ channels'[On[h]] = madeOn'[h]
      /\ \A i \in Nat : <<h, i>> \notin invoked'
  <2>1. Deliveries'
    BY DeliveriesKept, ZenonT(60) DEF Base, Types
  <2>2. InvokedBy(h)' = {i \in Nat : <<h, i>> \in invoked'}
    BY <2>1, InvokedNext, ZenonT(60)
  <2>3. QED
    BY <2>2, ZenonT(60) DEF Due
<1>4. h \notin closed /\ InvokedBy(h) = {}
  BY <1>3, Growing, InvokedFacts, ZenonT(60) DEF Base, Types
<1>5. h \in handled /\ Mode[h].request
  BY <1>3, OwedStep, ZenonT(60) DEF Owing
<1>6. madeOn[h] # 0 /\ madeOn'[h] = madeOn[h] /\ madeOn[h] \in Object /\ On[h] \in Name
  <2>1. madeOn[h] # 0
    BY <1>5, ZenonT(60) DEF Base, Numbered
  <2>2. madeOn[h] \in 0 .. MaxObject /\ On[h] \in Name
    BY EventBusAssumption, ZenonT(60) DEF Base, Types, Tables
  <2>3. QED
    BY <2>1, <2>2, MadeStep, EventBusAssumption, SMTT(60) DEF Base, Object
<1>7. channels[On[h]] = madeOn[h]
  <2>1. madeOn[h] <= created /\ created \in Nat /\ madeOn[h] \in Nat
    BY <1>6, NameStep, SMTT(60) DEF Base, Numbered, Object
  <2>2. channels \in [Name -> 0 .. MaxObject]
    BY ZenonT(60) DEF Base, Types, Tables
  <2>3. CASE UNCHANGED channels
    BY <1>3, <1>6, <2>3, ZenonT(60)
  <2>4. CASE \A n \in Name : channels'[n] \in {channels[n], 0}
    BY <1>3, <1>6, <2>4, ZenonT(60)
  <2>5. CASE \E n \in Name : channels' = [channels EXCEPT ![n] = created + 1]
    BY <1>3, <1>6, <2>1, <2>2, <2>5, SMTT(60)
  <2>6. QED
    BY <2>3, <2>4, <2>5, NameStep, ZenonT(60) DEF Base
<1>8. CASE h \notin owed
  BY <1>3, <1>7, <1>8, OwedStep, FireOwes, ZenonT(60)
<1>9. CASE h \in owed
  <2>1. Due(h)
    BY <1>4, <1>7, <1>9, ZenonT(60) DEF Due
  <2>2. fired[h] = "waiting" /\ h \in subscribed[madeOn[h]] /\ (Dead \/ \E g \in goroutines : Carries(g, h))
    BY <2>1, ZenonT(60) DEF Owing
  <2>3. h \in subscribed'[madeOn'[h]]
    <3>1. ~\E i : <<h, i>> \in invoked'
      <4>1. \A i : <<h, i>> \in invoked' => i \in 1 .. Len(messages')
        <5>1. invoked' \subseteq handled' \X (1 .. Len(messages'))
          BY ZenonT(60) DEF Records
        <5>2. QED
          BY <5>1, ZenonT(60)
      <4>2. Len(messages') \in Nat
        BY Growing, ZenonT(60) DEF Base
      <4>3. QED
        <5>1. \A i \in Nat : <<h, i>> \notin invoked'
          BY <1>3, ZenonT(60)
        <5>2. \A i \in 1 .. Len(messages') : i \in Nat
          BY <4>2, SMTT(60)
        <5>3. QED
          BY <4>1, <5>1, <5>2, ZenonT(60)
    <3>2. QED
      BY <1>3, <1>6, <2>2, <3>1, SubscribedStep, ZenonT(60) DEF Base
  <2>4. CASE Dead
    BY <2>2, <2>3, <2>4, DeadStays, ZenonT(60) DEF vars, Dead
  <2>5. CASE ~Dead
    <3>1. PICK g \in goroutines : Carries(g, h)
      BY <2>2, <2>5, ZenonT(60)
    <3>2. fired'[h] = "waiting"
      <4>1. ASSUME NEW c \in Client, FireReturns(c), pc[c].h = h
            PROVE  FALSE
        <5>1. pc[c].obj = madeOn[h] /\ g.obj # pc[c].obj
          BY <4>1, ZenonT(60) DEF FireReturns, Base, Waiting
        <5>2. QED
          BY <3>1, <5>1, ZenonT(60) DEF Carries
      <4>2. QED
        BY <2>2, <4>1, FiredStep, ZenonT(60) DEF Base
    <3>3. messages'[g.msg] = messages[g.msg]
      BY DeliveryFacts, Growing, ZenonT(60) DEF Base, Types
    <3>4. Dead' \/ \E k \in goroutines' : Carries(k, h)'
      <4>1. CASE g \in goroutines'
        BY <1>6, <3>1, <3>3, <4>1, CarriesStays, ZenonT(60) DEF Base
      <4>2. CASE Goroutine(g)
        BY <1>3, <1>4, <1>5, <1>7, <2>2, <3>1, <4>2, CarriedOn, ZenonT(60)
      <4>3. QED
        BY <4>1, <4>2, GoroutineStep, ZenonT(60)
    <3>5. QED
      BY <2>3, <3>2, <3>4, ZenonT(60)
  <2>6. QED
    BY <2>4, <2>5, ZenonT(60)
<1>10. QED
  BY <1>8, <1>9, ZenonT(60)

-----------------------------------------------------------------------------
IInv == Base /\ Owing

(* The invariant holds at the start and is kept by every step. *)
LEMMA Invariance == Spec => []IInv
<1>1. Init => IInv
  <2> SUFFICES ASSUME Init
               PROVE  IInv
    BY ZenonT(60)
  <2> USE EventBusAssumption DEF Init
  <2>1. Tables /\ Records
    BY SMTT(60) DEF Tables, Records, Object
  <2>2. PcOK
    BY ZenonT(60) DEF PcOK, PcType, Idle
  <2>3. Deliveries
    BY SMTT(60) DEF Deliveries
  <2>4. Known /\ Ran /\ Waiting
    BY ZenonT(60) DEF Known, Ran, Waiting, Object, Idle, Calls
  <2>5. Onces
    BY ZenonT(60) DEF Onces, InvokedBy
  <2>6. Numbered /\ Named
    BY SMTT(60) DEF Numbered, Named, Object, Idle
  <2>7. Owing
    BY ZenonT(60) DEF Owing, Due
  <2>8. QED
    BY <2>1, <2>2, <2>3, <2>4, <2>5, <2>6, <2>7, ZenonT(60) DEF IInv, Base, Types
<1>2. IInv /\ [Next]_vars => IInv'
  <2> SUFFICES ASSUME IInv, [Next]_vars
               PROVE  IInv'
    BY ZenonT(60)
  <2>1. Types /\ Known /\ Onces /\ Ran /\ Numbered /\ Named /\ Waiting /\ Owing /\ Base
    BY ZenonT(60) DEF IInv, Base
  <2>2. Records'
    BY <2>1, RecordsKept, ZenonT(60)
  <2>3. Types'
    BY <2>1, <2>2, TablesKept, DeliveriesKept, PcKept, ZenonT(60) DEF Types
  <2>4. Known' /\ Onces' /\ Ran' /\ Numbered' /\ Named' /\ Waiting'
    BY <2>1, KnownKept, OncesKept, RanKept, NumberedKept, NamedKept, WaitingKept, ZenonT(60)
  <2>5. Owing'
    BY <2>1, <2>2, OwingKept, ZenonT(60)
  <2>6. QED
    BY <2>3, <2>4, <2>5, ZenonT(60) DEF IInv, Base
<1>3. QED
  BY <1>1, <1>2, PTL DEF Spec

(* Every variable of the bus keeps its type, whatever the handlers do and however often
   names are destroyed and created. *)
THEOREM TypeCorrect == Spec => []TypeOK
<1>1. IInv => TypeOK
  <2> SUFFICES ASSUME IInv
               PROVE  TypeOK
    BY ZenonT(60)
  <2>1. Tables /\ Records /\ Deliveries /\ PcOK
    BY ZenonT(60) DEF IInv, Base, Types
  <2>2. DOMAIN messages = 1 .. Len(messages)
    BY <2>1, SMTT(60) DEF Deliveries
  <2>3. goroutines \subseteq [h : Handler, msg : DOMAIN messages, obj : Object, to : 0 .. MaxObject, hasId : BOOLEAN,
                             at : {"call", "function", "reply", "close", "unsubscribe"}]
    BY <2>1, <2>2, ZenonT(60) DEF Deliveries, Delivery
  <2>4. invoked \in SUBSET (handled \X DOMAIN messages)
    BY <2>1, <2>2, ZenonT(60) DEF Records
  <2>5. messages \in Seq([dir : Direction, dest : Id \cup {NoId}, closed : SUBSET Handler, client : BOOLEAN])
    BY <2>1, ZenonT(60) DEF Deliveries, Message
  <2>6. QED
    BY <2>1, <2>3, <2>4, <2>5, ZenonT(60) DEF TypeOK, Tables, Records, PcOK
<1>2. QED
  BY <1>1, Invariance, PTL

(* The sync.Once of wrapMessageHandler: a once handler runs the user's functions for one
   message at most, for any number of goroutines that reach its wrapper. *)
THEOREM OnceRunsOnce == Spec => []OnceInvokedOnce
<1>1. IInv => OnceInvokedOnce
  <2> SUFFICES ASSUME IInv, NEW h \in Handler, Mode[h].runOnce
               PROVE  Cardinality(InvokedBy(h)) <= 1
    BY ZenonT(60) DEF OnceInvokedOnce
  <2>1. \A i, j \in InvokedBy(h) : i = j
    BY ZenonT(60) DEF IInv, Base, Onces
  <2>2. CASE InvokedBy(h) = {}
    BY <2>2, FS_EmptySet, SMTT(60)
  <2>3. CASE InvokedBy(h) # {}
    <3>1. PICK i \in InvokedBy(h) : TRUE
      BY <2>3, ZenonT(60)
    <3>2. InvokedBy(h) = {i}
      BY <2>1, <3>1, ZenonT(60)
    <3>3. QED
      <4>1. Cardinality({i}) = 1
        BY FS_Singleton, ZenonT(60)
      <4>2. QED
        BY <3>2, <4>1, SMTT(60)
  <2>4. QED
    BY <2>2, <2>3, ZenonT(60)
<1>2. QED
  BY <1>1, Invariance, PTL

(* Fire returns after the replies to its request have been handed over: the delivery that
   carries the request or the reply keeps the WaitGroup of the channel above zero. *)
THEOREM FireWaits == Spec => []FireWaitsForReplies
<1>1. IInv => FireWaitsForReplies
  <2> SUFFICES ASSUME IInv, NEW h \in owed, fired[h] = "returned", h \notin closed,
                      channels[On[h]] = madeOn[h], InvokedBy(h) = {}
               PROVE  FALSE
    BY ZenonT(60) DEF FireWaitsForReplies
  <2>1. h \in Handler /\ Due(h)
    BY ZenonT(60) DEF IInv, Base, Types, Tables, Due
  <2>2. fired[h] = "waiting"
    BY <2>1, ZenonT(60) DEF IInv, Owing
  <2>3. QED
    BY <2>2, ZenonT(60)
<1>2. QED
  BY <1>1, Invariance, PTL

-----------------------------------------------------------------------------
InHandleOf(c, h) == pc[c].op \in {"subscribe", "assign"} /\ pc[c].h = h

\* A handler is subscribed once, before it has its id; only with an id is it closed.
IdLast ==
  /\ \A c \in Client, h \in Handler : InHandleOf(c, h) =>
       h \notin subscriptionId /\ \A d \in Client : InHandleOf(d, h) => d = c
  /\ closed \subseteq subscriptionId
  /\ \A c \in Client : pc[c].op = "close" => pc[c].h \in subscriptionId
  /\ \A g \in goroutines : g.at = "close" => g.h \in subscriptionId

\* A handler with an id that is on its channel is not closed, and who closes it has looked up that channel.
Leaves ==
  \A h \in subscriptionId : channels[On[h]] # 0 /\ h \in subscribed[channels[On[h]]] =>
    /\ h \notin closed
    /\ \A c \in Client : pc[c].op = "close" /\ pc[c].h = h => pc[c].obj = channels[On[h]]
    /\ \A g \in goroutines : g.at = "close" /\ g.h = h => g.to = channels[On[h]]

\* A message under way to the channel finds no handler closed before.
Unheard ==
  /\ \A c \in Client : pc[c].op = "send" =>
       \A h \in pc[c].closed : h \in subscriptionId /\ h \notin subscribed[pc[c].obj]
  /\ \A g \in goroutines : messages[g.msg].client => g.h \notin messages[g.msg].closed
  /\ \A h \in Handler, i \in 1 .. Len(messages) :
       <<h, i>> \in invoked /\ messages[i].client => h \notin messages[i].closed

Silence == IdLast /\ Leaves /\ Unheard

-----------------------------------------------------------------------------
(* How a client comes to be in the middle of a call. *)
LEMMA CallFrom ==
  ASSUME Types, [Next]_vars, NEW c \in Client, pc'[c] # pc[c]
  PROVE  /\ pc'[c].op = "send" => \E t \in Traffic :
              SendMessage(c, t) /\ pc'[c].obj = channels[t.on] /\ pc'[c].closed = closed
         /\ pc'[c].op = "subscribe" => Handle(c, pc'[c].h) /\ pc'[c].h \in Handler
         /\ pc'[c].op = "assign" => pc[c].op = "subscribe" /\ pc'[c].h = pc[c].h
         /\ pc'[c].op = "close" => Close(c, pc'[c].h) /\ pc'[c].obj = channels[On[pc'[c].h]]
<1> DEFINE Result ==
      /\ pc'[c].op = "send" => \E t \in Traffic :
           SendMessage(c, t) /\ pc'[c].obj = channels[t.on] /\ pc'[c].closed = closed
      /\ pc'[c].op = "subscribe" => Handle(c, pc'[c].h) /\ pc'[c].h \in Handler
      /\ pc'[c].op = "assign" => pc[c].op = "subscribe" /\ pc'[c].h = pc[c].h
      /\ pc'[c].op = "close" => Close(c, pc'[c].h) /\ pc'[c].obj = channels[On[pc'[c].h]]
<1>1. DOMAIN pc = Client /\ PcType(pc[c])
  BY ZenonT(60) DEF Types, PcOK
<1>2. ASSUME NEW d \in Client, NEW p, pc' = [pc EXCEPT ![d] = p]
      PROVE  d = c /\ pc'[c] = p
  BY <1>1, <1>2, ZenonT(60)
<1>3. ASSUME pc'[c] = Idle \/ pc'[c] = Crashed
      PROVE  Result
  BY <1>3, SMTT(60) DEF Idle, Crashed
<1>4. ASSUME NEW d \in Client, NEW t \in Traffic, SendMessage(d, t)
      PROVE  Result
  <2>1. d = c /\ pc'[c] = [op |-> "send", obj |-> channels[t.on], t |-> t, closed |-> closed]
    BY <1>2, <1>4, ZenonT(60) DEF SendMessage
  <2>2. pc'[c].op = "send" /\ pc'[c].obj = channels[t.on] /\ pc'[c].closed = closed
    BY <2>1, SMTT(60)
  <2>3. QED
    BY <1>4, <2>1, <2>2, ZenonT(60)
<1>5. ASSUME NEW d \in Client, NEW h \in Handler, Handle(d, h)
      PROVE  Result
  <2>1. CASE channels[On[h]] = 0
    <3>1. pc' = [pc EXCEPT ![d] = Idle]
      BY <1>5, <2>1, ZenonT(60) DEF Handle
    <3>2. QED
      BY <1>2, <1>3, <3>1, ZenonT(60)
  <2>2. CASE channels[On[h]] # 0
    <3>1. pc' = [pc EXCEPT ![d] = [op |-> "subscribe", obj |-> channels[On[h]], h |-> h]]
      BY <1>5, <2>2, ZenonT(60) DEF Handle
    <3>2. d = c /\ pc'[c] = [op |-> "subscribe", obj |-> channels[On[h]], h |-> h]
      BY <1>2, <3>1, ZenonT(60)
    <3>3. pc'[c].op = "subscribe" /\ pc'[c].h = h
      BY <3>2, SMTT(60)
    <3>4. QED
      BY <1>5, <3>2, <3>3, ZenonT(60)
  <2>3. QED
    BY <2>1, <2>2, ZenonT(60)
<1>6. ASSUME NEW d \in Client, SubscribeChannelHandler(d)
      PROVE  Result
  <2>1. pc[d].op = "subscribe" /\ pc' = [pc EXCEPT ![d] = [pc[d] EXCEPT !.op = "assign"]]
    BY <1>6, ZenonT(60) DEF SubscribeChannelHandler
  <2>2. d = c /\ pc'[c] = [pc[c] EXCEPT !.op = "assign"]
    BY <1>2, <2>1, ZenonT(60)
  <2>3. pc[c] \in [op : Calls, obj : Object, h : Handler]
    BY <1>1, <2>1, <2>2, SMTT(60) DEF PcType, Idle, Crashed, Calls
  <2>4. pc'[c].op = "assign" /\ pc'[c].h = pc[c].h
    BY <2>2, <2>3, ZenonT(60)
  <2>5. QED
    BY <2>1, <2>2, <2>4, ZenonT(60)
<1>7. ASSUME NEW d \in Client, NEW h \in Handler, Close(d, h)
      PROVE  Result
  <2>1. CASE channels[On[h]] = 0
    BY <1>7, <2>1, ZenonT(60) DEF Close
  <2>2. CASE channels[On[h]] # 0
    <3>1. pc' = [pc EXCEPT ![d] = [op |-> "close", obj |-> channels[On[h]], h |-> h]]
      BY <1>7, <2>2, ZenonT(60) DEF Close
    <3>2. d = c /\ pc'[c] = [op |-> "close", obj |-> channels[On[h]], h |-> h]
      BY <1>2, <3>1, ZenonT(60)
    <3>3. pc'[c].op = "close" /\ pc'[c].h = h /\ pc'[c].obj = channels[On[h]]
      BY <3>2, SMTT(60)
    <3>4. QED
      BY <1>7, <3>2, <3>3, ZenonT(60)
  <2>3. QED
    BY <2>1, <2>2, ZenonT(60)
<1>8. ASSUME NEW d \in Client, NEW h \in Handler, Fire(d, h)
      PROVE  Result
  <2>1. pc'[c] = [op |-> "wait", obj |-> madeOn[h], h |-> h]
    BY <1>2, <1>8, ZenonT(60) DEF Fire
  <2>2. QED
    BY <2>1, SMTT(60)
<1>9. ASSUME NEW d \in Client,
             sendMessageToChannel(d) \/ HandleReturns(d) \/ UnsubscribeChannelHandler(d) \/ FireReturns(d)
      PROVE  Result
  <2>1. pc' = [pc EXCEPT ![d] = Idle]
    BY <1>9, ZenonT(60) DEF sendMessageToChannel, HandleReturns, UnsubscribeChannelHandler, FireReturns
  <2>2. QED
    BY <1>2, <1>3, <2>1, ZenonT(60)
<1>10. ASSUME NEW g \in goroutines, NilSubscriptionId(g)
       PROVE  Result
  <2>1. pc'[c] = Crashed
    BY <1>10, ZenonT(60) DEF NilSubscriptionId
  <2>2. QED
    BY <1>3, <2>1, ZenonT(60)
<1> HIDE DEF Result
<1>11. Result
  BY <1>4, <1>5, <1>6, <1>7, <1>8, <1>9, <1>10, Steps, ZenonT(60)
     DEF vars, CreateChannel, DestroyChannel, MakeHandler, SkipFunction, CallFunction, ReturnFromFunction,
         LookUpInFunction, ReplyInFunction, CloseInFunction, LookUpAfterOnce, UnsubscribeAfterOnce
<1>12. QED
  BY <1>11, ZenonT(60) DEF Result

(* Where subscription ids come from. *)
LEMMA IdStep ==
  ASSUME [Next]_vars
  PROVE  \/ UNCHANGED subscriptionId
         \/ \E c \in Client : HandleReturns(c) /\ subscriptionId' = subscriptionId \cup {pc[c].h}
<1>1. ASSUME NEW c \in Client, HandleReturns(c)
      PROVE  subscriptionId' = subscriptionId \cup {pc[c].h}
  BY <1>1, ZenonT(60) DEF HandleReturns
<1>2. QED
  BY <1>1, Steps, ZenonT(60)
     DEF vars, CreateChannel, DestroyChannel, SendMessage, MakeHandler, Handle, Close, Fire,
         sendMessageToChannel, SubscribeChannelHandler, UnsubscribeChannelHandler, FireReturns,
         SkipFunction, CallFunction, ReturnFromFunction, LookUpInFunction, ReplyInFunction,
         CloseInFunction, LookUpAfterOnce, UnsubscribeAfterOnce, NilSubscriptionId

(* Who closes a handler. *)
LEMMA ClosedStep ==
  ASSUME [Next]_vars, NEW h \in closed' \ closed
  PROVE  \/ h \in subscriptionId /\ channels[On[h]] = 0 /\ UNCHANGED <<channels, subscribed>>
         \/ \E c \in Client : UnsubscribeChannelHandler(c) /\ pc[c].op = "close" /\ pc[c].h = h
         \/ \E g \in goroutines : CloseInFunction(g) /\ g.at = "close" /\ g.h = h
<1>1. ASSUME NEW c \in Client, NEW k \in Handler, Close(c, k)
      PROVE  h \in subscriptionId /\ channels[On[h]] = 0 /\ UNCHANGED <<channels, subscribed>>
  BY <1>1, ZenonT(60) DEF Close
<1>2. ASSUME NEW c \in Client, UnsubscribeChannelHandler(c)
      PROVE  pc[c].op = "close" /\ pc[c].h = h
  BY <1>2, ZenonT(60) DEF UnsubscribeChannelHandler
<1>3. ASSUME NEW g \in goroutines, ReturnFromFunction(g)
      PROVE  h \in subscriptionId /\ channels[On[h]] = 0 /\ UNCHANGED <<channels, subscribed>>
  <2>1. h = g.h /\ Does[h] = "close" /\ h \in subscriptionId
    BY <1>3, ZenonT(60) DEF ReturnFromFunction
  <2>2. channels[On[h]] = 0
    BY <1>3, <2>1, ZenonT(60) DEF ReturnFromFunction
  <2>3. QED
    BY <1>3, <2>1, <2>2, ZenonT(60) DEF ReturnFromFunction
<1>4. ASSUME NEW g \in goroutines, CloseInFunction(g)
      PROVE  g.at = "close" /\ g.h = h
  BY <1>4, ZenonT(60) DEF CloseInFunction
<1>5. QED
  BY <1>1, <1>2, <1>3, <1>4, Steps, ZenonT(60)
     DEF vars, history, CreateChannel, DestroyChannel, SendMessage, MakeHandler, Handle, Fire,
         sendMessageToChannel, SubscribeChannelHandler, HandleReturns, FireReturns,
         SkipFunction, CallFunction, LookUpInFunction, ReplyInFunction,
         LookUpAfterOnce, UnsubscribeAfterOnce, NilSubscriptionId

(* A callback about to close its handler has looked the channel up. *)
LEMMA ClosingFrom ==
  ASSUME Types, Numbered, Ran, [Next]_vars, NEW k \in goroutines', k.at = "close"
  PROVE  \/ k \in goroutines
         \/ /\ UNCHANGED <<channels, subscribed, closed, subscriptionId>>
            /\ k.h \in subscriptionId /\ k.to = channels[On[k.h]]
<1>1. ASSUME NEW o \in Object, k \in Started(o)
      PROVE  FALSE
  BY <1>1, SMTT(60) DEF Started
<1>2. ASSUME NEW g \in goroutines, k \in AfterFunction(g)
      PROVE  FALSE
  <2>1. k = [g EXCEPT !.at = "unsubscribe", !.to = 0]
    BY <1>2, ZenonT(60) DEF AfterFunction
  <2>2. QED
    BY <2>1, DeliveryFacts, ZenonT(60) DEF Delivery, Types
<1>3. ASSUME NEW g \in goroutines, CallFunction(g)
      PROVE  k \in goroutines
  <2>1. k \in goroutines \/ k = [g EXCEPT !.at = "function"]
    BY <1>3, ZenonT(60) DEF CallFunction
  <2>2. k # [g EXCEPT !.at = "function"]
    BY DeliveryFacts, ZenonT(60) DEF Delivery, Types
  <2>3. QED
    BY <2>1, <2>2, ZenonT(60)
<1>4. ASSUME NEW g \in goroutines, LookUpInFunction(g)
      PROVE  \/ k \in goroutines
             \/ /\ UNCHANGED <<channels, subscribed, closed, subscriptionId>>
                /\ k.h \in subscriptionId /\ k.to = channels[On[k.h]]
  <2>1. k \in goroutines \/ k = [g EXCEPT !.at = Does[g.h], !.to = channels[On[g.h]]]
    BY <1>4, ZenonT(60) DEF LookUpInFunction
  <2>2. CASE k = [g EXCEPT !.at = Does[g.h], !.to = channels[On[g.h]]]
    <3>1. k.h = g.h /\ k.at = Does[g.h] /\ k.to = channels[On[g.h]]
      BY <2>2, DeliveryFacts, ZenonT(60) DEF Delivery, Types
    <3>2. g.h \in subscriptionId
      BY <1>4, <3>1, ZenonT(60) DEF LookUpInFunction
    <3>3. QED
      BY <1>4, <3>1, <3>2, ZenonT(60) DEF LookUpInFunction, history
  <2>3. QED
    BY <2>1, <2>2, ZenonT(60)
<1>5. ASSUME NEW g \in goroutines, LookUpAfterOnce(g)
      PROVE  k \in goroutines
  <2> DEFINE b == g.h \in subscriptionId
  <2>1. k \in goroutines \/ k = [g EXCEPT !.to = channels[On[g.h]], !.hasId = b]
    BY <1>5, ZenonT(60) DEF LookUpAfterOnce
  <2> HIDE DEF b
  <2>2. g.at = "unsubscribe"
    BY <1>5, ZenonT(60) DEF LookUpAfterOnce
  <2>3. ASSUME k = [g EXCEPT !.to = channels[On[g.h]], !.hasId = b]
        PROVE  FALSE
    <3>1. k.at = g.at
      BY <2>3, DeliveryFacts, ZenonT(60) DEF Delivery, Types
    <3>2. QED
      BY <2>2, <3>1, ZenonT(60)
  <2>4. QED
    BY <2>1, <2>3, ZenonT(60)
<1>6. ASSUME NEW c \in Client, sendMessageToChannel(c)
      PROVE  k \in goroutines
  <2>1. pc[c].obj \in Object
    BY <1>6, PcFacts, ZenonT(60) DEF sendMessageToChannel, Types
  <2>2. QED
    BY <1>1, <1>6, <2>1, ZenonT(60) DEF sendMessageToChannel
<1>7. ASSUME NEW c \in Client, NEW h \in Handler, Fire(c, h)
      PROVE  k \in goroutines
  <2>1. madeOn[h] \in Object
    <3>1. h \in handled /\ madeOn[h] # 0 /\ madeOn[h] \in 0 .. MaxObject
      BY <1>7, ZenonT(60) DEF Fire, Numbered, Types, Tables
    <3>2. QED
      BY <3>1, EventBusAssumption, SMTT(60) DEF Object
  <2>2. QED
    BY <1>1, <1>7, <2>1, ZenonT(60) DEF Fire
<1>8. ASSUME NEW g \in goroutines, ReplyInFunction(g)
      PROVE  k \in goroutines
  <2>1. g.to \in Object
    <3>1. g.to # 0
      <4>1. g.at \in {"reply", "close"}
        BY <1>8, ZenonT(60) DEF ReplyInFunction
      <4>2. QED
        BY <4>1, ZenonT(60) DEF Ran
    <3>2. g.to \in 0 .. MaxObject
      BY DeliveryFacts, ZenonT(60) DEF Types
    <3>3. QED
      BY <3>1, <3>2, EventBusAssumption, SMTT(60) DEF Object
  <2>2. QED
    BY <1>1, <1>2, <1>8, <2>1, ZenonT(60) DEF ReplyInFunction
<1>9. ASSUME NEW g \in goroutines, ReturnFromFunction(g) \/ CloseInFunction(g)
      PROVE  k \in goroutines
  BY <1>2, <1>9, ZenonT(60) DEF ReturnFromFunction, CloseInFunction
<1>10. QED
  BY <1>3, <1>4, <1>5, <1>6, <1>7, <1>8, <1>9, Steps, ZenonT(60)
     DEF vars, CreateChannel, DestroyChannel, SendMessage, MakeHandler, Handle, Close,
         SubscribeChannelHandler, HandleReturns, UnsubscribeChannelHandler, FireReturns,
         SkipFunction, UnsubscribeAfterOnce, NilSubscriptionId

(* A handler with an id is not subscribed again. *)
LEMMA NotAgain ==
  ASSUME Base, IdLast, [Next]_vars, NEW o \in Object, NEW h \in subscriptionId, h \in subscribed'[o]
  PROVE  h \in subscribed[o]
<1>1. h \in Handler
  BY ZenonT(60) DEF Base, Types, Tables, Records
<1>2. ASSUME NEW c \in Client, pc[c].op = "subscribe", pc[c].h = h
      PROVE  FALSE
  <2>1. InHandleOf(c, h)
    BY <1>2, ZenonT(60) DEF InHandleOf
  <2>2. QED
    BY <1>1, <2>1, ZenonT(60) DEF IdLast
<1>3. Types /\ Ran
  BY ZenonT(60) DEF Base
<1>4. h \in subscribed[o] \/ \E c \in Client : pc[c].op = "subscribe" /\ pc[c].obj = o /\ pc[c].h = h
  BY <1>1, <1>3, SubscribedStep, ZenonT(60)
<1>5. QED
  BY <1>2, <1>4, ZenonT(60)

(* Every step keeps subscription and closing apart. *)
LEMMA IdLastKept ==
  ASSUME Base, IdLast, [Next]_vars
  PROVE  IdLast'
<1>1. subscriptionId \subseteq subscriptionId' /\ subscriptionId \subseteq handled /\ handled \subseteq Handler
  BY IdStep, ZenonT(60) DEF Base, Types, Records, Tables
<1>2. ASSUME NEW c \in Client, NEW h \in Handler, InHandleOf(c, h)'
      PROVE  \/ InHandleOf(c, h)
             \/ Handle(c, h) /\ h \notin handled
  <2>1. pc'[c].op \in {"subscribe", "assign"} /\ pc'[c].h = h
    BY <1>2, ZenonT(60) DEF InHandleOf
  <2>2. CASE pc'[c] = pc[c]
    BY <2>1, <2>2, ZenonT(60) DEF InHandleOf
  <2>3. CASE pc'[c] # pc[c]
    <3>1. \/ Handle(c, h)
          \/ pc[c].op = "subscribe" /\ pc'[c].h = pc[c].h
      BY <2>1, <2>3, CallFrom, ZenonT(60) DEF Base
    <3>2. QED
      BY <2>1, <3>1, ZenonT(60) DEF InHandleOf, Handle
  <2>4. QED
    BY <2>2, <2>3, ZenonT(60)
<1>3. ASSUME NEW c \in Client, NEW h \in Handler, InHandleOf(c, h)
      PROVE  h \in handled
  <2>1. pc[c].op \in Calls /\ pc[c].h = h
    BY <1>3, ZenonT(60) DEF InHandleOf, Calls
  <2>2. QED
    BY <2>1, ZenonT(60) DEF Base, Known
<1>4. ASSUME NEW c \in Client, NEW h \in Handler, Handle(c, h), NEW d \in Client, d # c
      PROVE  pc'[d] = pc[d] /\ subscriptionId' = subscriptionId
  <2>1. DOMAIN pc = Client
    BY ZenonT(60) DEF Base, Types, PcOK
  <2>2. subscriptionId' = subscriptionId
    BY <1>4, ZenonT(60) DEF Handle
  <2>3. QED
    BY <1>4, <2>1, <2>2, ZenonT(60) DEF Handle
<1>5. ASSUME NEW c \in Client, NEW h \in Handler, InHandleOf(c, h)'
      PROVE  h \notin subscriptionId' /\ \A d \in Client : InHandleOf(d, h)' => d = c
  <2>1. CASE Handle(c, h) /\ h \notin handled
    <3>1. subscriptionId' = subscriptionId
      BY <2>1, ZenonT(60) DEF Handle
    <3>2. ASSUME NEW d \in Client, InHandleOf(d, h)', d # c
          PROVE  FALSE
      <4>1. InHandleOf(d, h)
        BY <1>4, <2>1, <3>2, ZenonT(60) DEF InHandleOf
      <4>2. QED
        BY <1>3, <2>1, <4>1, ZenonT(60)
    <3>3. QED
      BY <1>1, <2>1, <3>1, <3>2, ZenonT(60)
  <2>2. CASE InHandleOf(c, h)
    <3>1. h \notin subscriptionId'
      <4>1. ASSUME NEW d \in Client, HandleReturns(d), pc[d].h = h
            PROVE  FALSE
        <5>1. InHandleOf(d, h)
          BY <4>1, ZenonT(60) DEF HandleReturns, InHandleOf
        <5>2. d = c
          BY <2>2, <5>1, ZenonT(60) DEF IdLast
        <5>3. pc'[c] = Idle
          BY <4>1, <5>2, ZenonT(60) DEF HandleReturns, Base, Types, PcOK
        <5>4. pc'[c].op = "idle"
          BY <5>3, SMTT(60) DEF Idle
        <5>5. QED
          BY <1>5, <5>4, ZenonT(60) DEF InHandleOf
      <4>2. QED
        BY <2>2, <4>1, IdStep, ZenonT(60) DEF IdLast
    <3>2. ASSUME NEW d \in Client, InHandleOf(d, h)'
          PROVE  d = c
      <4>1. InHandleOf(d, h)
        BY <1>2, <1>3, <2>2, <3>2, ZenonT(60)
      <4>2. QED
        BY <2>2, <4>1, ZenonT(60) DEF IdLast
    <3>3. QED
      BY <3>1, <3>2, ZenonT(60)
  <2>3. QED
    BY <1>2, <1>5, <2>1, <2>2, ZenonT(60)
<1>6. closed' \subseteq subscriptionId'
  <2>1. ASSUME NEW h \in closed' \ closed
        PROVE  h \in subscriptionId
    <3>1. CASE \E c \in Client : pc[c].op = "close" /\ pc[c].h = h
      BY <3>1, ZenonT(60) DEF IdLast
    <3>2. CASE \E g \in goroutines : g.at = "close" /\ g.h = h
      BY <3>2, ZenonT(60) DEF IdLast
    <3>3. QED
      BY <3>1, <3>2, ClosedStep, ZenonT(60)
  <2>2. QED
    BY <1>1, <2>1, ZenonT(60) DEF IdLast
<1>7. ASSUME NEW c \in Client, pc'[c].op = "close"
      PROVE  pc'[c].h \in subscriptionId'
  <2>1. CASE pc'[c] = pc[c]
    BY <1>1, <1>7, <2>1, ZenonT(60) DEF IdLast
  <2>2. CASE pc'[c] # pc[c]
    <3>1. Close(c, pc'[c].h)
      BY <1>7, <2>2, CallFrom, ZenonT(60) DEF Base
    <3>2. QED
      BY <1>1, <3>1, ZenonT(60) DEF Close
  <2>3. QED
    BY <2>1, <2>2, ZenonT(60)
<1>8. ASSUME NEW g \in goroutines', g.at = "close"
      PROVE  g.h \in subscriptionId'
  BY <1>1, <1>8, ClosingFrom, ZenonT(60) DEF IdLast, Base
<1>9. QED
  BY <1>5, <1>6, <1>7, <1>8, ZenonT(60) DEF IdLast

(* Every step keeps closed handlers off their channel. *)
LEMMA LeavesKept ==
  ASSUME Base, IdLast, Leaves, [Next]_vars
  PROVE  Leaves'
<1> SUFFICES ASSUME NEW h \in subscriptionId', NEW o, o = channels'[On[h]], o # 0, h \in subscribed'[o]
             PROVE  /\ h \notin closed'
                    /\ \A c \in Client : pc'[c].op = "close" /\ pc'[c].h = h => pc'[c].obj = o
                    /\ \A g \in goroutines' : g.at = "close" /\ g.h = h => g.to = o
  BY ZenonT(60) DEF Leaves
<1>1. CASE h \notin subscriptionId
  <2>1. PICK c \in Client : HandleReturns(c) /\ pc[c].h = h
    BY <1>1, IdStep, ZenonT(60)
  <2>2. UNCHANGED <<closed, goroutines>> /\ h \notin closed
    BY <1>1, <2>1, ZenonT(60) DEF HandleReturns, IdLast, history
  <2>3. ASSUME NEW d \in Client, pc'[d].op = "close", pc'[d].h = h
        PROVE  FALSE
    <3>1. CASE pc'[d] = pc[d]
      BY <1>1, <2>3, <3>1, ZenonT(60) DEF IdLast
    <3>2. CASE pc'[d] # pc[d]
      <4>1. pc' = [pc EXCEPT ![c] = Idle] /\ DOMAIN pc = Client
        BY <2>1, ZenonT(60) DEF HandleReturns, Base, Types, PcOK
      <4>2. pc'[d] = Idle
        BY <3>2, <4>1, ZenonT(60)
      <4>3. QED
        BY <2>3, <4>2, SMTT(60) DEF Idle
    <3>3. QED
      BY <3>1, <3>2, ZenonT(60)
  <2>4. QED
    BY <1>1, <2>2, <2>3, ZenonT(60) DEF IdLast
<1>2. CASE h \in subscriptionId
  <2>1. h \in Handler /\ On[h] \in Name
    BY <1>2, EventBusAssumption, ZenonT(60) DEF Base, Types, Records, Tables
  <2>2. o \in Object
    <3>1. channels' \in [Name -> 0 .. MaxObject]
      BY TablesKept, ZenonT(60) DEF Base, Tables
    <3>2. QED
      BY <2>1, <3>1, EventBusAssumption, SMTT(60) DEF Object
  <2>3. h \in subscribed[o]
    BY <1>2, <2>2, NotAgain, ZenonT(60)
  <2>4. channels[On[h]] = o
    <3>1. created \in Nat /\ (o > created => subscribed[o] = {}) /\ channels \in [Name -> 0 .. MaxObject]
      BY <2>2, NameStep, ZenonT(60) DEF Base, Types, Tables, Numbered
    <3>2. o # created + 1
      BY <2>2, <2>3, <3>1, SMTT(60)
    <3>3. ASSUME NEW n \in Name, channels' = [channels EXCEPT ![n] = created + 1]
          PROVE  channels[On[h]] = o
      BY <2>1, <3>1, <3>2, <3>3, ZenonT(60)
    <3>4. channels[On[h]] = o \/ o = 0
      BY <2>1, <3>3, NameStep, ZenonT(60) DEF Base, Types
    <3>5. QED
      BY <3>4, ZenonT(60)
  <2>5. /\ h \notin closed
        /\ \A c \in Client : pc[c].op = "close" /\ pc[c].h = h => pc[c].obj = o
        /\ \A g \in goroutines : g.at = "close" /\ g.h = h => g.to = o
    BY <1>2, <2>3, <2>4, ZenonT(60) DEF Leaves
  <2>6. h \notin closed'
    <3>1. subscribed \in [Object -> SUBSET Handler]
      BY ZenonT(60) DEF Base, Types, Tables
    <3>2. ASSUME NEW c \in Client, UnsubscribeChannelHandler(c), pc[c].op = "close", pc[c].h = h
          PROVE  FALSE
      <4>1. subscribed' = [subscribed EXCEPT ![o] = @ \ {h}]
        BY <2>5, <3>2, ZenonT(60) DEF UnsubscribeChannelHandler
      <4>2. QED
        BY <2>2, <3>1, <4>1, ZenonT(60)
    <3>3. ASSUME NEW g \in goroutines, CloseInFunction(g), g.at = "close", g.h = h
          PROVE  FALSE
      <4>1. subscribed' = [subscribed EXCEPT ![o] = @ \ {h}]
        BY <2>5, <3>3, ZenonT(60) DEF CloseInFunction
      <4>2. QED
        BY <2>2, <3>1, <4>1, ZenonT(60)
    <3>4. QED
      BY <2>4, <2>5, <3>2, <3>3, ClosedStep, ZenonT(60)
  <2>7. ASSUME NEW c \in Client, pc'[c].op = "close", pc'[c].h = h
        PROVE  pc'[c].obj = o
    <3>1. CASE pc'[c] = pc[c]
      BY <2>5, <2>7, <3>1, ZenonT(60)
    <3>2. CASE pc'[c] # pc[c]
      <4>1. pc'[c].obj = channels[On[pc'[c].h]]
        BY <2>7, <3>2, CallFrom, ZenonT(60) DEF Base
      <4>2. QED
        BY <2>4, <2>7, <4>1, ZenonT(60)
    <3>3. QED
      BY <3>1, <3>2, ZenonT(60)
  <2>8. ASSUME NEW g \in goroutines', g.at = "close", g.h = h
        PROVE  g.to = o
    BY <2>4, <2>5, <2>8, ClosingFrom, ZenonT(60) DEF Base
  <2>9. QED
    BY <2>6, <2>7, <2>8, ZenonT(60)
<1>3. QED
  BY <1>1, <1>2, ZenonT(60)

(* Every step keeps closed handlers from hearing what clients send afterwards. *)
LEMMA UnheardKept ==
  ASSUME Base, Types', IdLast, Leaves, Unheard, [Next]_vars
  PROVE  Unheard'
<1>1. Types /\ Numbered /\ Ran
  BY ZenonT(60) DEF Base
<1>2. /\ Len(messages) \in Nat /\ Len(messages') \in Nat /\ Len(messages) <= Len(messages')
      /\ \A i \in 1 .. Len(messages) : messages'[i] = messages[i]
  BY <1>1, Growing, ZenonT(60)
<1>3. ASSUME NEW c \in Client, pc'[c].op = "send"
      PROVE  \A h \in pc'[c].closed : h \in subscriptionId' /\ h \notin subscribed'[pc'[c].obj]
  <2>1. subscriptionId \subseteq subscriptionId'
    BY IdStep, ZenonT(60)
  <2>2. PcOK'
    BY ZenonT(60) DEF Types
  <2>3. pc'[c].obj \in Object
    <3>1. PcType(pc'[c])
      BY <2>2, ZenonT(60) DEF PcOK, PcType
    <3>2. QED
      BY <1>3, <3>1, SMTT(60) DEF PcType, Idle, Crashed
  <2>4. ASSUME NEW h \in pc'[c].closed
        PROVE  h \in subscriptionId /\ h \notin subscribed[pc'[c].obj]
    <3>1. CASE pc'[c] = pc[c]
      BY <1>3, <2>4, <3>1, ZenonT(60) DEF Unheard
    <3>2. CASE pc'[c] # pc[c]
      <4>1. PICK t \in Traffic : SendMessage(c, t) /\ pc'[c].obj = channels[t.on] /\ pc'[c].closed = closed
        BY <1>1, <1>3, <3>2, CallFrom, ZenonT(60)
      <4>2. h \in closed /\ h \in subscriptionId /\ channels[t.on] # 0 /\ t.on \in Name
        <5>1. t.on \in Name
          BY EventBusAssumption, ZenonT(60)
        <5>2. QED
          BY <2>4, <4>1, <5>1, ZenonT(60) DEF IdLast, SendMessage
      <4>3. ASSUME h \in subscribed[channels[t.on]]
            PROVE  FALSE
        <5>1. On[h] = t.on
          BY <4>2, <4>3, ZenonT(60) DEF Base, Named
        <5>2. QED
          BY <4>2, <4>3, <5>1, ZenonT(60) DEF Leaves
      <4>4. QED
        BY <4>1, <4>2, <4>3, ZenonT(60)
    <3>3. QED
      BY <3>1, <3>2, ZenonT(60)
  <2>5. QED
    BY <2>1, <2>3, <2>4, NotAgain, ZenonT(60)
\* The messages that clients sent, and who hears them.
<1>4. ASSUME NEW c \in Client, sendMessageToChannel(c)
      PROVE  /\ messages'[Len(messages) + 1].closed = pc[c].closed
             /\ \A k \in Started(pc[c].obj) : k.h \notin pc[c].closed
  <2>1. pc[c].op = "send"
    BY <1>4, ZenonT(60) DEF sendMessageToChannel
  <2>2. pc[c].obj \in Object /\ pc[c].closed \subseteq Handler /\ pc[c].t.dir \in Direction /\ pc[c].t.dest \in Id \cup {NoId}
    BY <1>1, <2>1, PcFacts, ZenonT(60) DEF Types
  <2>3. Msg(pc[c].t.dir, pc[c].t.dest, pc[c].closed, TRUE) \in Message
    BY <2>2, ZenonT(60) DEF Msg, Message
  <2>4. messages'[Len(messages) + 1] = Msg(pc[c].t.dir, pc[c].t.dest, pc[c].closed, TRUE)
    BY <1>1, <1>4, <2>3, SentFacts, ZenonT(60) DEF sendMessageToChannel, Types
  <2>5. Msg(pc[c].t.dir, pc[c].t.dest, pc[c].closed, TRUE).closed = pc[c].closed
    BY ZenonT(60) DEF Msg
  <2>6. \A k \in Started(pc[c].obj) : k.h \in subscribed[pc[c].obj]
    BY <1>1, <2>2, StartedFacts, ZenonT(60) DEF Types
  <2>7. QED
    BY <2>1, <2>4, <2>5, <2>6, ZenonT(60) DEF Unheard
<1>5. ASSUME NEW h \in Handler, Len(messages') > Len(messages), ~\E c \in Client : sendMessageToChannel(c)
      PROVE  ~messages'[Len(messages) + 1].client
  <2>1. ASSUME NEW m \in Message, messages' = Append(messages, m), m.client = FALSE
        PROVE  ~messages'[Len(messages) + 1].client
    BY <1>1, <2>1, SentFacts, ZenonT(60) DEF Types
  <2>2. closed \subseteq Handler
    BY <1>1, ZenonT(60) DEF Types, Records, Tables
  <2>3. ASSUME NEW dir \in Direction, NEW dest \in Id \cup {NoId}
        PROVE  Msg(dir, dest, closed, FALSE) \in Message /\ Msg(dir, dest, closed, FALSE).client = FALSE
    BY <2>2, ZenonT(60) DEF Msg, Message
  <2>4. ASSUME NEW c \in Client, NEW k \in Handler, Fire(c, k)
        PROVE  ~messages'[Len(messages) + 1].client
    <3>1. "request" \in Direction /\ Dest[k] \in Id \cup {NoId}
      BY EventBusAssumption, ZenonT(60) DEF Direction
    <3>2. messages' = Append(messages, Msg("request", Dest[k], closed, FALSE))
      BY <2>4, ZenonT(60) DEF Fire
    <3>3. QED
      BY <2>1, <2>3, <3>1, <3>2, ZenonT(60)
  <2>5. ASSUME NEW g \in goroutines, ReplyInFunction(g)
        PROVE  ~messages'[Len(messages) + 1].client
    <3>1. messages[g.msg] \in Message
      BY <1>1, DeliveryFacts, ZenonT(60) DEF Types
    <3>2. "response" \in Direction /\ messages[g.msg].dest \in Id \cup {NoId}
      BY <3>1, ZenonT(60) DEF Direction, Message
    <3>3. messages' = Append(messages, Msg("response", messages[g.msg].dest, closed, FALSE))
      BY <2>5, ZenonT(60) DEF ReplyInFunction
    <3>4. QED
      BY <2>1, <2>3, <3>2, <3>3, ZenonT(60)
  <2>6. CASE UNCHANGED messages
    BY <1>2, <1>5, <2>6, SMTT(60)
  <2>7. QED
    BY <1>5, <2>4, <2>5, <2>6, Steps, ZenonT(60)
       DEF vars, history, CreateChannel, DestroyChannel, SendMessage, MakeHandler, Handle, Close,
           SubscribeChannelHandler, HandleReturns, UnsubscribeChannelHandler, FireReturns,
           SkipFunction, CallFunction, ReturnFromFunction, LookUpInFunction,
           CloseInFunction, LookUpAfterOnce, UnsubscribeAfterOnce, NilSubscriptionId
<1>6. ASSUME NEW g \in goroutines'
      PROVE  messages'[g.msg].client => g.h \notin messages'[g.msg].closed
  <2>1. g.msg \in 1 .. Len(messages') /\ g.h \in Handler
    BY ZenonT(60) DEF Types, Deliveries, Delivery
  <2>2. CASE g \in goroutines
    <3>1. g.msg \in 1 .. Len(messages)
      BY <1>1, <2>2, DeliveryFacts, ZenonT(60) DEF Types
    <3>2. QED
      BY <1>2, <2>2, <3>1, ZenonT(60) DEF Unheard
  <2>3. CASE \E k \in goroutines : g.h = k.h /\ g.msg = k.msg
    <3>1. PICK k \in goroutines : g.h = k.h /\ g.msg = k.msg
      BY <2>3, ZenonT(60)
    <3>2. k.msg \in 1 .. Len(messages)
      BY <1>1, DeliveryFacts, ZenonT(60) DEF Types
    <3>3. QED
      BY <1>2, <3>1, <3>2, ZenonT(60) DEF Unheard
  <2>4. CASE \E o \in Object : g \in Started(o)
    <3>1. g.msg = Len(messages) + 1
      BY <1>1, <2>4, StartedFacts, ZenonT(60) DEF Types
    <3>2. CASE \E c \in Client : sendMessageToChannel(c)
      <4>1. PICK c \in Client : sendMessageToChannel(c)
        BY <3>2, ZenonT(60)
      <4>2. g \in goroutines \/ g \in Started(pc[c].obj)
        BY <4>1, ZenonT(60) DEF sendMessageToChannel
      <4>3. QED
        BY <1>4, <2>2, <3>1, <4>1, <4>2, ZenonT(60)
    <3>3. CASE ~\E c \in Client : sendMessageToChannel(c)
      <4>1. Len(messages') > Len(messages)
        BY <1>2, <2>1, <3>1, SMTT(60)
      <4>2. QED
        BY <1>5, <2>1, <3>1, <3>3, <4>1, ZenonT(60)
    <3>4. QED
      BY <3>2, <3>3, ZenonT(60)
  <2>5. QED
    BY <1>1, <2>2, <2>3, <2>4, Descent, ZenonT(60)
<1>7. ASSUME NEW h \in Handler, NEW i \in 1 .. Len(messages'), <<h, i>> \in invoked', messages'[i].client
      PROVE  h \notin messages'[i].closed
  <2>1. CASE <<h, i>> \in invoked
    <3>1. i \in 1 .. Len(messages)
      BY <1>1, <2>1, ZenonT(60) DEF Types, Records
    <3>2. QED
      BY <1>2, <1>7, <2>1, <3>1, ZenonT(60) DEF Unheard
  <2>2. ASSUME NEW g \in goroutines, CallFunction(g), <<h, i>> \notin invoked
        PROVE  h \notin messages'[i].closed
    <3>1. <<h, i>> = <<g.h, g.msg>>
      BY <1>7, <2>2, ZenonT(60) DEF CallFunction
    <3>2. h = g.h /\ i = g.msg
      BY <3>1, ZenonT(60)
    <3>3. i \in 1 .. Len(messages)
      BY <1>1, <3>2, DeliveryFacts, ZenonT(60) DEF Types
    <3>4. QED
      BY <1>2, <1>7, <3>2, <3>3, ZenonT(60) DEF Unheard
  <2>3. <<h, i>> \in invoked \/ \E g \in goroutines : CallFunction(g)
    BY <1>7, Steps, ZenonT(60)
       DEF vars, history, CreateChannel, DestroyChannel, SendMessage, MakeHandler, Handle, Close, Fire,
           sendMessageToChannel, SubscribeChannelHandler, HandleReturns, UnsubscribeChannelHandler, FireReturns,
           SkipFunction, ReturnFromFunction, LookUpInFunction, ReplyInFunction,
           CloseInFunction, LookUpAfterOnce, UnsubscribeAfterOnce, NilSubscriptionId
  <2>4. QED
    BY <2>1, <2>2, <2>3, ZenonT(60)
<1>8. QED
  BY <1>3, <1>6, <1>7, ZenonT(60) DEF Unheard

(* Closed handlers are silent: the invariant. *)
LEMMA SilenceInvariant == Spec => []Silence
<1>1. Init => Silence
  BY SMTT(60) DEF Init, Silence, IdLast, Leaves, Unheard, InHandleOf, Idle
<1>2. IInv /\ IInv' /\ Silence /\ [Next]_vars => Silence'
  <2> SUFFICES ASSUME IInv, IInv', Silence, [Next]_vars
               PROVE  Silence'
    BY ZenonT(60)
  <2>1. Base /\ Types' /\ IdLast /\ Leaves /\ Unheard
    BY ZenonT(60) DEF IInv, Base, Silence
  <2>2. QED
    BY <2>1, IdLastKept, LeavesKept, UnheardKept, ZenonT(60) DEF Silence
<1>3. QED
  BY <1>1, <1>2, Invariance, PTL DEF Spec

(* A message that a client began to send after Close had returned does not run the closed
   handler, also when Close ran in the handler's own callback, and whatever names are
   destroyed and created meanwhile. *)
THEOREM ClosedStaysSilent == Spec => []ClosedIsSilent
<1>1. IInv /\ Silence => ClosedIsSilent
  <2> SUFFICES ASSUME IInv, Silence, NEW h \in Handler, NEW i \in InvokedBy(h), messages[i].client
               PROVE  h \notin messages[i].closed
    BY ZenonT(60) DEF ClosedIsSilent
  <2>1. i \in 1 .. Len(messages) /\ <<h, i>> \in invoked
    BY SMTT(60) DEF InvokedBy, IInv, Base, Types, Deliveries
  <2>2. QED
    BY <2>1, ZenonT(60) DEF Silence, Unheard
<1>2. QED
  BY <1>1, Invariance, SilenceInvariant, PTL
=============================================================================
