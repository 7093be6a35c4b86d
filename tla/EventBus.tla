------------------------------ MODULE EventBus ------------------------------
(***************************************************************************)
(* The event bus of bus/eventbus.go over the channels of                   *)
(* bus/channel_manager.go: message handlers made by the Listen and Request *)
(* functions, their Handle, Close and Fire (bus/message_handler.go), the   *)
(* Send functions, and the goroutines that run the handlers' wrapper.      *)
(*                                                                         *)
(* A channel is an object; its name can be destroyed and created again,    *)
(* and then maps to another object.  Every API call that looks a name up   *)
(* uses the object it found in a later step, without the manager's lock.   *)
(* MessageHandlers are always subscribed with runOnce = false, so the      *)
(* order of a channel's handlers does not matter here and a set stands for *)
(* the slice (module Channel has the slice, and Send step by step).        *)
(***************************************************************************)
EXTENDS Integers, Sequences, FiniteSets

CONSTANTS
  Name,        \* channel names
  Handler,     \* the MessageHandlers the program makes
  Client,      \* goroutines of the program that use the bus
  Id,          \* destination ids
  NoId,        \* the nil id
  MaxObject,   \* bound: channel objects ever created
  MaxMessage,  \* bound: messages sent by clients; Fire and replies come on top
  Mode,        \* Mode[h]: the call that makes h, one of Modes
  On,          \* On[h]: the channel name passed to that call
  Dest,        \* Dest[h]: the destination id passed to it, or the one it generates
  Does,        \* Does[h]: what the user's functions passed to Handle do
  NilError,    \* handlers whose Handle is given a nil error function
  Traffic      \* what clients send: [on : Name, dir : Direction, dest : Id \cup {NoId}]

Direction == {"request", "response", "error"}
Behaviour == {"nothing", "reply", "close"}

\* What wrapMessageHandler is given; needsId: the call fails on a nil destination id.
Wrap(direction, ignoreId, allTraffic, runOnce, request, needsId) ==
  [direction |-> direction, ignoreId |-> ignoreId, allTraffic |-> allTraffic,
   runOnce |-> runOnce, request |-> request, needsId |-> needsId]

ListenStream == Wrap("response", TRUE, FALSE, FALSE, FALSE, FALSE)
ListenStreamForDestination == Wrap("response", FALSE, FALSE, FALSE, FALSE, TRUE)
ListenRequestStream == Wrap("request", TRUE, FALSE, FALSE, FALSE, FALSE)
ListenRequestStreamForDestination == Wrap("request", FALSE, FALSE, FALSE, FALSE, TRUE)
ListenRequestOnce == Wrap("request", TRUE, FALSE, TRUE, FALSE, FALSE)
ListenRequestOnceForDestination == Wrap("request", FALSE, FALSE, TRUE, FALSE, TRUE)
ListenFirehose == Wrap("request", TRUE, TRUE, FALSE, FALSE, FALSE)
ListenOnce == Wrap("response", TRUE, FALSE, TRUE, FALSE, FALSE)
ListenOnceForDestination == Wrap("response", FALSE, FALSE, TRUE, FALSE, TRUE)
RequestOnce == Wrap("response", TRUE, FALSE, TRUE, TRUE, FALSE)
RequestOnceForDestination == Wrap("response", FALSE, FALSE, TRUE, TRUE, TRUE)
RequestStream == Wrap("response", TRUE, FALSE, FALSE, TRUE, FALSE)
RequestStreamForDestination == Wrap("response", FALSE, FALSE, FALSE, TRUE, TRUE)

Modes ==
  {ListenStream, ListenStreamForDestination, ListenRequestStream, ListenRequestStreamForDestination,
   ListenRequestOnce, ListenRequestOnceForDestination, ListenFirehose, ListenOnce, ListenOnceForDestination,
   RequestOnce, RequestOnceForDestination, RequestStream, RequestStreamForDestination}

ASSUME EventBusAssumption ==
  /\ MaxObject \in Nat /\ MaxMessage \in Nat
  /\ NoId \notin Id
  /\ Mode \in [Handler -> Modes]
  /\ On \in [Handler -> Name]
  /\ Dest \in [Handler -> Id \cup {NoId}]
  /\ Does \in [Handler -> Behaviour]
  /\ NilError \subseteq Handler
  /\ Traffic \subseteq [on : Name, dir : Direction, dest : Id \cup {NoId}]

VARIABLES
  channels,       \* busChannelManager.Channels: the object a name maps to, 0 if none
  created,        \* the number of channel objects created so far
  subscribed,     \* Channel.eventHandlers of each object
  madeOn,         \* messageHandler.channel: the object found when h was made, 0 before
  subscriptionId, \* handlers whose subscriptionId is not nil
  invokeOnce,     \* messageHandler.invokeOnce
  pc,             \* what each client is in the middle of
  goroutines,     \* the sendMessageToHandler calls under way; per object they are its WaitGroup
  \* What happened so far.
  handled,        \* handlers Handle was called for
  closed,         \* handlers whose Close has returned, but for a Close that found no subscription id
  fired,          \* Fire of each handler: "no", "waiting", "returned"
  owed,           \* handlers that were subscribed, with a replier, when they were fired
  messages,       \* the messages sent, with the handlers closed before the call
  invoked         \* runs of the user's functions: handler and message

vars == <<channels, created, subscribed, madeOn, subscriptionId, invokeOnce, pc, goroutines,
          handled, closed, fired, owed, messages, invoked>>
history == <<handled, closed, fired, owed, messages, invoked>>

Object == 1 .. MaxObject
Idle == [op |-> "idle"]
Crashed == [op |-> "crashed"]

Init ==
  /\ channels = [n \in Name |-> 0]
  /\ created = 0
  /\ subscribed = [o \in Object |-> {}]
  /\ madeOn = [h \in Handler |-> 0]
  /\ subscriptionId = {}
  /\ invokeOnce = [h \in Handler |-> "unused"]
  /\ pc = [c \in Client |-> Idle]
  /\ goroutines = {}
  /\ handled = {}
  /\ closed = {}
  /\ fired = [h \in Handler |-> "no"]
  /\ owed = {}
  /\ messages = << >>
  /\ invoked = {}

-----------------------------------------------------------------------------
(* The channel manager. *)

\* An existing channel is returned as it is.
CreateChannel(c, n) ==
  /\ pc[c] = Idle
  /\ channels[n] = 0
  /\ created < MaxObject
  /\ created' = created + 1
  /\ channels' = [channels EXCEPT ![n] = created + 1]
  /\ UNCHANGED <<subscribed, madeOn, subscriptionId, invokeOnce, pc, goroutines, history>>

\* Only the entry of the map goes; the object keeps its handlers.
DestroyChannel(c, n) ==
  /\ pc[c] = Idle
  /\ channels' = [channels EXCEPT ![n] = 0]
  /\ UNCHANGED <<created, subscribed, madeOn, subscriptionId, invokeOnce, pc, goroutines, history>>

-----------------------------------------------------------------------------
(* Sending: one goroutine for each handler of the object. *)

Msg(dir, dest, closedBefore, client) ==
  [dir |-> dir, dest |-> dest, closed |-> closedBefore, client |-> client]

Started(o) ==
  {[h |-> h, msg |-> Len(messages) + 1, obj |-> o, at |-> "call", to |-> 0, hasId |-> FALSE] : h \in subscribed[o]}

ClientMessages == {i \in DOMAIN messages : messages[i].client}

\* SendRequestMessage, SendResponseMessage, SendBroadcastMessage, SendErrorMessage: an
\* unknown channel is an error and nothing is sent.
SendMessage(c, t) ==
  /\ pc[c] = Idle
  /\ Cardinality(ClientMessages) < MaxMessage
  /\ channels[t.on] # 0
  /\ pc' = [pc EXCEPT ![c] = [op |-> "send", obj |-> channels[t.on], t |-> t, closed |-> closed]]
  /\ UNCHANGED <<channels, created, subscribed, madeOn, subscriptionId, invokeOnce, goroutines, history>>

sendMessageToChannel(c) ==
  /\ pc[c].op = "send"
  /\ messages' = Append(messages, Msg(pc[c].t.dir, pc[c].t.dest, pc[c].closed, TRUE))
  /\ goroutines' = goroutines \cup Started(pc[c].obj)
  /\ pc' = [pc EXCEPT ![c] = Idle]
  /\ UNCHANGED <<channels, created, subscribed, madeOn, subscriptionId, invokeOnce,
                 handled, closed, fired, owed, invoked>>

-----------------------------------------------------------------------------
(* Message handlers. *)

\* handlerWrapper: whether a message runs one of the user's functions of h.  An error runs
\* the error function whatever its destination id; a nil function is not run.
Wanted(h, dir, dest) ==
  \/ dir = "error" /\ h \notin NilError
  \/ dir # "error" /\ Mode[h].allTraffic
  \/ /\ dir = Mode[h].direction
     /\ Mode[h].ignoreId \/ (dest # NoId /\ dest = Dest[h])

\* A Listen or Request call: the channel must exist, and the id be given where it is needed.
MakeHandler(c, h) ==
  /\ pc[c] = Idle
  /\ madeOn[h] = 0
  /\ channels[On[h]] # 0
  /\ Mode[h].needsId => Dest[h] # NoId
  /\ madeOn' = [madeOn EXCEPT ![h] = channels[On[h]]]
  /\ UNCHANGED <<channels, created, subscribed, subscriptionId, invokeOnce, pc, goroutines, history>>

\* Handle looks the name up again; its error is dropped.
Handle(c, h) ==
  /\ pc[c] = Idle
  /\ madeOn[h] # 0 /\ h \notin handled
  /\ handled' = handled \cup {h}
  /\ pc' = [pc EXCEPT ![c] = IF channels[On[h]] = 0 THEN Idle
                             ELSE [op |-> "subscribe", obj |-> channels[On[h]], h |-> h]]
  /\ UNCHANGED <<channels, created, subscribed, madeOn, subscriptionId, invokeOnce, goroutines,
                 closed, fired, owed, messages, invoked>>

SubscribeChannelHandler(c) ==
  /\ pc[c].op = "subscribe"
  /\ subscribed' = [subscribed EXCEPT ![pc[c].obj] = @ \cup {pc[c].h}]
  /\ pc' = [pc EXCEPT ![c].op = "assign"]
  /\ UNCHANGED <<channels, created, madeOn, subscriptionId, invokeOnce, goroutines, history>>

\* The subscription id reaches the handler only when SubscribeChannelHandler has returned.
HandleReturns(c) ==
  /\ pc[c].op = "assign"
  /\ subscriptionId' = subscriptionId \cup {pc[c].h}
  /\ pc' = [pc EXCEPT ![c] = Idle]
  /\ UNCHANGED <<channels, created, subscribed, madeOn, invokeOnce, goroutines, history>>

\* Mutant: a nil subscription id is not looked for.
Close_NilId(c, h) ==
  /\ pc[c] = Idle
  /\ h \notin closed
  /\ channels[On[h]] # 0
  /\ pc' = [pc EXCEPT ![c] = [op |-> "close", obj |-> channels[On[h]], h |-> h]]
  /\ UNCHANGED <<channels, created, subscribed, madeOn, subscriptionId, invokeOnce, goroutines, history>>

\* Close: nothing without a subscription id; the name is looked up, an error is dropped.
Close(c, h) ==
  /\ pc[c] = Idle
  /\ h \in subscriptionId \ closed
  /\ IF channels[On[h]] = 0
     THEN closed' = closed \cup {h} /\ UNCHANGED pc
     ELSE /\ pc' = [pc EXCEPT ![c] = [op |-> "close", obj |-> channels[On[h]], h |-> h]]
          /\ UNCHANGED closed
  /\ UNCHANGED <<channels, created, subscribed, madeOn, subscriptionId, invokeOnce, goroutines,
                 handled, fired, owed, messages, invoked>>

\* Mutant: the handler stays in the channel.
UnsubscribeChannelHandler_Keeps(c) ==
  /\ pc[c].op = "close"
  /\ closed' = closed \cup {pc[c].h}
  /\ pc' = [pc EXCEPT ![c] = Idle]
  /\ UNCHANGED <<channels, created, subscribed, madeOn, subscriptionId, invokeOnce, goroutines,
                 handled, fired, owed, messages, invoked>>

UnsubscribeChannelHandler(c) ==
  /\ pc[c].op = "close"
  /\ subscribed' = [subscribed EXCEPT ![pc[c].obj] = @ \ {pc[c].h}]
  /\ closed' = closed \cup {pc[c].h}
  /\ pc' = [pc EXCEPT ![c] = Idle]
  /\ UNCHANGED <<channels, created, madeOn, subscriptionId, invokeOnce, goroutines,
                 handled, fired, owed, messages, invoked>>

\* A handler that answers every request like that of h.
Replies(r, h) ==
  Does[r] = "reply" /\ ~Mode[r].runOnce /\ Wanted(r, "request", Dest[h])

InHandle(h) == \E c \in Client : pc[c].op \in {"subscribe", "assign"} /\ pc[c].h = h

\* Fire sends on the object found when h was made, whatever the name maps to by now.  The
\* program calls it after Handle.
Fire(c, h) ==
  /\ pc[c] = Idle
  /\ h \in handled /\ ~InHandle(h)
  /\ Mode[h].request /\ fired[h] = "no"
  /\ messages' = Append(messages, Msg("request", Dest[h], closed, FALSE))
  /\ goroutines' = goroutines \cup Started(madeOn[h])
  /\ pc' = [pc EXCEPT ![c] = [op |-> "wait", obj |-> madeOn[h], h |-> h]]
  /\ fired' = [fired EXCEPT ![h] = "waiting"]
  /\ owed' = owed \cup {q \in {h} : q \in subscribed[madeOn[h]] /\ \E r \in subscribed[madeOn[h]] : Replies(r, h)}
  /\ UNCHANGED <<channels, created, subscribed, madeOn, subscriptionId, invokeOnce,
                 handled, closed, invoked>>

\* Mutant: Fire does not wait.
FireReturns_NoWait(c) ==
  /\ pc[c].op = "wait"
  /\ fired' = [fired EXCEPT ![pc[c].h] = "returned"]
  /\ pc' = [pc EXCEPT ![c] = Idle]
  /\ UNCHANGED <<channels, created, subscribed, madeOn, subscriptionId, invokeOnce, goroutines,
                 handled, closed, owed, messages, invoked>>

\* channel.wg.Wait returns when no delivery on the object is under way.
FireReturns(c) ==
  /\ pc[c].op = "wait"
  /\ \A g \in goroutines : g.obj # pc[c].obj
  /\ fired' = [fired EXCEPT ![pc[c].h] = "returned"]
  /\ pc' = [pc EXCEPT ![c] = Idle]
  /\ UNCHANGED <<channels, created, subscribed, madeOn, subscriptionId, invokeOnce, goroutines,
                 handled, closed, owed, messages, invoked>>

-----------------------------------------------------------------------------
(* sendMessageToHandler: the steps of a goroutine g.  It ends, with wg.Done, when it leaves
   the set. *)

\* After the user's function: a once handler goes on to unsubscribe itself.
AfterFunction(g) == IF Mode[g.h].runOnce THEN {[g EXCEPT !.at = "unsubscribe", !.to = 0]} ELSE {}

\* Mutant: the goroutine of a message that is not wanted does not end with wg.Done.
SkipFunction_NotDone(g) ==
  /\ g.at = "call"
  /\ Mode[g.h].runOnce /\ invokeOnce[g.h] = "done"
  /\ goroutines' = goroutines \ {g}
  /\ UNCHANGED <<channels, created, subscribed, madeOn, subscriptionId, invokeOnce, pc, history>>

\* The wrapper calls no function: not wanted, or the Once has been used up.
SkipFunction(g) ==
  /\ g.at = "call"
  /\ \/ ~Wanted(g.h, messages[g.msg].dir, messages[g.msg].dest)
     \/ Mode[g.h].runOnce /\ invokeOnce[g.h] = "done"
  /\ goroutines' = goroutines \ {g}
  /\ UNCHANGED <<channels, created, subscribed, madeOn, subscriptionId, invokeOnce, pc, history>>

\* Mutant: a plain call in place of invokeOnce.Do.
CallFunction_NoOnce(g) ==
  /\ g.at = "call"
  /\ Wanted(g.h, messages[g.msg].dir, messages[g.msg].dest)
  /\ invoked' = invoked \cup {<<g.h, g.msg>>}
  /\ goroutines' = (goroutines \ {g}) \cup {[g EXCEPT !.at = "function"]}
  /\ UNCHANGED <<channels, created, subscribed, madeOn, subscriptionId, invokeOnce, pc,
                 handled, closed, fired, owed, messages>>

\* The wrapper calls the user's function; invokeOnce.Do blocks while another call runs.
CallFunction(g) ==
  /\ g.at = "call"
  /\ Wanted(g.h, messages[g.msg].dir, messages[g.msg].dest)
  /\ Mode[g.h].runOnce => invokeOnce[g.h] = "unused"
  /\ invokeOnce' = [invokeOnce EXCEPT ![g.h] = IF Mode[g.h].runOnce THEN "running" ELSE @]
  /\ invoked' = invoked \cup {<<g.h, g.msg>>}
  /\ goroutines' = (goroutines \ {g}) \cup {[g EXCEPT !.at = "function"]}
  /\ UNCHANGED <<channels, created, subscribed, madeOn, subscriptionId, pc,
                 handled, closed, fired, owed, messages>>

\* The user's function calls nothing of the bus, or a call of it fails at once: a reply on
\* an unknown channel, a Close without a subscription id or channel.
ReturnFromFunction(g) ==
  /\ g.at = "function"
  /\ \/ Does[g.h] = "nothing"
     \/ Does[g.h] = "reply" /\ (messages[g.msg].dir # "request" \/ channels[On[g.h]] = 0)
     \/ Does[g.h] = "close" /\ (g.h \notin subscriptionId \/ channels[On[g.h]] = 0)
  /\ closed' = closed \cup {h \in {g.h} : Does[h] = "close" /\ h \in subscriptionId}
  /\ goroutines' = (goroutines \ {g}) \cup AfterFunction(g)
  /\ UNCHANGED <<channels, created, subscribed, madeOn, subscriptionId, invokeOnce, pc,
                 handled, fired, owed, messages, invoked>>

\* The user's function looks its channel up, to reply to a request or to close its handler.
LookUpInFunction(g) ==
  /\ g.at = "function"
  /\ \/ Does[g.h] = "reply" /\ messages[g.msg].dir = "request"
     \/ Does[g.h] = "close" /\ g.h \in subscriptionId
  /\ channels[On[g.h]] # 0
  /\ goroutines' = (goroutines \ {g}) \cup {[g EXCEPT !.at = Does[g.h], !.to = channels[On[g.h]]]}
  /\ UNCHANGED <<channels, created, subscribed, madeOn, subscriptionId, invokeOnce, pc, history>>

ReplyInFunction(g) ==
  /\ g.at = "reply"
  /\ messages' = Append(messages, Msg("response", messages[g.msg].dest, closed, FALSE))
  /\ goroutines' = (goroutines \ {g}) \cup AfterFunction(g) \cup Started(g.to)
  /\ UNCHANGED <<channels, created, subscribed, madeOn, subscriptionId, invokeOnce, pc,
                 handled, closed, fired, owed, invoked>>

CloseInFunction(g) ==
  /\ g.at = "close"
  /\ subscribed' = [subscribed EXCEPT ![g.to] = @ \ {g.h}]
  /\ closed' = closed \cup {g.h}
  /\ goroutines' = (goroutines \ {g}) \cup AfterFunction(g)
  /\ UNCHANGED <<channels, created, madeOn, subscriptionId, invokeOnce, pc,
                 handled, fired, owed, messages, invoked>>

\* The once handler's UnsubscribeChannelHandler reads the subscription id and looks the name up.
LookUpAfterOnce(g) ==
  /\ g.at = "unsubscribe" /\ g.to = 0
  /\ IF channels[On[g.h]] = 0
     THEN /\ goroutines' = goroutines \ {g}
          /\ invokeOnce' = [invokeOnce EXCEPT ![g.h] = "done"]
     ELSE /\ goroutines' = (goroutines \ {g}) \cup
                            {[g EXCEPT !.to = channels[On[g.h]], !.hasId = g.h \in subscriptionId]}
          /\ UNCHANGED invokeOnce
  /\ UNCHANGED <<channels, created, subscribed, madeOn, subscriptionId, pc, history>>

\* Mutant: the once handler does not unsubscribe.
UnsubscribeAfterOnce_Keeps(g) ==
  /\ g.at = "unsubscribe" /\ g.to # 0
  /\ invokeOnce' = [invokeOnce EXCEPT ![g.h] = "done"]
  /\ goroutines' = goroutines \ {g}
  /\ UNCHANGED <<channels, created, subscribed, madeOn, subscriptionId, pc, history>>

UnsubscribeAfterOnce(g) ==
  /\ g.at = "unsubscribe" /\ g.to # 0
  /\ g.hasId \/ subscribed[g.to] = {}
  /\ subscribed' = [subscribed EXCEPT ![g.to] = @ \ {g.h}]
  /\ invokeOnce' = [invokeOnce EXCEPT ![g.h] = "done"]
  /\ goroutines' = goroutines \ {g}
  /\ UNCHANGED <<channels, created, madeOn, subscriptionId, pc, history>>

\* Comparing a handler's uuid with a nil id dereferences it: the process ends.
NilSubscriptionId(g) ==
  /\ g.at = "unsubscribe" /\ g.to # 0
  /\ ~g.hasId /\ subscribed[g.to] # {}
  /\ goroutines' = {}
  /\ pc' = [c \in Client |-> Crashed]
  /\ UNCHANGED <<channels, created, subscribed, madeOn, subscriptionId, invokeOnce, history>>

Goroutine(g) ==
  \/ SkipFunction(g) \/ CallFunction(g) \/ ReturnFromFunction(g) \/ LookUpInFunction(g)
  \/ ReplyInFunction(g) \/ CloseInFunction(g)
  \/ LookUpAfterOnce(g) \/ UnsubscribeAfterOnce(g) \/ NilSubscriptionId(g)

\* A process that ended does nothing more.
Ended == (\E c \in Client : pc[c] = Crashed) /\ UNCHANGED vars

CallStep(c) ==
  \/ sendMessageToChannel(c) \/ SubscribeChannelHandler(c) \/ HandleReturns(c)
  \/ UnsubscribeChannelHandler(c) \/ FireReturns(c)

Next ==
  \/ \E c \in Client, n \in Name : CreateChannel(c, n) \/ DestroyChannel(c, n)
  \/ \E c \in Client, t \in Traffic : SendMessage(c, t)
  \/ \E c \in Client, h \in Handler : MakeHandler(c, h) \/ Handle(c, h) \/ Close(c, h) \/ Fire(c, h)
  \/ \E c \in Client : CallStep(c)
  \/ \E g \in goroutines : Goroutine(g)
  \/ Ended

Spec == Init /\ [][Next]_vars

(***************************************************************************)
(* Goroutines that were started and calls that are under way are running   *)
(* code and go on; the calls a client makes next are its own choice.       *)
(***************************************************************************)
Fairness ==
  /\ WF_vars(\E g \in goroutines : Goroutine(g))
  /\ \A c \in Client : WF_vars(CallStep(c))

FairSpec == Spec /\ Fairness

-----------------------------------------------------------------------------
InvokedBy(h) == {i \in DOMAIN messages : <<h, i>> \in invoked}
Running(h) == \E g \in goroutines : g.h = h

PcType(p) ==
  \/ p \in {Idle, Crashed}
  \/ p.op = "send" /\ p \in [op : {"send"}, obj : Object, t : Traffic, closed : SUBSET Handler]
  \/ p.op \in {"subscribe", "assign", "close", "wait"} /\ p \in [op : {"subscribe", "assign", "close", "wait"}, obj : Object, h : Handler]

(* The type of every variable of the bus. *)
TypeOK ==
  /\ channels \in [Name -> 0 .. MaxObject]
  /\ created \in 0 .. MaxObject
  /\ subscribed \in [Object -> SUBSET Handler]
  /\ madeOn \in [Handler -> 0 .. MaxObject]
  /\ subscriptionId \in SUBSET handled
  /\ invokeOnce \in [Handler -> {"unused", "running", "done"}]
  /\ \A c \in Client : PcType(pc[c])
  /\ goroutines \subseteq [h : Handler, msg : DOMAIN messages, obj : Object, to : 0 .. MaxObject, hasId : BOOLEAN,
                           at : {"call", "function", "reply", "close", "unsubscribe"}]
  /\ handled \in SUBSET Handler
  /\ closed \in SUBSET handled
  /\ fired \in [Handler -> {"no", "waiting", "returned"}]
  /\ owed \in SUBSET Handler
  /\ messages \in Seq([dir : Direction, dest : Id \cup {NoId}, closed : SUBSET Handler, client : BOOLEAN])
  /\ invoked \in SUBSET (handled \X DOMAIN messages)

(* A handler made by one of the Once calls runs the user's functions for one
   message at most, however many messages reach its wrapper concurrently: the
   sync.Once of wrapMessageHandler. *)
OnceInvokedOnce == \A h \in Handler : Mode[h].runOnce => Cardinality(InvokedBy(h)) <= 1

(* "Will listen for a single ResponseDir message on the Channel before
   un-subscribing automatically": when a once handler has run and none of its
   goroutines is left, the channel it listened on no longer has it. *)
OnceUnsubscribes ==
  \A h \in Handler :
    Mode[h].runOnce /\ InvokedBy(h) # {} /\ ~Running(h) /\ channels[On[h]] # 0
      => h \notin subscribed[channels[On[h]]]

(* Fire returns only after the replies: if a replier and the handler itself were
   subscribed when the request was sent, the handler has run by the time Fire
   returns, because a reply is sent from inside a delivery the WaitGroup still
   counts.  A handler closed or a channel destroyed in between is excepted. *)
FireWaitsForReplies ==
  \A h \in owed :
    fired[h] = "returned" /\ h \notin closed /\ channels[On[h]] = madeOn[h] => InvokedBy(h) # {}

(* "handler.close() // this will close the stream": a message that a client
   began to send after Close had returned does not run the handler, whether a
   client or the handler's own callback called Close, once Handle has returned.
   It is about messages sent by channel name: Fire sends on the object it was
   made with, which after DestroyChannel is no longer the one Close looks up,
   and so may a reply whose channel was looked up before. *)
ClosedIsSilent ==
  \A h \in Handler : \A i \in InvokedBy(h) : messages[i].client => h \notin messages[i].closed

(* Every Fire comes to its end: no cycle of waits between the WaitGroup, the
   Once of a handler and the goroutines that reply. *)
FireReturnsEventually ==
  \A h \in Handler : fired[h] = "waiting" ~> (fired[h] = "returned")
=============================================================================
