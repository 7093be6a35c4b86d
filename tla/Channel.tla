------------------------------ MODULE Channel ------------------------------
(***************************************************************************)
(* One Channel object of bus/channel.go: the slice of event handlers       *)
(* guarded by channelLock, the loop of Send over a copy of that slice, the *)
(* goroutine sendMessageToHandler started for each handler, and the        *)
(* WaitGroup that Fire and WaitForChannel wait on.                         *)
(*                                                                         *)
(* Send keeps channelLock for its whole loop, so subscribeHandler and      *)
(* unsubscribeHandler wait for it; the goroutines it starts take no lock   *)
(* and run between two iterations as well as afterwards.                   *)
(***************************************************************************)
EXTENDS Integers, Sequences, FiniteSets

CONSTANTS
  Handler,  \* the channelEventHandlers that may be subscribed, by their uuid
  RunOnce,  \* the ones subscribed with runOnce = true
  Message,  \* the messages that may be sent, each of them at most once
  Waiter,   \* the goroutines that may call wg.Wait
  None      \* no message

ASSUME ChannelAssumption ==
  /\ RunOnce \subseteq Handler
  /\ None \notin Message
  /\ IsFiniteSet(Handler)
  /\ IsFiniteSet(Message)

VARIABLES
  eventHandlers, \* Channel.eventHandlers
  runCount,      \* channelEventHandler.runCount
  wg,            \* the counter of Channel.wg
  sending,       \* the Send that holds channelLock: its message, the copy of the slice and the next index
  goroutines,    \* the started sendMessageToHandler calls that have not ended
  waiting,       \* the deliveries that were under way when a waiter called wg.Wait
  \* What happened so far; no action reads these except to use a handler or a message once.
  joined,        \* handlers passed to subscribeHandler
  left,          \* handlers removed by unsubscribeHandler
  sent,          \* for each message, the handlers subscribed and expired when Send took the lock
  called         \* callbacks that have run

vars == <<eventHandlers, runCount, wg, sending, goroutines, waiting, joined, left, sent, called>>

Delivery == Handler \X Message
NotSending == [msg |-> None, dup |-> << >>, next |-> 1]
NotSent == [live |-> {}, expired |-> {}]
NotWaiting == [on |-> "no", for |-> {}]
Elements(seq) == {seq[i] : i \in DOMAIN seq}
LockFree == sending.msg = None

Init ==
  /\ eventHandlers = << >>
  /\ runCount = [h \in Handler |-> 0]
  /\ wg = 0
  /\ sending = NotSending
  /\ goroutines = [d \in Delivery |-> "none"]
  /\ waiting = [w \in Waiter |-> NotWaiting]
  /\ joined = {}
  /\ left = {}
  /\ sent = [m \in Message |-> NotSent]
  /\ called = {}

\* Mutant: the element after the index goes.
removeEventHandler_OffByOne(seq, index) ==
  IF index > Len(seq) THEN seq
  ELSE [i \in 1 .. Len(seq) - 1 |-> IF i <= index THEN seq[i] ELSE seq[i + 1]]

(***************************************************************************)
(* removeEventHandler: the elements after index move down by one; nothing  *)
(* happens when the index is past the end of the slice.                    *)
(***************************************************************************)
removeEventHandler(seq, index) ==
  IF index > Len(seq) THEN seq
  ELSE [i \in 1 .. Len(seq) - 1 |-> IF i < index THEN seq[i] ELSE seq[i + 1]]

subscribeHandler(h) ==
  /\ LockFree
  /\ h \notin joined
  /\ eventHandlers' = Append(eventHandlers, h)
  /\ joined' = joined \cup {h}
  /\ UNCHANGED <<runCount, wg, sending, goroutines, waiting, left, sent, called>>

\* Mutants of unsubscribeHandler: an unknown uuid is not refused; channelLock is not taken.
unsubscribeHandler_Unknown(h) ==
  /\ LockFree
  /\ eventHandlers' = SelectSeq(eventHandlers, LAMBDA g : g # h)
  /\ left' = left \cup {h}
  /\ UNCHANGED <<runCount, wg, sending, goroutines, waiting, joined, sent, called>>

unsubscribeHandler_NoLock(h) ==
  /\ h \in Elements(eventHandlers)
  /\ eventHandlers' = SelectSeq(eventHandlers, LAMBDA g : g # h)
  /\ left' = left \cup {h}
  /\ UNCHANGED <<runCount, wg, sending, goroutines, waiting, joined, sent, called>>

\* The first entry with this uuid is removed; an unknown uuid changes nothing.
unsubscribeHandler(h) ==
  /\ LockFree
  /\ h \in joined
  /\ \E i \in DOMAIN eventHandlers :
        /\ eventHandlers[i] = h
        /\ \A j \in 1 .. i - 1 : eventHandlers[j] # h
        /\ eventHandlers' = removeEventHandler(eventHandlers, i)
  /\ left' = left \cup {h}
  /\ UNCHANGED <<runCount, wg, sending, goroutines, waiting, joined, sent, called>>

\* A handler that Send has to remove instead of running it.
Expired(h) == h \in RunOnce /\ runCount[h] > 0

\* Mutant: the copy misses the last handler.
BeginSend_ShortCopy(m) ==
  /\ LockFree
  /\ sent[m] = NotSent
  /\ eventHandlers # << >>
  /\ sending' = [msg |-> m, dup |-> SubSeq(eventHandlers, 1, Len(eventHandlers) - 1), next |-> 1]
  /\ sent' = [sent EXCEPT ![m] =
                [live |-> Elements(eventHandlers), expired |-> {h \in Elements(eventHandlers) : Expired(h)}]]
  /\ UNCHANGED <<eventHandlers, runCount, wg, goroutines, waiting, joined, left, called>>

\* Send takes channelLock and copies the slice, if it is not empty.
BeginSend(m) ==
  /\ LockFree
  /\ sent[m] = NotSent
  /\ eventHandlers # << >>
  /\ sending' = [msg |-> m, dup |-> eventHandlers, next |-> 1]
  /\ sent' = [sent EXCEPT ![m] =
                [live |-> Elements(eventHandlers), expired |-> {h \in Elements(eventHandlers) : Expired(h)}]]
  /\ UNCHANGED <<eventHandlers, runCount, wg, goroutines, waiting, joined, left, called>>

\* Mutant: Send ranges over the slice itself.
DropExpired_NoCopy ==
  /\ ~LockFree
  /\ sending.next <= Len(sending.dup)
  /\ Expired(sending.dup[sending.next])
  /\ eventHandlers' = removeEventHandler(eventHandlers, sending.next)
  /\ sending' = [sending EXCEPT !.dup = eventHandlers', !.next = @ + 1]
  /\ UNCHANGED <<runCount, wg, goroutines, waiting, joined, left, sent, called>>

\* An iteration that meets an expired handler removes the entry at the index of the copy.
DropExpired ==
  /\ ~LockFree
  /\ sending.next <= Len(sending.dup)
  /\ Expired(sending.dup[sending.next])
  /\ eventHandlers' = removeEventHandler(eventHandlers, sending.next)
  /\ sending' = [sending EXCEPT !.next = @ + 1]
  /\ UNCHANGED <<runCount, wg, goroutines, waiting, joined, left, sent, called>>

\* Mutants of StartHandler: no wg.Add; runOnce is not looked at.
StartHandler_NoAdd ==
  /\ ~LockFree
  /\ sending.next <= Len(sending.dup)
  /\ ~Expired(sending.dup[sending.next])
  /\ goroutines' = [goroutines EXCEPT ![<<sending.dup[sending.next], sending.msg>>] = "started"]
  /\ sending' = [sending EXCEPT !.next = @ + 1]
  /\ UNCHANGED <<eventHandlers, runCount, wg, waiting, joined, left, sent, called>>

StartHandler_Always ==
  /\ ~LockFree
  /\ sending.next <= Len(sending.dup)
  /\ wg' = wg + 1
  /\ goroutines' = [goroutines EXCEPT ![<<sending.dup[sending.next], sending.msg>>] = "started"]
  /\ sending' = [sending EXCEPT !.next = @ + 1]
  /\ UNCHANGED <<eventHandlers, runCount, waiting, joined, left, sent, called>>

\* An iteration that starts a goroutine for the handler.
StartHandler ==
  /\ ~LockFree
  /\ sending.next <= Len(sending.dup)
  /\ ~Expired(sending.dup[sending.next])
  /\ wg' = wg + 1
  /\ goroutines' = [goroutines EXCEPT ![<<sending.dup[sending.next], sending.msg>>] = "started"]
  /\ sending' = [sending EXCEPT !.next = @ + 1]
  /\ UNCHANGED <<eventHandlers, runCount, waiting, joined, left, sent, called>>

EndSend ==
  /\ ~LockFree
  /\ sending.next > Len(sending.dup)
  /\ sending' = NotSending
  /\ UNCHANGED <<eventHandlers, runCount, wg, goroutines, waiting, joined, left, sent, called>>

\* sendMessageToHandler: the callback runs; then runCount and the WaitGroup are updated (CountRun).
RunCallback(h, m) ==
  /\ goroutines[<<h, m>>] = "started"
  /\ called' = called \cup {<<h, m>>}
  /\ goroutines' = [goroutines EXCEPT ![<<h, m>>] = "called"]
  /\ UNCHANGED <<eventHandlers, runCount, wg, sending, waiting, joined, left, sent>>

\* Mutant: no wg.Done.
CountRun_NoDone(h, m) ==
  /\ goroutines[<<h, m>>] = "called"
  /\ runCount' = [runCount EXCEPT ![h] = @ + 1]
  /\ goroutines' = [goroutines EXCEPT ![<<h, m>>] = "done"]
  /\ UNCHANGED <<eventHandlers, wg, sending, waiting, joined, left, sent, called>>

CountRun(h, m) ==
  /\ goroutines[<<h, m>>] = "called"
  /\ runCount' = [runCount EXCEPT ![h] = @ + 1]
  /\ wg' = wg - 1
  /\ goroutines' = [goroutines EXCEPT ![<<h, m>>] = "done"]
  /\ UNCHANGED <<eventHandlers, sending, waiting, joined, left, sent, called>>

Active == {d \in Delivery : goroutines[d] \in {"started", "called"}}

\* wg.Wait, called by Fire and by WaitForChannel.
BeginWait(w) ==
  /\ waiting[w].on = "no"
  /\ waiting' = [waiting EXCEPT ![w] = [on |-> "yes", for |-> Active]]
  /\ UNCHANGED <<eventHandlers, runCount, wg, sending, goroutines, joined, left, sent, called>>

EndWait(w) ==
  /\ waiting[w].on = "yes"
  /\ wg = 0
  /\ waiting' = [waiting EXCEPT ![w] = NotWaiting]
  /\ UNCHANGED <<eventHandlers, runCount, wg, sending, goroutines, joined, left, sent, called>>

Next ==
  \/ \E h \in Handler : subscribeHandler(h) \/ unsubscribeHandler(h)
  \/ \E m \in Message : BeginSend(m)
  \/ DropExpired
  \/ StartHandler
  \/ EndSend
  \/ \E h \in Handler, m \in Message : RunCallback(h, m) \/ CountRun(h, m)
  \/ \E w \in Waiter : BeginWait(w) \/ EndWait(w)

Spec == Init /\ [][Next]_vars

(***************************************************************************)
(* A Send that holds the lock and a goroutine that was started are plain   *)
(* running code: the Go scheduler lets each of them go on.  Nothing is     *)
(* assumed of the callers that subscribe, unsubscribe, send or wait.       *)
(***************************************************************************)
Fairness ==
  /\ WF_vars(DropExpired \/ StartHandler \/ EndSend)
  /\ \A h \in Handler, m \in Message : WF_vars(RunCallback(h, m) \/ CountRun(h, m))

FairSpec == Spec /\ Fairness

-----------------------------------------------------------------------------
(* The type of every variable of the channel. *)
TypeOK ==
  /\ eventHandlers \in Seq(Handler)
  /\ runCount \in [Handler -> Nat]
  /\ wg \in Int
  /\ sending \in [msg : Message \cup {None}, dup : Seq(Handler), next : Nat \ {0}]
  /\ goroutines \in [Delivery -> {"none", "started", "called", "done"}]
  /\ waiting \in [Waiter -> [on : {"yes", "no"}, for : SUBSET Delivery]]
  /\ joined \in SUBSET Handler
  /\ left \in SUBSET joined
  /\ sent \in [Message -> [live : SUBSET Handler, expired : SUBSET Handler]]
  /\ called \in SUBSET Delivery

(* The WaitGroup counts exactly the deliveries under way (wg.Add before the
   goroutine is started, wg.Done as its last step), so it never goes negative,
   which would panic. *)
WaitGroupCounts == wg = Cardinality(Active)

(* wg.Wait, and so Fire and WaitForChannel, returns only when every callback
   that was under way when it was called has run. *)
WaitCoversDeliveries ==
  [][\A w \in Waiter : waiting[w].on = "yes" /\ waiting'[w].on = "no" => waiting[w].for \subseteq called]_vars

(* "copy slice to ensure that removed handler is still fired": once Send has
   returned, every handler without runOnce that was subscribed when it took
   the lock has been started for the message, whatever was removed meanwhile. *)
EveryHandlerFired ==
  \A m \in Message : sending.msg # m =>
    \A h \in sent[m].live \ RunOnce : goroutines[<<h, m>>] # "none"

(* A runOnce handler whose run was counted before Send took the lock is not
   started again by that Send. *)
ExpiredNotFired ==
  \A m \in Message : \A h \in sent[m].expired : goroutines[<<h, m>>] = "none"

(* No delivery is ever started for a handler after unsubscribeHandler removed
   it: Send and unsubscribeHandler exclude each other by channelLock. *)
NoStartAfterLeaving ==
  [][\A h \in left, m \in Message : goroutines[<<h, m>>] = "none" => goroutines'[<<h, m>>] = "none"]_vars

(* A handler subscribed without runOnce stays subscribed until it is
   unsubscribed: "Will keep on ticking until closed." *)
StreamKeepsTicking == joined \ (left \cup RunOnce) \subseteq Elements(eventHandlers)

(* Every handler without runOnce that is subscribed when Send takes the lock
   eventually has its callback run for the message. *)
EveryHandlerCalled ==
  \A h \in Handler, m \in Message :
    (h \in sent[m].live \ RunOnce) ~> (<<h, m>> \in called)
=============================================================================
