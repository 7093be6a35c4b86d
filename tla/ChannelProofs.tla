--------------------------- MODULE ChannelProofs ---------------------------
(***************************************************************************)
(* Proofs about Channel, for any handlers, messages and waiters.           *)
(*                                                                         *)
(* The properties of a message after its Send hold because of what the     *)
(* loop has done up to its index (Copy): the copy has no duplicates and    *)
(* nobody in it has left, the handlers before the index are started and    *)
(* the ones from the index on are not.  The WaitGroup counts because a     *)
(* delivery is started only once (Copy, Unsent), and a wait covers what it *)
(* waits for because a delivery that was started can only end by running   *)
(* its callback (Waits, Calls).                                            *)
(***************************************************************************)
EXTENDS Channel, FiniteSetTheorems, TLAPS

Distinct(seq) == \A i, j \in DOMAIN seq : seq[i] = seq[j] => i = j

Slice == Distinct(eventHandlers) /\ Elements(eventHandlers) \subseteq joined \ left

Copy ==
  ~LockFree =>
    /\ sent[sending.msg].live = Elements(sending.dup) /\ sent[sending.msg] # NotSent
    /\ Distinct(sending.dup)
    /\ Elements(sending.dup) \cap left = {}
    /\ \A i \in DOMAIN sending.dup :
         IF i < sending.next
         THEN sending.dup[i] \in RunOnce \/ goroutines[<<sending.dup[i], sending.msg>>] # "none"
         ELSE goroutines[<<sending.dup[i], sending.msg>>] = "none"

Unsent == \A h \in Handler, m \in Message : sent[m] = NotSent => goroutines[<<h, m>>] = "none"

Counted == \A m \in Message : \A h \in sent[m].expired : Expired(h)

Calls == \A d \in Delivery : goroutines[d] \in {"called", "done"} => d \in called

Waits == \A w \in Waiter : \A d \in waiting[w].for : goroutines[d] # "none"

IInv ==
  /\ TypeOK /\ Slice /\ Copy /\ Unsent /\ Counted /\ Calls /\ Waits
  /\ WaitGroupCounts /\ EveryHandlerFired /\ ExpiredNotFired

-----------------------------------------------------------------------------
(* append on the slice of handlers: one more element, no duplicate if it is new. *)
LEMMA AppendFacts ==
  ASSUME NEW S, NEW seq \in Seq(S), NEW x \in S
  PROVE  /\ Append(seq, x) \in Seq(S)
         /\ Elements(Append(seq, x)) = Elements(seq) \cup {x}
         /\ Distinct(seq) /\ x \notin Elements(seq) => Distinct(Append(seq, x))
<1> DEFINE r == Append(seq, x)
<1>1. /\ r \in Seq(S) /\ Len(seq) \in Nat
      /\ DOMAIN seq = 1 .. Len(seq) /\ DOMAIN r = 1 .. Len(seq) + 1
      /\ \A i \in 1 .. Len(seq) : r[i] = seq[i]
      /\ r[Len(seq) + 1] = x
  BY SMTT(60)
<1> HIDE DEF r
<1>2. DOMAIN r = DOMAIN seq \cup {Len(seq) + 1}
  BY <1>1, SMTT(60)
<1>3. Elements(r) = Elements(seq) \cup {x}
  BY <1>1, <1>2, SMTT(60) DEF Elements
<1>4. Distinct(seq) /\ x \notin Elements(seq) => Distinct(r)
  BY <1>1, <1>2, ZenonT(60) DEF Distinct, Elements
<1>5. QED
  BY <1>1, <1>3, <1>4, ZenonT(60) DEF r

(* removeEventHandler removes at most the entry at the index. *)
LEMMA RemoveFacts ==
  ASSUME NEW S, NEW seq \in Seq(S), NEW n \in Nat \ {0}, Distinct(seq)
  PROVE  /\ removeEventHandler(seq, n) \in Seq(S)
         /\ Distinct(removeEventHandler(seq, n))
         /\ Elements(removeEventHandler(seq, n)) \subseteq Elements(seq)
         /\ n \in DOMAIN seq => Elements(removeEventHandler(seq, n)) = Elements(seq) \ {seq[n]}
<1> DEFINE r == removeEventHandler(seq, n)
<1>1. CASE n > Len(seq)
  BY <1>1, SMTT(60) DEF removeEventHandler
<1>2. CASE n <= Len(seq)
  <2> DEFINE from(i) == IF i < n THEN i ELSE i + 1
  <2>1. Len(seq) \in Nat /\ DOMAIN seq = 1 .. Len(seq) /\ n \in DOMAIN seq /\ Len(seq) - 1 \in Nat
    BY <1>2, SMTT(60)
  <2>2. r = [i \in 1 .. Len(seq) - 1 |-> IF i < n THEN seq[i] ELSE seq[i + 1]]
    BY <1>2, <2>1, SMTT(60) DEF removeEventHandler
  <2>3. DOMAIN r = 1 .. Len(seq) - 1 /\ \A i \in DOMAIN r : from(i) \in DOMAIN seq /\ from(i) # n /\ r[i] = seq[from(i)]
    BY <2>1, <2>2, SMTT(60)
  <2>4. r \in Seq(S)
    <3>1. \A i \in 1 .. Len(seq) - 1 : r[i] \in S
      BY <2>1, <2>3, SMTT(60)
    <3>2. r \in [1 .. Len(seq) - 1 -> S]
      BY <2>2, <3>1, ZenonT(60)
    <3>3. QED
      BY <2>1, <3>2, SMTT(60)
  <2>5. \A i, j \in DOMAIN r : from(i) = from(j) => i = j
    BY <2>1, <2>3, SMTT(60)
  <2>6. Distinct(r)
    BY <2>3, <2>5, ZenonT(60) DEF Distinct
  <2>7. \A k \in DOMAIN seq \ {n} : \E i \in DOMAIN r : from(i) = k
    <3> TAKE k \in DOMAIN seq \ {n}
    <3>1. CASE k < n
      BY <2>1, <2>3, <3>1, SMTT(60)
    <3>2. CASE k > n
      <4>1. k - 1 \in DOMAIN r /\ from(k - 1) = k
        BY <2>1, <2>3, <3>2, SMTT(60)
      <4>2. QED
        BY <4>1, ZenonT(60)
    <3>3. QED
      BY <2>1, <3>1, <3>2, SMTT(60)
  <2> HIDE DEF r, from
  <2>8. Elements(r) = Elements(seq) \ {seq[n]}
    BY <2>1, <2>3, <2>7, SMTT(60) DEF Elements, Distinct
  <2>9. QED
    BY <2>1, <2>4, <2>6, <2>8, ZenonT(60) DEF r, Elements
<1>3. QED
  BY <1>1, <1>2, SMTT(60)

-----------------------------------------------------------------------------
(* The deliveries under way are finitely many. *)
LEMMA ActiveFinite == IsFiniteSet(Active)
<1>1. IsFiniteSet(Delivery)
  BY ChannelAssumption, FS_Product, ZenonT(60) DEF ChannelAssumption, Delivery
<1>2. QED
  BY <1>1, FS_Subset, ZenonT(60) DEF Active

(* IInv holds initially. *)
LEMMA InitIInv == Init => IInv
<1> SUFFICES ASSUME Init PROVE IInv
  BY ZenonT(60)
<1> USE ChannelAssumption DEF ChannelAssumption, Init
<1>1. TypeOK
  BY SMTT(60) DEF TypeOK, NotSending, NotSent, NotWaiting
<1>2. Slice
  BY SMTT(60) DEF Slice, Distinct, Elements
<1>3. Copy /\ Unsent /\ Counted /\ EveryHandlerFired /\ ExpiredNotFired
  BY ZenonT(60) DEF Copy, Unsent, Counted, EveryHandlerFired, ExpiredNotFired, LockFree, NotSending, NotSent, Delivery
<1>4. Calls /\ Waits
  BY ZenonT(60) DEF Calls, Waits, NotWaiting
<1>5. WaitGroupCounts
  <2>1. Active = {}
    BY ZenonT(60) DEF Active
  <2>2. QED
    BY <2>1, FS_EmptySet, ZenonT(60) DEF WaitGroupCounts
<1>6. QED
  BY <1>1, <1>2, <1>3, <1>4, <1>5, ZenonT(60) DEF IInv

(* Subscribing a handler preserves IInv. *)
LEMMA SubscribeIInv ==
  ASSUME IInv, NEW h \in Handler, subscribeHandler(h)
  PROVE  IInv'
<1> USE DEF IInv
<1>1. /\ LockFree /\ h \notin joined /\ eventHandlers' = Append(eventHandlers, h) /\ joined' = joined \cup {h}
      /\ UNCHANGED <<runCount, wg, sending, goroutines, waiting, left, sent, called>>
  BY ZenonT(60) DEF subscribeHandler
<1>2. /\ eventHandlers' \in Seq(Handler) /\ Elements(eventHandlers') = Elements(eventHandlers) \cup {h}
      /\ h \notin Elements(eventHandlers) => Distinct(eventHandlers')
  BY <1>1, AppendFacts, SMTT(60) DEF TypeOK, Slice
<1>3. TypeOK' /\ Slice'
  BY <1>1, <1>2, ZenonT(60) DEF TypeOK, Slice
<1>4. Copy' /\ Unsent' /\ Counted' /\ Calls' /\ Waits' /\ WaitGroupCounts' /\ EveryHandlerFired' /\ ExpiredNotFired'
  BY <1>1, ZenonT(60) DEF Copy, Unsent, Counted, Calls, Waits, WaitGroupCounts, EveryHandlerFired, ExpiredNotFired, LockFree,
     Expired, Active
<1>5. QED
  BY <1>3, <1>4, ZenonT(60)

(* Unsubscribing a handler preserves IInv. *)
LEMMA UnsubscribeIInv ==
  ASSUME IInv, NEW h \in Handler, unsubscribeHandler(h)
  PROVE  IInv'
<1> USE DEF IInv
<1>1. /\ LockFree /\ h \in joined /\ left' = left \cup {h}
      /\ UNCHANGED <<runCount, wg, sending, goroutines, waiting, joined, sent, called>>
  BY ZenonT(60) DEF unsubscribeHandler
<1>2. PICK i \in DOMAIN eventHandlers :
        eventHandlers[i] = h /\ eventHandlers' = removeEventHandler(eventHandlers, i)
  BY ZenonT(60) DEF unsubscribeHandler
<1>3. i \in Nat \ {0}
  BY SMTT(60) DEF TypeOK
<1>4. /\ eventHandlers' \in Seq(Handler) /\ Distinct(eventHandlers')
      /\ Elements(eventHandlers') = Elements(eventHandlers) \ {h}
  <2>1. eventHandlers \in Seq(Handler) /\ Distinct(eventHandlers)
    BY ZenonT(60) DEF TypeOK, Slice
  <2>2. QED
    BY <1>2, <1>3, <2>1, RemoveFacts, ZenonT(60)
<1>5. TypeOK' /\ Slice'
  BY <1>1, <1>4, ZenonT(60) DEF TypeOK, Slice
<1>6. Copy' /\ Unsent' /\ Counted' /\ Calls' /\ Waits' /\ WaitGroupCounts' /\ EveryHandlerFired' /\ ExpiredNotFired'
  BY <1>1, ZenonT(60) DEF Copy, Unsent, Counted, Calls, Waits, WaitGroupCounts, EveryHandlerFired, ExpiredNotFired, LockFree,
     Expired, Active
<1>7. QED
  BY <1>5, <1>6, ZenonT(60)

(* Send, when it takes the lock and copies the slice, preserves IInv. *)
LEMMA BeginSendIInv ==
  ASSUME IInv, NEW m \in Message, BeginSend(m)
  PROVE  IInv'
<1> USE ChannelAssumption DEF IInv, ChannelAssumption
<1> DEFINE now == [live |-> Elements(eventHandlers), expired |-> {h \in Elements(eventHandlers) : Expired(h)}]
<1>1. /\ LockFree /\ sent[m] = NotSent /\ eventHandlers # << >>
      /\ sending' = [msg |-> m, dup |-> eventHandlers, next |-> 1]
      /\ sent' = [sent EXCEPT ![m] = now]
      /\ UNCHANGED <<eventHandlers, runCount, wg, goroutines, waiting, joined, left, called>>
  BY ZenonT(60) DEF BeginSend
<1>2. /\ sending'.msg = m /\ sending'.dup = eventHandlers /\ sending'.next = 1 /\ ~LockFree'
      /\ sent'[m].live = Elements(eventHandlers) /\ sent'[m].expired = {h \in Elements(eventHandlers) : Expired(h)}
      /\ \A n \in Message \ {m} : sent'[n] = sent[n]
  BY <1>1, ZenonT(60) DEF TypeOK, LockFree
<1>3. Elements(eventHandlers) \subseteq Handler /\ Elements(eventHandlers) # {}
  <2>1. eventHandlers \in Seq(Handler) /\ eventHandlers # << >>
    BY <1>1, ZenonT(60) DEF TypeOK
  <2>2. Len(eventHandlers) \in Nat /\ DOMAIN eventHandlers = 1 .. Len(eventHandlers) /\ Len(eventHandlers) # 0
    BY <2>1, SMTT(60)
  <2>3. 1 \in DOMAIN eventHandlers
    BY <2>2, SMTT(60)
  <2>4. \A i \in DOMAIN eventHandlers : eventHandlers[i] \in Handler
    BY <2>1, SMTT(60)
  <2>5. QED
    BY <2>3, <2>4, ZenonT(60) DEF Elements
<1>4. sent'[m] # NotSent
  BY <1>2, <1>3, SMTT(60) DEF NotSent
<1>5. TypeOK'
  <2>1. sending' \in [msg : Message \cup {None}, dup : Seq(Handler), next : Nat \ {0}]
    BY <1>1, SMTT(60) DEF TypeOK
  <2>2. sent' \in [Message -> [live : SUBSET Handler, expired : SUBSET Handler]]
    BY <1>1, <1>3, ZenonT(60) DEF TypeOK
  <2>3. QED
    BY <1>1, <2>1, <2>2, ZenonT(60) DEF TypeOK
<1>6. \A h \in Handler : goroutines[<<h, m>>] = "none"
  BY <1>1, ZenonT(60) DEF Unsent
<1>7. Slice' /\ Calls' /\ Waits' /\ WaitGroupCounts'
  BY <1>1, ZenonT(60) DEF Slice, Calls, Waits, WaitGroupCounts, Active
<1>8. Copy'
  <2>1. \A i \in DOMAIN eventHandlers : eventHandlers[i] \in Handler /\ i \in Nat /\ ~(i < 1)
    BY SMTT(60) DEF TypeOK
  <2>2. Elements(eventHandlers) \cap left = {}
    BY ZenonT(60) DEF Slice
  <2>3. QED
    BY <1>1, <1>2, <1>4, <1>6, <2>1, <2>2, ZenonT(60) DEF Copy, Slice
<1>9. Unsent' /\ Counted' /\ ExpiredNotFired'
  BY <1>1, <1>2, <1>3, <1>4, <1>6, SMTT(60) DEF Unsent, Counted, ExpiredNotFired, Expired
<1>10. EveryHandlerFired'
  BY <1>1, <1>2, ZenonT(60) DEF EveryHandlerFired, LockFree
<1>11. QED
  BY <1>5, <1>7, <1>8, <1>9, <1>10, ZenonT(60)

(* What moving the index of the loop leaves alone. *)
LEMMA NextIndex ==
  ASSUME NEW S, NEW T, NEW r \in [msg : S, dup : T, next : Nat \ {0}],
         NEW q, q = [r EXCEPT !.next = @ + 1]
  PROVE  /\ q \in [msg : S, dup : T, next : Nat \ {0}]
         /\ q.msg = r.msg /\ q.dup = r.dup /\ q.next = r.next + 1 /\ r.next \in Nat \ {0}
<1>1. r.msg \in S /\ r.dup \in T /\ r.next \in Nat \ {0} /\ r.next + 1 \in Nat \ {0}
  BY SMTT(60)
<1>2. q = [msg |-> r.msg, dup |-> r.dup, next |-> r.next + 1]
  BY ZenonT(60)
<1>3. QED
  BY <1>1, <1>2, ZenonT(60)

(* An iteration that removes an expired handler preserves IInv: the index    *)
(* passes a runOnce handler.                                                 *)
LEMMA DropExpiredIInv ==
  ASSUME IInv, DropExpired
  PROVE  IInv'
<1> USE DEF IInv
<1>1. /\ ~LockFree /\ sending.next <= Len(sending.dup) /\ Expired(sending.dup[sending.next])
      /\ eventHandlers' = removeEventHandler(eventHandlers, sending.next)
      /\ sending' = [sending EXCEPT !.next = @ + 1]
      /\ UNCHANGED <<runCount, wg, goroutines, waiting, joined, left, sent, called>>
  BY ZenonT(60) DEF DropExpired
<1>2. /\ sending'.msg = sending.msg /\ sending'.dup = sending.dup /\ sending'.next = sending.next + 1
      /\ sending.next \in Nat \ {0} /\ ~LockFree'
      /\ sending' \in [msg : Message \cup {None}, dup : Seq(Handler), next : Nat \ {0}]
  BY <1>1, NextIndex, ZenonT(60) DEF TypeOK, LockFree
<1>3. /\ eventHandlers' \in Seq(Handler) /\ Distinct(eventHandlers')
      /\ Elements(eventHandlers') \subseteq Elements(eventHandlers)
  BY <1>1, <1>2, RemoveFacts, ZenonT(60) DEF TypeOK, Slice
<1>4. TypeOK' /\ Slice'
  BY <1>1, <1>2, <1>3, ZenonT(60) DEF TypeOK, Slice
<1>5. Copy'
  <2>1. sending.dup[sending.next] \in RunOnce
    BY <1>1, ZenonT(60) DEF Expired
  <2>2. \A i \in DOMAIN sending.dup : i \in Nat
    BY SMTT(60) DEF TypeOK
  <2>3. \A i \in DOMAIN sending.dup : i < sending.next + 1 => i < sending.next \/ i = sending.next
    BY <1>2, <2>2, SMTT(60)
  <2>4. \A i \in DOMAIN sending.dup : ~(i < sending.next + 1) => ~(i < sending.next)
    BY <1>2, <2>2, SMTT(60)
  <2>5. QED
    BY <1>1, <1>2, <2>1, <2>3, <2>4, ZenonT(60) DEF Copy
<1>6. Unsent' /\ Counted' /\ Calls' /\ Waits' /\ WaitGroupCounts' /\ EveryHandlerFired' /\ ExpiredNotFired'
  BY <1>1, <1>2, ZenonT(60) DEF Unsent, Counted, Calls, Waits, WaitGroupCounts, EveryHandlerFired, ExpiredNotFired, Expired, Active
<1>7. QED
  BY <1>4, <1>5, <1>6, ZenonT(60)

(* The delivery an iteration starts has not been started before. *)
LEMMA StartIsNew ==
  ASSUME IInv, ~LockFree, sending.next <= Len(sending.dup)
  PROVE  /\ sending.msg \in Message
         /\ sending.next \in DOMAIN sending.dup
         /\ sending.dup[sending.next] \in Handler
         /\ goroutines[<<sending.dup[sending.next], sending.msg>>] = "none"
         /\ sending.dup[sending.next] \in sent[sending.msg].live
         /\ sending.dup[sending.next] \notin left
<1> USE DEF IInv
<1>1. sending.msg \in Message /\ sending.dup \in Seq(Handler) /\ sending.next \in Nat \ {0}
  BY ZenonT(60) DEF TypeOK, LockFree
<1>2. sending.next \in DOMAIN sending.dup /\ ~(sending.next < sending.next)
  BY <1>1, SMTT(60)
<1>3. sending.dup[sending.next] \in Handler
  BY <1>1, <1>2, SMTT(60)
<1>4. sending.dup[sending.next] \in Elements(sending.dup)
  BY <1>2, ZenonT(60) DEF Elements
<1>5. QED
  BY <1>1, <1>2, <1>3, <1>4, ZenonT(60) DEF Copy

(* An iteration that starts a goroutine preserves IInv. *)
LEMMA StartHandlerIInv ==
  ASSUME IInv, StartHandler
  PROVE  IInv'
<1> USE DEF IInv
<1> DEFINE h == sending.dup[sending.next]
           d == <<h, sending.msg>>
<1>1. /\ ~LockFree /\ sending.next <= Len(sending.dup) /\ ~Expired(h) /\ wg' = wg + 1
      /\ goroutines' = [goroutines EXCEPT ![d] = "started"]
      /\ sending' = [sending EXCEPT !.next = @ + 1]
      /\ UNCHANGED <<eventHandlers, runCount, waiting, joined, left, sent, called>>
  BY ZenonT(60) DEF StartHandler
<1>2. /\ sending'.msg = sending.msg /\ sending'.dup = sending.dup /\ sending'.next = sending.next + 1
      /\ sending.next \in Nat \ {0} /\ ~LockFree'
      /\ sending' \in [msg : Message \cup {None}, dup : Seq(Handler), next : Nat \ {0}]
  BY <1>1, NextIndex, ZenonT(60) DEF TypeOK, LockFree
<1>3. /\ sending.msg \in Message /\ sending.next \in DOMAIN sending.dup /\ h \in Handler /\ d \in Delivery
      /\ goroutines[d] = "none"
  BY <1>1, StartIsNew, ZenonT(60) DEF Delivery
<1>4. goroutines'[d] = "started" /\ \A e \in Delivery : e # d => goroutines'[e] = goroutines[e]
  BY <1>1, <1>3, ZenonT(60) DEF TypeOK
<1> HIDE DEF d, h
<1>5. TypeOK' /\ Slice'
  <2>1. goroutines' \in [Delivery -> {"none", "started", "called", "done"}]
    BY <1>1, <1>3, ZenonT(60) DEF TypeOK
  <2>2. wg' \in Int
    BY <1>1, SMTT(60) DEF TypeOK
  <2>3. QED
    BY <1>1, <1>2, <2>1, <2>2, ZenonT(60) DEF TypeOK, Slice
<1>6. Copy'
  <2>1. \A i \in DOMAIN sending.dup :
          i \in Nat /\ sending.dup[i] \in Handler /\ <<sending.dup[i], sending.msg>> \in Delivery
    BY <1>3, SMTT(60) DEF TypeOK, Delivery
  <2>2. \A i \in DOMAIN sending.dup : i < sending.next + 1 <=> i < sending.next \/ i = sending.next
    BY <1>2, <2>1, SMTT(60)
  <2>3. \A i \in DOMAIN sending.dup : i # sending.next => <<sending.dup[i], sending.msg>> # d
    BY <1>1, <1>3, ZenonT(60) DEF Copy, Distinct, d, h
  <2>4. ASSUME NEW i \in DOMAIN sending.dup
        PROVE  IF i < sending.next + 1
               THEN sending.dup[i] \in RunOnce \/ goroutines'[<<sending.dup[i], sending.msg>>] # "none"
               ELSE goroutines'[<<sending.dup[i], sending.msg>>] = "none"
    <3>1. CASE i = sending.next
      BY <3>1, <2>2, <1>4, ZenonT(60) DEF d, h
    <3>2. CASE i # sending.next
      BY <3>2, <2>1, <2>2, <2>3, <1>1, <1>4, ZenonT(60) DEF Copy
    <3>3. QED
      BY <3>1, <3>2, ZenonT(60)
  <2>5. QED
    BY <1>1, <1>2, <2>4, ZenonT(60) DEF Copy
<1>7. Unsent' /\ Calls' /\ Waits' /\ EveryHandlerFired'
  <2>1. sent[sending.msg] # NotSent
    BY <1>1, ZenonT(60) DEF Copy
  <2>2. \A e \in Delivery : goroutines'[e] = "none" => goroutines[e] = "none"
    BY <1>3, <1>4, ZenonT(60)
  <2>3. \A e \in Delivery : goroutines'[e] \in {"called", "done"} => goroutines[e] \in {"called", "done"}
    BY <1>3, <1>4, ZenonT(60)
  <2>4. Unsent'
    BY <1>1, <1>4, <2>1, ZenonT(60) DEF Unsent, Delivery, d
  <2>5. Calls' /\ Waits'
    BY <1>1, <2>2, <2>3, ZenonT(60) DEF Calls, Waits, TypeOK
  <2>6. EveryHandlerFired'
    BY <1>1, <1>2, <2>2, ZenonT(60) DEF EveryHandlerFired, TypeOK, Delivery
  <2>7. QED
    BY <2>4, <2>5, <2>6, ZenonT(60)
<1>8. Counted' /\ ExpiredNotFired'
  <2>1. Counted'
    BY <1>1, ZenonT(60) DEF Counted, Expired
  <2>2. h \notin sent[sending.msg].expired
    BY <1>1, <1>3, ZenonT(60) DEF Counted
  <2>3. QED
    BY <2>1, <2>2, <1>1, <1>4, SMTT(60) DEF ExpiredNotFired, TypeOK, Delivery, d
<1>9. WaitGroupCounts'
  <2>1. Active' = Active \cup {d} /\ d \notin Active
    BY <1>3, <1>4, ZenonT(60) DEF Active
  <2>2. Cardinality(Active \cup {d}) = Cardinality(Active) + 1
    BY <2>1, ActiveFinite, FS_AddElement, ZenonT(60)
  <2>3. QED
    BY <1>1, <2>1, <2>2, ZenonT(60) DEF WaitGroupCounts
<1>10. QED
  BY <1>5, <1>6, <1>7, <1>8, <1>9, ZenonT(60)

(* When the loop is over, every handler of the copy has been passed. *)
LEMMA EndSendIInv ==
  ASSUME IInv, EndSend
  PROVE  IInv'
<1> USE DEF IInv
<1>1. /\ ~LockFree /\ sending.next > Len(sending.dup) /\ sending' = NotSending
      /\ UNCHANGED <<eventHandlers, runCount, wg, goroutines, waiting, joined, left, sent, called>>
  BY ZenonT(60) DEF EndSend
<1>2. TypeOK' /\ Slice' /\ LockFree'
  BY <1>1, SMTT(60) DEF TypeOK, Slice, NotSending, LockFree
<1>3. Copy' /\ Unsent' /\ Counted' /\ Calls' /\ Waits' /\ WaitGroupCounts' /\ ExpiredNotFired'
  BY <1>1, <1>2, ZenonT(60) DEF Copy, Unsent, Counted, Calls, Waits, WaitGroupCounts, ExpiredNotFired, Expired, Active
<1>4. EveryHandlerFired'
  <2>1. \A i \in DOMAIN sending.dup : i < sending.next
    BY <1>1, SMTT(60) DEF TypeOK
  <2>2. \A h \in sent[sending.msg].live \ RunOnce : goroutines[<<h, sending.msg>>] # "none"
    <3>1. SUFFICES ASSUME NEW h \in sent[sending.msg].live, h \notin RunOnce
                   PROVE  goroutines[<<h, sending.msg>>] # "none"
      BY ZenonT(60)
    <3>2. PICK i \in DOMAIN sending.dup : sending.dup[i] = h
      BY <1>1, <3>1, SMTT(60) DEF Copy, Elements
    <3>3. QED
      BY <1>1, <2>1, <3>1, <3>2, ZenonT(60) DEF Copy
  <2>3. QED
    BY <1>1, <2>2, ZenonT(60) DEF EveryHandlerFired
<1>5. QED
  BY <1>2, <1>3, <1>4, ZenonT(60)

(* What a step of a goroutine that was started leaves alone: from "started"  *)
(* to "called" or from "called" to "done", nothing is started.               *)
LEMMA GoroutineIInv ==
  ASSUME IInv, NEW d \in Delivery, goroutines[d] # "none",
         NEW to \in {"called", "done"}, goroutines' = [goroutines EXCEPT ![d] = to],
         runCount' \in [Handler -> Nat], \A h \in Handler : runCount'[h] >= runCount[h],
         called \subseteq called', called' \subseteq Delivery, d \in called', wg' \in Int,
         UNCHANGED <<eventHandlers, sending, waiting, joined, left, sent>>
  PROVE  /\ TypeOK' /\ Slice' /\ Copy' /\ Unsent' /\ Counted' /\ Calls' /\ Waits'
         /\ EveryHandlerFired' /\ ExpiredNotFired'
<1> USE DEF IInv
<1>1. goroutines'[d] = to /\ \A e \in Delivery : e # d => goroutines'[e] = goroutines[e]
  BY ZenonT(60) DEF TypeOK
<1>2. \A e \in Delivery : goroutines'[e] = "none" <=> goroutines[e] = "none"
  BY <1>1, ZenonT(60)
<1>3. TypeOK' /\ Slice'
  <2>1. goroutines' \in [Delivery -> {"none", "started", "called", "done"}]
    BY ZenonT(60) DEF TypeOK
  <2>2. QED
    BY <2>1, ZenonT(60) DEF TypeOK, Slice
<1>4. Copy'
  <2>1. ASSUME ~LockFree
        PROVE  \A i \in DOMAIN sending.dup : <<sending.dup[i], sending.msg>> \in Delivery
    <3>1. sending.msg \in Message
      BY <2>1, ZenonT(60) DEF TypeOK, LockFree
    <3>2. \A i \in DOMAIN sending.dup : sending.dup[i] \in Handler
      BY SMTT(60) DEF TypeOK
    <3>3. QED
      BY <3>1, <3>2, ZenonT(60) DEF Delivery
  <2>2. LockFree' <=> LockFree
    BY ZenonT(60) DEF LockFree
  <2>3. QED
    BY <1>2, <2>1, <2>2, ZenonT(60) DEF Copy
<1>5. Unsent' /\ EveryHandlerFired' /\ ExpiredNotFired'
  BY <1>2, SMTT(60) DEF Unsent, EveryHandlerFired, ExpiredNotFired, Delivery, TypeOK
<1>6. Counted'
  <2>1. \A h \in Handler : runCount[h] \in Nat /\ runCount'[h] \in Nat
    BY ZenonT(60) DEF TypeOK
  <2>2. \A h \in Handler : Expired(h) => Expired(h)'
    BY <2>1, SMTT(60) DEF Expired
  <2>3. QED
    BY <2>2, ZenonT(60) DEF Counted, TypeOK
<1>7. Calls' /\ Waits'
  BY <1>1, <1>2, ZenonT(60) DEF Calls, Waits, TypeOK
<1>8. QED
  BY <1>3, <1>4, <1>5, <1>6, <1>7, ZenonT(60)

(* Running a callback preserves IInv: the delivery stays under way. *)
LEMMA RunCallbackIInv ==
  ASSUME IInv, NEW h \in Handler, NEW m \in Message, RunCallback(h, m)
  PROVE  IInv'
<1> DEFINE d == <<h, m>>
<1>1. /\ goroutines[d] = "started" /\ called' = called \cup {d} /\ goroutines' = [goroutines EXCEPT ![d] = "called"]
      /\ UNCHANGED <<eventHandlers, runCount, wg, sending, waiting, joined, left, sent>>
  BY ZenonT(60) DEF RunCallback
<1>2. d \in Delivery
  BY ZenonT(60) DEF Delivery
<1> HIDE DEF d
<1>3. /\ goroutines \in [Delivery -> {"none", "started", "called", "done"}] /\ runCount \in [Handler -> Nat]
      /\ called \subseteq Delivery /\ wg \in Int /\ wg = Cardinality(Active)
  BY ZenonT(60) DEF IInv, TypeOK, WaitGroupCounts
<1>4. \A g \in Handler : runCount'[g] >= runCount[g]
  BY <1>1, <1>3, SMTT(60)
<1>5. /\ TypeOK' /\ Slice' /\ Copy' /\ Unsent' /\ Counted' /\ Calls' /\ Waits'
      /\ EveryHandlerFired' /\ ExpiredNotFired'
  BY <1>1, <1>2, <1>3, <1>4, GoroutineIInv, ZenonT(60)
<1>6. Active' = Active
  BY <1>1, <1>2, <1>3, ZenonT(60) DEF Active
<1>7. WaitGroupCounts'
  BY <1>1, <1>3, <1>6, ZenonT(60) DEF WaitGroupCounts
<1>8. QED
  BY <1>5, <1>7, ZenonT(60) DEF IInv

(* Counting a run and wg.Done preserve IInv: one delivery is over. *)
LEMMA CountRunIInv ==
  ASSUME IInv, NEW h \in Handler, NEW m \in Message, CountRun(h, m)
  PROVE  IInv'
<1> DEFINE d == <<h, m>>
<1>1. /\ goroutines[d] = "called" /\ runCount' = [runCount EXCEPT ![h] = @ + 1] /\ wg' = wg - 1
      /\ goroutines' = [goroutines EXCEPT ![d] = "done"]
      /\ UNCHANGED <<eventHandlers, sending, waiting, joined, left, sent, called>>
  BY ZenonT(60) DEF CountRun
<1>2. d \in Delivery
  BY ZenonT(60) DEF Delivery
<1> HIDE DEF d
<1>3. /\ goroutines \in [Delivery -> {"none", "started", "called", "done"}] /\ runCount \in [Handler -> Nat]
      /\ called \subseteq Delivery /\ wg \in Int /\ wg = Cardinality(Active) /\ d \in called
  BY <1>1, <1>2, ZenonT(60) DEF IInv, TypeOK, WaitGroupCounts, Calls
<1>4. /\ runCount' \in [Handler -> Nat] /\ \A g \in Handler : runCount'[g] >= runCount[g]
      /\ goroutines[d] # "none" /\ called \subseteq called' /\ called' \subseteq Delivery /\ d \in called' /\ wg' \in Int
  BY <1>1, <1>3, SMTT(60)
<1>5. /\ TypeOK' /\ Slice' /\ Copy' /\ Unsent' /\ Counted' /\ Calls' /\ Waits'
      /\ EveryHandlerFired' /\ ExpiredNotFired'
  BY <1>1, <1>2, <1>3, <1>4, GoroutineIInv, ZenonT(60)
<1>6. Active' = Active \ {d} /\ d \in Active
  BY <1>1, <1>2, <1>3, ZenonT(60) DEF Active
<1>7. Cardinality(Active \ {d}) = Cardinality(Active) - 1
  BY <1>6, ActiveFinite, FS_RemoveElement, ZenonT(60)
<1>8. WaitGroupCounts'
  BY <1>1, <1>3, <1>6, <1>7, ZenonT(60) DEF WaitGroupCounts
<1>9. QED
  BY <1>5, <1>8, ZenonT(60) DEF IInv

(* A goroutine that enters or leaves wg.Wait preserves IInv. *)
LEMMA WaitIInv ==
  ASSUME IInv, NEW w \in Waiter, BeginWait(w) \/ EndWait(w)
  PROVE  IInv'
<1> USE DEF IInv
<1>1. /\ waiting' = [waiting EXCEPT ![w] = [on |-> "yes", for |-> Active]] \/ waiting' = [waiting EXCEPT ![w] = NotWaiting]
      /\ UNCHANGED <<eventHandlers, runCount, wg, sending, goroutines, joined, left, sent, called>>
  BY ZenonT(60) DEF BeginWait, EndWait
<1>2. Active \subseteq Delivery /\ \A d \in Active : goroutines[d] # "none"
  BY ZenonT(60) DEF Active
<1>3. TypeOK'
  <2>1. waiting' \in [Waiter -> [on : {"yes", "no"}, for : SUBSET Delivery]]
    BY <1>1, <1>2, SMTT(60) DEF TypeOK, NotWaiting
  <2>2. QED
    BY <1>1, <2>1, ZenonT(60) DEF TypeOK
<1>4. Waits'
  <2>1. waiting'[w].for = Active \/ waiting'[w].for = {}
    BY <1>1, SMTT(60) DEF TypeOK, NotWaiting
  <2>2. \A v \in Waiter \ {w} : waiting'[v] = waiting[v]
    BY <1>1, ZenonT(60) DEF TypeOK
  <2>3. QED
    BY <1>1, <1>2, <2>1, <2>2, ZenonT(60) DEF Waits
<1>5. Slice' /\ Copy' /\ Unsent' /\ Counted' /\ Calls' /\ WaitGroupCounts' /\ EveryHandlerFired' /\ ExpiredNotFired'
  BY <1>1, ZenonT(60) DEF Slice, Copy, Unsent, Counted, Calls, WaitGroupCounts, EveryHandlerFired, ExpiredNotFired, LockFree,
     Expired, Active
<1>6. QED
  BY <1>3, <1>4, <1>5, ZenonT(60)

(* Every step of the channel preserves IInv. *)
LEMMA NextIInv == IInv /\ [Next]_vars => IInv'
<1> SUFFICES ASSUME IInv, [Next]_vars PROVE IInv'
  BY ZenonT(60)
<1>1. CASE UNCHANGED vars
  BY <1>1, ZenonT(60) DEF vars, IInv, TypeOK, Slice, Copy, Unsent, Counted, Calls, Waits, WaitGroupCounts, EveryHandlerFired,
     ExpiredNotFired, LockFree, Expired, Active
<1>2. CASE Next
  BY <1>2, SubscribeIInv, UnsubscribeIInv, BeginSendIInv, DropExpiredIInv, StartHandlerIInv, EndSendIInv,
     RunCallbackIInv, CountRunIInv, WaitIInv, ZenonT(60) DEF Next
<1>3. QED
  BY <1>1, <1>2, ZenonT(60)

(* IInv holds in every reachable state. *)
LEMMA InductiveInvariant == Spec => []IInv
  BY InitIInv, NextIInv, PTL DEF Spec

-----------------------------------------------------------------------------
(* Every variable of the channel keeps its type. *)
THEOREM TypeCorrect == Spec => []TypeOK
<1>1. IInv => TypeOK
  BY ZenonT(60) DEF IInv
<1>2. QED
  BY <1>1, InductiveInvariant, PTL

(* wg.Add and wg.Done balance: the WaitGroup counts the deliveries under     *)
(* way and never goes negative.                                              *)
THEOREM WaitGroupNeverNegative == Spec => [](WaitGroupCounts /\ wg >= 0)
<1>1. IInv => WaitGroupCounts /\ wg >= 0
  <2>1. Cardinality(Active) \in Nat
    BY ActiveFinite, FS_CardinalityType, ZenonT(60)
  <2>2. QED
    BY <2>1, SMTT(60) DEF IInv, WaitGroupCounts
<1>2. QED
  BY <1>1, InductiveInvariant, PTL

(* Send starts every handler it found in the slice, but for runOnce ones.    *)
THEOREM SendIsComplete == Spec => []EveryHandlerFired
<1>1. IInv => EveryHandlerFired
  BY ZenonT(60) DEF IInv
<1>2. QED
  BY <1>1, InductiveInvariant, PTL

(* Send starts no runOnce handler whose run was counted before it took the   *)
(* lock.                                                                     *)
THEOREM ExpiredStaysSilent == Spec => []ExpiredNotFired
<1>1. IInv => ExpiredNotFired
  BY ZenonT(60) DEF IInv
<1>2. QED
  BY <1>1, InductiveInvariant, PTL

(* No delivery is started for a handler that unsubscribeHandler removed. *)
THEOREM NothingAfterLeaving == Spec => NoStartAfterLeaving
<1> DEFINE Kept == \A h \in left, m \in Message : goroutines[<<h, m>>] = "none" => goroutines'[<<h, m>>] = "none"
<1>1. ASSUME IInv, [Next]_vars
      PROVE  [Kept]_vars
  <2> SUFFICES ASSUME NEW h \in left, NEW m \in Message, goroutines[<<h, m>>] = "none", Next
               PROVE  goroutines'[<<h, m>>] = "none"
    BY <1>1, ZenonT(60)
  <2>1. goroutines \in [Delivery -> {"none", "started", "called", "done"}] /\ <<h, m>> \in Delivery
    BY <1>1, ZenonT(60) DEF IInv, TypeOK, Delivery
  <2>2. CASE StartHandler
    BY <1>1, <2>1, <2>2, StartIsNew, ZenonT(60) DEF StartHandler
  <2>3. ASSUME NEW g \in Handler, NEW n \in Message, RunCallback(g, n) \/ CountRun(g, n)
        PROVE  goroutines'[<<h, m>>] = "none"
    <3>1. goroutines[<<g, n>>] # "none" /\ \E to : goroutines' = [goroutines EXCEPT ![<<g, n>>] = to]
      BY <2>3, ZenonT(60) DEF RunCallback, CountRun
    <3>2. QED
      BY <2>1, <3>1, ZenonT(60)
  <2>4. CASE UNCHANGED goroutines
    BY <2>4, ZenonT(60)
  <2>5. QED
    BY <2>2, <2>3, <2>4, ZenonT(60) DEF Next, subscribeHandler, unsubscribeHandler, BeginSend, DropExpired, EndSend,
       BeginWait, EndWait
<1>2. QED
  BY <1>1, InductiveInvariant, PTL DEF Spec, NoStartAfterLeaving

(* wg.Wait returns only when every callback that was under way when it was   *)
(* called has run.                                                           *)
THEOREM WaitCovers == Spec => WaitCoversDeliveries
<1> DEFINE Covers == \A w \in Waiter :
                       waiting[w].on = "yes" /\ waiting'[w].on = "no" => waiting[w].for \subseteq called
<1>1. ASSUME IInv, [Next]_vars
      PROVE  [Covers]_vars
  <2> SUFFICES ASSUME NEW w \in Waiter, waiting[w].on = "yes", waiting'[w].on = "no", Next
               PROVE  waiting[w].for \subseteq called
    BY <1>1, ZenonT(60)
  <2>1. wg = 0
    <3>1. waiting \in [Waiter -> [on : {"yes", "no"}, for : SUBSET Delivery]]
      BY <1>1, ZenonT(60) DEF IInv, TypeOK
    <3>2. CASE UNCHANGED waiting
      BY <3>2, ZenonT(60)
    <3>3. ASSUME NEW v \in Waiter, BeginWait(v) PROVE FALSE
      BY <3>1, <3>3, ZenonT(60) DEF BeginWait
    <3>4. ASSUME NEW v \in Waiter, EndWait(v) PROVE wg = 0
      BY <3>4, ZenonT(60) DEF EndWait
    <3>5. QED
      BY <3>2, <3>3, <3>4, ZenonT(60) DEF Next, subscribeHandler, unsubscribeHandler, BeginSend, DropExpired, StartHandler,
         EndSend, RunCallback, CountRun
  <2>2. Active = {}
    BY <1>1, <2>1, ActiveFinite, FS_EmptySet, ZenonT(60) DEF IInv, WaitGroupCounts
  <2>3. waiting[w].for \subseteq Delivery
    BY <1>1, ZenonT(60) DEF IInv, TypeOK
  <2>4. \A d \in waiting[w].for : goroutines[d] \in {"called", "done"}
    BY <1>1, <2>2, <2>3, ZenonT(60) DEF IInv, TypeOK, Waits, Active
  <2>5. QED
    BY <1>1, <2>3, <2>4, ZenonT(60) DEF IInv, Calls
<1>2. QED
  BY <1>1, InductiveInvariant, PTL DEF Spec, WaitCoversDeliveries

-----------------------------------------------------------------------------
(***************************************************************************)
(* Send removes an expired handler by its index in the copy.  With at most *)
(* one runOnce handler the slice is still equal to the copy at that point  *)
(* (Aligned), so the index is the handler's own.                           *)
(***************************************************************************)
AtMostOneRunOnce == \A a, b \in RunOnce : a = b

Aligned ==
  ~LockFree => \/ eventHandlers = sending.dup
               \/ \E i \in DOMAIN sending.dup : i < sending.next /\ sending.dup[i] \in RunOnce

Ticking == IInv /\ StreamKeepsTicking /\ Aligned

(* The streams tick initially. *)
LEMMA InitTicking == Init => Ticking
<1> SUFFICES ASSUME Init PROVE StreamKeepsTicking /\ Aligned
  BY InitIInv, ZenonT(60) DEF Ticking
<1>1. QED
  BY ZenonT(60) DEF Init, StreamKeepsTicking, Aligned, LockFree, NotSending

(* Every step keeps them ticking. *)
LEMMA NextTicking == AtMostOneRunOnce /\ Ticking /\ [Next]_vars => Ticking'
<1> SUFFICES ASSUME AtMostOneRunOnce, IInv, StreamKeepsTicking, Aligned, [Next]_vars
             PROVE  StreamKeepsTicking' /\ Aligned'
  BY NextIInv, ZenonT(60) DEF Ticking
<1>0. /\ eventHandlers \in Seq(Handler) /\ Distinct(eventHandlers)
      /\ sending \in [msg : Message \cup {None}, dup : Seq(Handler), next : Nat \ {0}]
  BY ZenonT(60) DEF IInv, TypeOK, Slice
<1>1. ASSUME NEW h \in Handler, subscribeHandler(h)
      PROVE  StreamKeepsTicking' /\ Aligned'
  <2>1. Elements(eventHandlers') = Elements(eventHandlers) \cup {h}
    BY <1>0, <1>1, AppendFacts, SMTT(60) DEF subscribeHandler
  <2>2. QED
    BY <1>1, <2>1, ZenonT(60) DEF subscribeHandler, StreamKeepsTicking, Aligned, LockFree
<1>2. ASSUME NEW h \in Handler, unsubscribeHandler(h)
      PROVE  StreamKeepsTicking' /\ Aligned'
  <2>1. PICK i \in DOMAIN eventHandlers :
          eventHandlers[i] = h /\ eventHandlers' = removeEventHandler(eventHandlers, i)
    BY <1>2, ZenonT(60) DEF unsubscribeHandler
  <2>2. i \in Nat \ {0}
    BY <1>0, SMTT(60)
  <2>3. Elements(eventHandlers') = Elements(eventHandlers) \ {h}
    BY <1>0, <2>1, <2>2, RemoveFacts, ZenonT(60)
  <2>4. QED
    BY <1>2, <2>3, ZenonT(60) DEF unsubscribeHandler, StreamKeepsTicking, Aligned, LockFree
<1>3. ASSUME NEW m \in Message, BeginSend(m)
      PROVE  StreamKeepsTicking' /\ Aligned'
  BY <1>3, ZenonT(60) DEF BeginSend, StreamKeepsTicking, Aligned
<1>4. CASE DropExpired
  <2> DEFINE n == sending.next
  <2>1. /\ ~LockFree /\ n <= Len(sending.dup) /\ sending.dup[n] \in RunOnce
        /\ eventHandlers' = removeEventHandler(eventHandlers, n)
        /\ UNCHANGED <<joined, left>>
    BY <1>4, ZenonT(60) DEF DropExpired, Expired
  <2>2. n \in DOMAIN sending.dup /\ n \in Nat \ {0}
    BY <1>0, <2>1, SMTT(60)
  <2>3. sending'.dup = sending.dup /\ sending'.next = n + 1
    BY <1>0, <1>4, NextIndex, ZenonT(60) DEF DropExpired
  <2>4. eventHandlers = sending.dup
    <3>1. ASSUME NEW i \in DOMAIN sending.dup, i < n, sending.dup[i] \in RunOnce
          PROVE  FALSE
      <4>1. sending.dup[i] = sending.dup[n]
        BY <2>1, <3>1, ZenonT(60) DEF AtMostOneRunOnce
      <4>2. i = n
        BY <2>1, <2>2, <4>1, ZenonT(60) DEF IInv, Copy, Distinct
      <4>3. QED
        BY <2>2, <3>1, <4>2, SMTT(60)
    <3>2. QED
      BY <2>1, <3>1, ZenonT(60) DEF Aligned
  <2>5. Elements(eventHandlers') = Elements(eventHandlers) \ {sending.dup[n]}
    <3>1. n \in DOMAIN eventHandlers /\ eventHandlers[n] = sending.dup[n]
      BY <2>2, <2>4, ZenonT(60)
    <3>2. Elements(removeEventHandler(eventHandlers, n)) = Elements(eventHandlers) \ {eventHandlers[n]}
      <4> HIDE DEF n
      <4>1. QED
        BY <1>0, <2>2, <3>1, RemoveFacts, ZenonT(60)
    <3>3. QED
      BY <2>1, <3>1, <3>2, ZenonT(60)
  <2>6. n < n + 1
    BY <2>2, SMTT(60)
  <2>7. QED
    BY <2>1, <2>2, <2>3, <2>5, <2>6, ZenonT(60) DEF StreamKeepsTicking, Aligned
<1>5. CASE StartHandler
  <2>1. /\ sending'.msg = sending.msg /\ sending'.dup = sending.dup /\ sending'.next = sending.next + 1
        /\ sending.next \in Nat \ {0}
    BY <1>0, <1>5, NextIndex, ZenonT(60) DEF StartHandler
  <2>2. \A i \in DOMAIN sending.dup : i < sending.next => i < sending.next + 1
    BY <1>0, <2>1, SMTT(60)
  <2>3. QED
    BY <1>5, <2>1, <2>2, ZenonT(60) DEF StartHandler, StreamKeepsTicking, Aligned, LockFree
<1>6. CASE EndSend
  BY <1>6, ZenonT(60) DEF EndSend, StreamKeepsTicking, Aligned, LockFree, NotSending
<1>7. CASE UNCHANGED <<eventHandlers, sending, joined, left>>
  BY <1>7, ZenonT(60) DEF StreamKeepsTicking, Aligned, LockFree
<1>8. QED
  BY <1>1, <1>2, <1>3, <1>4, <1>5, <1>6, <1>7, ZenonT(60)
  DEF Next, vars, RunCallback, CountRun, BeginWait, EndWait

(* On a channel with at most one runOnce handler, a handler without runOnce  *)
(* stays subscribed until it is unsubscribed.                                *)
THEOREM StreamsTickWithOneRunOnce ==
  ASSUME AtMostOneRunOnce
  PROVE  Spec => []StreamKeepsTicking
<1>1. Ticking /\ [Next]_vars => Ticking'
  BY AtMostOneRunOnce, NextTicking, ZenonT(60)
<1>2. Ticking => StreamKeepsTicking
  BY ZenonT(60) DEF Ticking
<1>3. QED
  BY <1>1, <1>2, InitTicking, PTL DEF Spec
=============================================================================
