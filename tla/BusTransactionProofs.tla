------------------------ MODULE BusTransactionProofs ------------------------
(***************************************************************************)
(* Proofs about BusTransaction, for any channels, stores and bounds, and   *)
(* for both kinds of transaction.                                          *)
(*                                                                         *)
(* ToldOnce is not inductive: an error processed in completedState would   *)
(* break it, and onTransactionError does not look for that state.  IInv    *)
(* says why it cannot happen.  A completed transaction has a response, and *)
(* so a used Once, for every request (Outcome, Books); a request that can  *)
(* still fail has not (Fresh, Deliveries).  That responses are counted     *)
(* once each, and that at most one goroutine executes requests (Alone),    *)
(* needs the order in which requests are executed (AsyncOrder, SyncRuns).  *)
(***************************************************************************)
EXTENDS BusTransaction, FiniteSetTheorems, TLAPS

Begun == listening \cup waiting \cup sent \cup settled
Working == {e \in executors : e.at # "complete"}

Books == responses \subseteq settled /\ completedRequests = Cardinality(responses)

Uncommitted ==
  state = "uncommitted" =>
    lock = "free" /\ executors = {} /\ inbox = {} /\ responses = {} /\ Begun = {}

LockHeld == (lock # "free" => state = "committed") /\ \A e \in executors : e.by = "commit" => lock # "free"

Deliveries ==
  \A i \in Index, k \in {"success", "error"} :
    <<i, k>> \in inbox => i \in listening \cup settled /\ (k = "success" => i \in sent)

Apart == waiting \cap (settled \cup listening \cup sent) = {}

Fresh ==
  \A e \in Working : e.i \notin sent \cup waiting \cup responses /\ (e.at # "send" => e.i \notin Begun)

Alone == \A e, f \in executors : e = f

AsyncOrder ==
  transactionType = "async" => \A e \in Working : e.by = "commit" /\ \A j \in Begun : j <= e.i

SyncRuns == transactionType = "sync" => \A e \in Working : 1 .. (e.i - 1) \subseteq responses

Outcome ==
  /\ state = "completed" => responses = Requested
  /\ state = "committed" => responses # Requested
  /\ \A e \in executors : e.at = "complete" => state = "completed"

IInv ==
  /\ TypeOK /\ Books /\ Uncommitted /\ LockHeld /\ Deliveries /\ Apart
  /\ Fresh /\ Alone /\ AsyncOrder /\ SyncOrder /\ SyncRuns /\ Outcome /\ ToldOnce

-----------------------------------------------------------------------------
(* IInv holds initially. *)
LEMMA InitIInv == Init => IInv
<1> SUFFICES ASSUME Init PROVE IInv
  BY ZenonT(60)
<1> USE TransactionAssumption DEF TransactionAssumption, Init
<1>1. TypeOK
  BY SMTT(60) DEF TypeOK, Requested
<1>2. Books
  BY FS_EmptySet, ZenonT(60) DEF Books
<1>3. QED
  BY <1>1, <1>2, ZenonT(60) DEF IInv, Uncommitted, LockHeld, Deliveries, Apart, Fresh, Alone, AsyncOrder, SyncOrder, SyncRuns,
     Outcome, ToldOnce, Working, Begun, Completing, Requested

(* Adding requests and handlers preserves IInv: nothing else has happened yet. *)
LEMMA BuildIInv ==
  ASSUME IInv,
         \/ \E t \in Target : SendRequest(t) \/ WaitForStoreReady(t)
         \/ OnComplete \/ OnError
  PROVE  IInv'
<1> USE TransactionAssumption DEF TransactionAssumption, outcome, subscriptions
<1>1. checkUncommittedState /\ state = "uncommitted" /\ lock = "free"
  BY ZenonT(60) DEF SendRequest, WaitForStoreReady, OnComplete, OnError, checkUncommittedState
<1>2. /\ UNCHANGED <<transactionType, state, lock, responses, completedRequests, completeCalls, errorCalls, executors>>
      /\ UNCHANGED <<listening, waiting, settled, sent, inbox, up>>
  BY ZenonT(60) DEF SendRequest, WaitForStoreReady, OnComplete, OnError
<1>3. /\ executors = {} /\ inbox = {} /\ responses = {} /\ listening = {} /\ waiting = {}
      /\ settled = {} /\ sent = {} /\ completedRequests = Cardinality(responses)
      /\ errorCalls = 0 /\ completeCalls = 0
  BY <1>1, ZenonT(60) DEF IInv, Uncommitted, Begun, Books, ToldOnce
<1>4. TypeOK'
  <2>1. requests' \in Seq(Target) /\ Len(requests') <= MaxRequest
    <3>1. requests \in Seq(Target) /\ Len(requests) <= MaxRequest
      BY ZenonT(60) DEF IInv, TypeOK
    <3>2. \/ UNCHANGED requests
          \/ Len(requests) < MaxRequest /\ \E t \in Target : requests' = Append(requests, t)
      BY ZenonT(60) DEF SendRequest, WaitForStoreReady, OnComplete, OnError
    <3>3. QED
      BY <3>1, <3>2, SMTT(60)
  <2>2. onCompleteHandlers' \in Nat /\ onErrorHandlers' \in Nat
    BY SMTT(60) DEF IInv, TypeOK, SendRequest, WaitForStoreReady, OnComplete, OnError
  <2>3. QED
    BY <1>1, <1>2, <1>3, <2>1, <2>2, ZenonT(60) DEF IInv, TypeOK
<1>5. QED
  BY <1>1, <1>2, <1>3, <1>4, ZenonT(60) DEF IInv, Books, Uncommitted, LockHeld, Deliveries, Apart, Fresh, Alone, AsyncOrder,
     SyncOrder, SyncRuns, Outcome, ToldOnce, Working, Begun, Completing, Requested

(* Commit of a transaction that is not empty preserves IInv. *)
LEMMA CommitIInv == IInv /\ Commit => IInv'
<1> SUFFICES ASSUME IInv, Commit PROVE IInv'
  BY ZenonT(60)
<1> USE TransactionAssumption DEF TransactionAssumption, subscriptions, registered
<1>1. /\ state = "uncommitted" /\ state' = "committed" /\ lock = "free" /\ lock' = "commit"
      /\ requests # << >> /\ executors' = {[by |-> "commit", at |-> "start", i |-> 1]}
      /\ UNCHANGED <<responses, completedRequests, completeCalls, errorCalls, onCompleteHandlers, onErrorHandlers>>
      /\ UNCHANGED <<transactionType, requests, listening, waiting, settled, sent, inbox, up>>
  BY ZenonT(60) DEF Commit, checkUncommittedState
<1>2. /\ inbox = {} /\ responses = {} /\ listening = {} /\ waiting = {} /\ executors = {}
      /\ settled = {} /\ sent = {} /\ completedRequests = Cardinality(responses)
      /\ errorCalls = 0 /\ completeCalls = 0
  BY <1>1, ZenonT(60) DEF IInv, Uncommitted, Begun, Books, ToldOnce
<1>3. 1 \in Requested /\ 1 \in Index
  BY <1>1, SMTT(60) DEF IInv, TypeOK, Requested, Index
<1>4. TypeOK'
  BY <1>1, <1>2, <1>3, SMTT(60) DEF IInv, TypeOK, Requested, Executor
<1>5. QED
  BY <1>1, <1>2, <1>3, <1>4, SMTT(60) DEF IInv, Books, Uncommitted, LockHeld, Deliveries, Apart, Fresh, Alone, AsyncOrder,
     SyncOrder, SyncRuns, Outcome, ToldOnce, Working, Begun, Completing, Requested

-----------------------------------------------------------------------------
(* The goroutine that executes requests is the only one. *)
LEMMA OnlyExecutor ==
  ASSUME IInv, NEW e \in executors
  PROVE  /\ executors = {e}
         /\ e \in Executor /\ e.i \in Requested /\ e.i \in Nat
         /\ state # "uncommitted"
         /\ e.at # "complete" => state # "completed"
<1>1. executors = {e} /\ e \in Executor /\ e.i \in Requested /\ state # "uncommitted"
  BY ZenonT(60) DEF IInv, Alone, TypeOK, Uncommitted
<1>2. e.i \in Nat
  BY <1>1, SMTT(60) DEF Requested
<1>3. e.at # "complete" => e.i \notin responses
  BY ZenonT(60) DEF IInv, Fresh, Working
<1>4. QED
  BY <1>1, <1>2, <1>3, ZenonT(60) DEF IInv, Outcome

(* Where a goroutine is after it has executed a request. *)
LEMMA DoneFacts ==
  ASSUME IInv, NEW e \in executors, e.at # "complete", Done(e)
  PROVE  \/ /\ e.by = "commit" /\ transactionType = "async" /\ e.i + 1 \in Requested
            /\ \E f \in Executor : executors' = {f} /\ f.by = "commit" /\ f.at = "start" /\ f.i = e.i + 1
            /\ lock' = lock
         \/ /\ executors' = {}
            /\ lock' = "free" \/ (lock' = lock /\ e.by = "handler")
<1>1. executors = {e} /\ e \in Executor /\ e.i \in Requested /\ e.i \in Nat /\ Len(requests) \in Nat
  BY OnlyExecutor, SMTT(60) DEF IInv, TypeOK
<1>2. CASE e.by = "commit" /\ transactionType = "async" /\ e.i < Len(requests)
  <2> DEFINE f == [e EXCEPT !.at = "start", !.i = e.i + 1]
  <2>1. executors' = {f} /\ lock' = lock
    BY <1>1, <1>2, ZenonT(60) DEF Done
  <2>2. e.i + 1 \in Requested /\ e.i + 1 \in Index
    BY <1>1, <1>2, TransactionAssumption, SMTT(60) DEF Requested, Index, IInv, TypeOK, TransactionAssumption
  <2>3. f \in Executor /\ f.by = "commit" /\ f.at = "start" /\ f.i = e.i + 1
    BY <1>1, <1>2, <2>2, ZenonT(60) DEF Executor
  <2>4. QED
    BY <1>2, <2>1, <2>2, <2>3, ZenonT(60)
<1>3. CASE ~(e.by = "commit" /\ transactionType = "async" /\ e.i < Len(requests))
  BY <1>1, <1>3, ZenonT(60) DEF Done, Executor
<1>4. QED
  BY <1>2, <1>3, ZenonT(60)

(* Looking the target of a request up preserves IInv. *)
LEMMA LookUpIInv ==
  ASSUME IInv, NEW e \in executors, NotFound(e) \/ ListenForAnswer(e)
  PROVE  IInv'
<1> USE TransactionAssumption DEF TransactionAssumption, outcome, subscriptions, registered
<1>1. /\ e.at = "start"
      /\ UNCHANGED <<state, lock, responses, completedRequests, completeCalls, errorCalls, onCompleteHandlers>>
      /\ UNCHANGED <<onErrorHandlers, transactionType, requests, listening, waiting, settled, sent, inbox, up>>
      /\ Goes(e, "fail") \/ Goes(e, "handle")
  BY ZenonT(60) DEF NotFound, ListenForAnswer
<1>2. executors = {e} /\ e \in Executor /\ e.i \in Requested
  BY OnlyExecutor, ZenonT(60)
<1>3. PICK at \in {"fail", "handle"} : executors' = {[e EXCEPT !.at = at]}
  BY <1>1, <1>2, ZenonT(60) DEF Goes
<1> DEFINE f == [e EXCEPT !.at = at]
<1>4. f \in Executor /\ f.i = e.i /\ f.by = e.by /\ f.at = at /\ executors' = {f}
  BY <1>2, <1>3, ZenonT(60) DEF Executor
<1> HIDE DEF f
<1>5. TypeOK'
  BY <1>1, <1>2, <1>4, ZenonT(60) DEF IInv, TypeOK, Requested
<1>6. Books' /\ Uncommitted' /\ LockHeld' /\ Deliveries' /\ Apart' /\ SyncOrder' /\ Alone'
  BY <1>1, <1>2, <1>4, ZenonT(60) DEF IInv, Books, Uncommitted, LockHeld, Deliveries, Apart, SyncOrder, Alone, Begun
<1>7. Fresh' /\ AsyncOrder' /\ SyncRuns'
  BY <1>1, <1>2, <1>4, ZenonT(60) DEF IInv, Fresh, AsyncOrder, SyncRuns, Working, Begun
<1>8. Outcome' /\ ToldOnce'
  BY <1>1, <1>2, <1>4, ZenonT(60) DEF IInv, Outcome, ToldOnce, Completing, Requested
<1>9. QED
  BY <1>5, <1>6, <1>7, <1>8, ZenonT(60) DEF IInv

(* Subscribing the once handler of a request preserves IInv. *)
LEMMA HandleIInv ==
  ASSUME IInv, NEW e \in executors, HandleAnswer(e)
  PROVE  IInv'
<1> USE TransactionAssumption DEF TransactionAssumption, outcome, registered
<1>1. /\ e.at = "handle"
      /\ UNCHANGED <<state, lock, responses, completedRequests, completeCalls, errorCalls, onCompleteHandlers>>
      /\ UNCHANGED <<onErrorHandlers, transactionType, requests, waiting, settled, sent, inbox, up>>
      /\ listening \subseteq listening' /\ listening' \subseteq listening \cup {e.i}
      /\ Goes(e, "send")
  BY ZenonT(60) DEF HandleAnswer
<1>2. executors = {e} /\ e \in Executor /\ e.i \in Requested /\ e.i \in Nat
  BY OnlyExecutor, ZenonT(60)
<1> DEFINE f == [e EXCEPT !.at = "send"]
<1>3. f \in Executor /\ f.i = e.i /\ f.by = e.by /\ f.at = "send" /\ executors' = {f}
  BY <1>1, <1>2, ZenonT(60) DEF Executor, Goes
<1> HIDE DEF f
<1>4. TypeOK'
  BY <1>1, <1>2, <1>3, ZenonT(60) DEF IInv, TypeOK, Requested
<1>5. Books' /\ Uncommitted' /\ LockHeld' /\ Deliveries' /\ Alone'
  BY <1>1, <1>2, <1>3, ZenonT(60) DEF IInv, Books, Uncommitted, LockHeld, Deliveries, Alone, Begun
<1>6. Apart' /\ Fresh'
  BY <1>1, <1>2, <1>3, SMTT(60) DEF IInv, Apart, Fresh, Working, Begun
<1>7. AsyncOrder' /\ SyncOrder' /\ SyncRuns'
  BY <1>1, <1>2, <1>3, SMTT(60) DEF IInv, AsyncOrder, SyncOrder, SyncRuns, Working, Begun
<1>8. Outcome' /\ ToldOnce'
  BY <1>1, <1>2, <1>3, ZenonT(60) DEF IInv, Outcome, ToldOnce, Completing, Requested
<1>9. QED
  BY <1>4, <1>5, <1>6, <1>7, <1>8, ZenonT(60) DEF IInv

(* Sending a request, or starting to wait for a store, preserves IInv.  The goroutine goes on
   with the next request only in Commit of an async transaction, and none after this one has
   been begun. *)
LEMMA SendIInv ==
  ASSUME IInv, NEW e \in executors, SendRequestMessage(e) \/ waitForStore(e)
  PROVE  IInv'
<1> USE TransactionAssumption DEF TransactionAssumption, outcome, registered
<1>1. /\ UNCHANGED <<state, responses, completedRequests, completeCalls, errorCalls, onCompleteHandlers>>
      /\ UNCHANGED <<onErrorHandlers, transactionType, requests, listening, settled, inbox, up>>
      /\ sent \subseteq sent' /\ sent' \subseteq sent \cup {e.i}
      /\ waiting \subseteq waiting' /\ waiting' \subseteq waiting \cup {e.i}
      /\ (sent' = sent /\ e.at = "start") \/ (waiting' = waiting /\ e.at = "send")
      /\ e.at # "complete" /\ Done(e)
  BY ZenonT(60) DEF SendRequestMessage, waitForStore
<1>2. executors = {e} /\ e \in Executor /\ e.i \in Requested /\ e.i \in Nat /\ state # "completed"
  BY <1>1, OnlyExecutor, ZenonT(60)
<1>3. \/ /\ e.by = "commit" /\ transactionType = "async" /\ e.i + 1 \in Requested
         /\ \E f \in Executor : executors' = {f} /\ f.by = "commit" /\ f.at = "start" /\ f.i = e.i + 1
         /\ lock' = lock
      \/ /\ executors' = {}
         /\ lock' = "free" \/ (lock' = lock /\ e.by = "handler")
  BY <1>1, DoneFacts, ZenonT(60)
<1>4. TypeOK'
  BY <1>1, <1>2, <1>3, ZenonT(60) DEF IInv, TypeOK, Requested
<1>5. Books' /\ Uncommitted' /\ LockHeld' /\ Deliveries' /\ Alone'
  BY <1>1, <1>2, <1>3, ZenonT(60) DEF IInv, Books, Uncommitted, LockHeld, Deliveries, Alone, Begun
<1>6. Apart'
  BY <1>1, <1>2, SMTT(60) DEF IInv, Apart, Fresh, Working, Begun
<1>7. SyncOrder' /\ SyncRuns'
  BY <1>1, <1>2, <1>3, ZenonT(60) DEF IInv, SyncOrder, SyncRuns, Working
<1>8. Fresh' /\ AsyncOrder'
  <2>1. CASE executors' = {}
    BY <2>1, ZenonT(60) DEF Fresh, AsyncOrder, Working
  <2>2. CASE executors' # {}
    <3>1. PICK f \in Executor : executors' = {f} /\ f.by = "commit" /\ f.at = "start" /\ f.i = e.i + 1
      BY <1>3, <2>2, ZenonT(60)
    <3>2. \A j \in Begun' : j <= e.i
      BY <1>1, <1>2, <1>3, <2>2, SMTT(60) DEF IInv, AsyncOrder, Working, Begun
    <3>3. f.i \notin Begun' /\ responses' \subseteq Begun'
      BY <1>1, <1>2, <3>1, <3>2, SMTT(60) DEF IInv, Books, Begun
    <3>4. Working' = {f} /\ \A j \in Begun' : j \in Nat
      BY <1>4, <3>1, SMTT(60) DEF Working, Begun, TypeOK, Requested
    <3>5. QED
      BY <1>2, <3>1, <3>2, <3>3, <3>4, SMTT(60) DEF Fresh, AsyncOrder, Begun
  <2>3. QED
    BY <2>1, <2>2, ZenonT(60)
<1>9. Outcome' /\ ToldOnce'
  BY <1>1, <1>2, <1>3, ZenonT(60) DEF IInv, Outcome, ToldOnce, Completing, Requested
<1>10. QED
  BY <1>4, <1>5, <1>6, <1>7, <1>8, <1>9, ZenonT(60) DEF IInv

(* A request that cannot be executed aborts a transaction that is not completed: its own
   response is missing.  In Commit the step is never taken, for the lock is not free. *)
LEMMA FailIInv ==
  ASSUME IInv, NEW e \in executors, FailExecution(e)
  PROVE  IInv'
<1> USE TransactionAssumption DEF TransactionAssumption, subscriptions, registered
<1>1. /\ e.at = "fail" /\ lock = "free" /\ Abort /\ Done(e)
      /\ UNCHANGED <<onErrorHandlers, onCompleteHandlers, transactionType, requests, listening, waiting, settled, sent, inbox, up>>
  BY ZenonT(60) DEF FailExecution
<1>2. executors = {e} /\ e \in Executor /\ state # "completed" /\ state # "uncommitted"
  BY <1>1, OnlyExecutor, ZenonT(60)
<1>3. executors' = {} /\ lock' = "free"
  BY <1>1, <1>2, DoneFacts, ZenonT(60) DEF IInv, LockHeld
<1>4. /\ state' = "aborted" /\ errorCalls' = onErrorHandlers /\ UNCHANGED <<responses, completedRequests, completeCalls>>
      /\ completeCalls = 0
  BY <1>1, <1>2, SMTT(60) DEF Abort, outcome, IInv, ToldOnce, TypeOK
<1>5. TypeOK'
  BY <1>1, <1>3, <1>4, ZenonT(60) DEF IInv, TypeOK, Requested
<1>6. Books' /\ Uncommitted' /\ LockHeld' /\ Deliveries' /\ Apart' /\ SyncOrder'
  BY <1>1, <1>3, <1>4, ZenonT(60) DEF IInv, Books, Uncommitted, LockHeld, Deliveries, Apart, SyncOrder
<1>7. Fresh' /\ Alone' /\ AsyncOrder' /\ SyncRuns' /\ Outcome' /\ ToldOnce'
  BY <1>1, <1>3, <1>4, ZenonT(60) DEF Fresh, Alone, AsyncOrder, SyncRuns, Outcome, ToldOnce, Working, Completing
<1>8. QED
  BY <1>5, <1>6, <1>7, ZenonT(60) DEF IInv

(* Starting the complete handlers preserves IInv. *)
LEMMA CompleteIInv ==
  ASSUME IInv, NEW e \in executors, StartCompleteHandlers(e)
  PROVE  IInv'
<1> USE TransactionAssumption DEF TransactionAssumption, subscriptions, registered
<1>1. /\ e.at = "complete" /\ completeCalls' = completeCalls + onCompleteHandlers /\ executors' = executors \ {e}
      /\ UNCHANGED <<state, lock, responses, completedRequests, errorCalls, onErrorHandlers, onCompleteHandlers>>
      /\ UNCHANGED <<transactionType, requests, listening, waiting, settled, sent, inbox, up>>
  BY ZenonT(60) DEF StartCompleteHandlers
<1>2. executors' = {} /\ state = "completed" /\ completeCalls = 0
  BY <1>1, OnlyExecutor, ZenonT(60) DEF IInv, Outcome, ToldOnce, Completing
<1>3. TypeOK' /\ completeCalls' = onCompleteHandlers
  BY <1>1, <1>2, SMTT(60) DEF IInv, TypeOK, Requested
<1>4. Books' /\ Uncommitted' /\ LockHeld' /\ Deliveries' /\ Apart' /\ SyncOrder'
  BY <1>1, <1>2, ZenonT(60) DEF IInv, Books, Uncommitted, LockHeld, Deliveries, Apart, SyncOrder
<1>5. Fresh' /\ Alone' /\ AsyncOrder' /\ SyncRuns' /\ Outcome' /\ ToldOnce'
  BY <1>1, <1>2, <1>3, ZenonT(60) DEF IInv, Fresh, Alone, AsyncOrder, SyncRuns, Outcome, ToldOnce, Working, Completing, Requested
<1>6. QED
  BY <1>3, <1>4, <1>5, ZenonT(60) DEF IInv

-----------------------------------------------------------------------------
(* When an answer that counts is processed, no goroutine is executing a request, the request
   has no response yet, and the count reaches the number of requests exactly when every
   request has its response. *)
LEMMA AnswerFacts ==
  ASSUME IInv, NEW i \in Requested, i \in sent \cup waiting, i \notin settled, lock = "free", state # "aborted"
  PROVE  /\ executors = {} /\ state = "committed" /\ i \notin responses
         /\ Cardinality(responses \cup {i}) = completedRequests + 1
         /\ completedRequests + 1 = Len(requests) <=> responses \cup {i} = Requested
<1>1. i \notin responses /\ i \in Begun /\ i \in Nat
  BY SMTT(60) DEF IInv, Books, Begun, Requested
<1>2. state = "committed"
  BY <1>1, ZenonT(60) DEF IInv, Uncommitted, Outcome, TypeOK
<1>3. ASSUME NEW e \in executors PROVE FALSE
  <2>1. e \in Working /\ e.i \in Nat /\ e.i \notin sent \cup waiting \cup responses
    BY <1>2, OnlyExecutor, ZenonT(60) DEF IInv, Outcome, Working, Fresh
  <2>2. CASE transactionType = "async"
    BY <2>1, <2>2, ZenonT(60) DEF IInv, AsyncOrder, LockHeld
  <2>3. CASE transactionType = "sync"
    <3>1. 1 .. (e.i - 1) \subseteq responses
      BY <2>1, <2>3, ZenonT(60) DEF IInv, SyncRuns
    <3>2. 1 .. (i - 1) \subseteq responses
      BY <1>1, <2>3, ZenonT(60) DEF IInv, SyncOrder, Begun
    <3>3. i # e.i /\ i >= 1 /\ e.i >= 1
      BY <2>1, OnlyExecutor, SMTT(60) DEF Requested
    <3>4. QED
      BY <1>1, <2>1, <3>1, <3>2, <3>3, SMTT(60)
  <2>4. QED
    BY <2>2, <2>3, ZenonT(60) DEF IInv, TypeOK
<1>4. IsFiniteSet(Requested) /\ Cardinality(Requested) = Len(requests) /\ Len(requests) \in Nat
  <2>1. Len(requests) \in Nat
    BY SMTT(60) DEF IInv, TypeOK
  <2>2. IsFiniteSet(1 .. Len(requests))
    BY <2>1, FS_Interval, SMTT(60)
  <2>3. Cardinality(1 .. Len(requests)) = IF 1 > Len(requests) THEN 0 ELSE Len(requests) - 1 + 1
    <3>1. 1 \in Int /\ Len(requests) \in Int
      BY <2>1, SMTT(60)
    <3>2. QED
      BY ONLY <3>1, FS_Interval, ZenonT(60)
  <2>4. QED
    BY <2>1, <2>2, <2>3, SMTT(60) DEF Requested
<1>5. responses \cup {i} \subseteq Requested /\ responses \subseteq Requested
  BY ZenonT(60) DEF IInv, TypeOK
<1>6. IsFiniteSet(responses) /\ IsFiniteSet(responses \cup {i})
  BY <1>4, <1>5, FS_Subset, ZenonT(60)
<1>7. Cardinality(responses \cup {i}) = completedRequests + 1
  BY <1>1, <1>6, FS_AddElement, ZenonT(60) DEF IInv, Books
<1>8. completedRequests + 1 = Len(requests) <=> responses \cup {i} = Requested
  BY <1>4, <1>5, <1>7, FS_Subset, ZenonT(60)
<1>9. QED
  BY <1>1, <1>2, <1>3, <1>7, <1>8, ZenonT(60)

(* What onTransactionRequestSuccess leaves behind, for an answer that counts. *)
LEMMA SucceedFacts ==
  ASSUME IInv, NEW i \in Requested, i \in sent \cup waiting, i \notin settled, lock = "free", state # "aborted",
         Succeed(i)
  PROVE  /\ responses' = responses \cup {i} /\ completedRequests' = Cardinality(responses')
         /\ UNCHANGED <<completeCalls, errorCalls>> /\ completeCalls = 0 /\ errorCalls = 0
         /\ \/ /\ state' = "completed" /\ responses' = Requested
               /\ \E f \in Executor : executors' = {f} /\ f.at = "complete" /\ f.by = "handler" /\ f.i = i
            \/ /\ state' = "committed" /\ responses' # Requested
               /\ \/ executors' = {}
                  \/ /\ transactionType = "sync" /\ i + 1 \in Requested
                     /\ \E f \in Executor : executors' = {f} /\ f.at = "start" /\ f.by = "handler" /\ f.i = i + 1
<1>1. /\ executors = {} /\ state = "committed" /\ i \notin responses
      /\ Cardinality(responses \cup {i}) = completedRequests + 1
      /\ completedRequests + 1 = Len(requests) <=> responses \cup {i} = Requested
  BY AnswerFacts, ZenonT(60)
<1>2. /\ responses' = responses \cup {i} /\ completedRequests' = completedRequests + 1
      /\ UNCHANGED <<completeCalls, errorCalls>> /\ completeCalls = 0 /\ errorCalls = 0
  BY <1>1, ZenonT(60) DEF Succeed, IInv, ToldOnce
<1>3. Len(requests) \in Nat /\ Len(requests) <= MaxRequest /\ MaxRequest \in Nat /\ i \in Nat /\ i \in Index
  BY TransactionAssumption, SMTT(60) DEF IInv, TypeOK, TransactionAssumption, Requested, Index
<1>4. CASE completedRequests + 1 = Len(requests)
  <2> DEFINE f == [by |-> "handler", at |-> "complete", i |-> i]
  <2>1. executors' = {f} /\ state' = "completed"
    BY <1>1, <1>2, <1>4, ZenonT(60) DEF Succeed
  <2>2. f \in Executor /\ f.at = "complete" /\ f.by = "handler" /\ f.i = i
    BY <1>3, ZenonT(60) DEF Executor
  <2>3. QED
    BY <1>1, <1>2, <1>4, <2>1, <2>2, ZenonT(60)
<1>5. CASE completedRequests + 1 # Len(requests)
  <2>1. state' = "committed" /\ responses' # Requested
    BY <1>1, <1>2, <1>5, ZenonT(60) DEF Succeed
  <2>2. CASE transactionType = "sync" /\ i < Len(requests)
    <3> DEFINE f == [by |-> "handler", at |-> "start", i |-> i + 1]
    <3>1. executors' = {f}
      BY <1>1, <1>2, <1>5, <2>2, ZenonT(60) DEF Succeed
    <3>2. i + 1 \in Requested /\ i + 1 \in Index
      BY <1>3, <2>2, SMTT(60) DEF Requested, Index
    <3>3. f \in Executor /\ f.at = "start" /\ f.by = "handler" /\ f.i = i + 1
      BY <3>2, ZenonT(60) DEF Executor
    <3>4. QED
      BY <1>1, <1>2, <2>1, <2>2, <3>1, <3>2, <3>3, ZenonT(60)
  <2>3. CASE ~(transactionType = "sync" /\ i < Len(requests))
    <3>1. executors' = {}
      BY <1>1, <1>2, <1>5, <2>3, ZenonT(60) DEF Succeed
    <3>2. QED
      BY <1>1, <1>2, <2>1, <3>1, ZenonT(60)
  <2>4. QED
    BY <2>2, <2>3, ZenonT(60)
<1>6. QED
  BY <1>4, <1>5, ZenonT(60)

(* Processing an answer preserves IInv. *)
LEMMA SucceedIInv ==
  ASSUME IInv, NEW i \in Requested, i \in sent \cup waiting, i \notin settled, lock = "free", Succeed(i),
         settled' = settled \cup {i}, listening' = listening \ {i}, waiting' = waiting \ {i},
         inbox' \subseteq inbox,
         UNCHANGED <<lock, transactionType, requests, onCompleteHandlers, onErrorHandlers, sent, up>>
  PROVE  IInv'
<1> USE TransactionAssumption DEF TransactionAssumption
<1>1. Begun' = Begun /\ i \in Begun /\ i \in Nat /\ Requested' = Requested
  BY SMTT(60) DEF Begun, Requested
<1>2. Deliveries' /\ Apart'
  BY ZenonT(60) DEF IInv, Deliveries, Apart
<1>3. CASE state = "aborted"
  <2>1. UNCHANGED <<state, responses, completedRequests, completeCalls, errorCalls, executors>>
    BY <1>3, ZenonT(60) DEF Succeed, outcome
  <2>2. TypeOK'
    BY <1>1, <2>1, ZenonT(60) DEF IInv, TypeOK
  <2>3. Books' /\ Uncommitted' /\ LockHeld' /\ Alone' /\ Outcome' /\ ToldOnce'
    BY <1>1, <1>3, <2>1, ZenonT(60) DEF IInv, Books, Uncommitted, LockHeld, Alone, Outcome, ToldOnce, Completing
  <2>4. Fresh' /\ AsyncOrder' /\ SyncOrder' /\ SyncRuns'
    BY <1>1, <2>1, ZenonT(60) DEF IInv, Fresh, AsyncOrder, SyncOrder, SyncRuns, Working, Begun
  <2>5. QED
    BY <1>2, <2>2, <2>3, <2>4, ZenonT(60) DEF IInv
<1>4. CASE state # "aborted"
  <2>1. /\ responses' = responses \cup {i} /\ completedRequests' = Cardinality(responses')
        /\ UNCHANGED <<completeCalls, errorCalls>> /\ completeCalls = 0 /\ errorCalls = 0
        /\ \/ /\ state' = "completed" /\ responses' = Requested
              /\ \E f \in Executor : executors' = {f} /\ f.at = "complete" /\ f.by = "handler" /\ f.i = i
           \/ /\ state' = "committed" /\ responses' # Requested
              /\ \/ executors' = {}
                 \/ /\ transactionType = "sync" /\ i + 1 \in Requested
                    /\ \E f \in Executor : executors' = {f} /\ f.at = "start" /\ f.by = "handler" /\ f.i = i + 1
    BY <1>4, SucceedFacts, ZenonT(60)
  <2>2. completedRequests' \in Nat
    BY <1>4, <2>1, AnswerFacts, SMTT(60) DEF IInv, TypeOK
  <2>3. TypeOK'
    BY <1>1, <2>1, <2>2, ZenonT(60) DEF IInv, TypeOK
  <2>4. Books' /\ Uncommitted' /\ LockHeld' /\ Alone'
    BY <1>1, <2>1, ZenonT(60) DEF IInv, Books, Uncommitted, LockHeld, Alone
  <2>5. Outcome' /\ ToldOnce'
    BY <1>1, <2>1, ZenonT(60) DEF IInv, Outcome, ToldOnce, Completing
  <2>6. SyncOrder'
    BY <1>1, <2>1, ZenonT(60) DEF IInv, SyncOrder, Begun
  <2>7. Fresh' /\ AsyncOrder' /\ SyncRuns'
    <3>1. CASE Working' = {}
      BY <3>1, ZenonT(60) DEF Fresh, AsyncOrder, SyncRuns
    <3>2. CASE Working' # {}
      <4>1. PICK f \in Executor : /\ transactionType = "sync" /\ i + 1 \in Requested
                                  /\ executors' = {f} /\ f.at = "start" /\ f.by = "handler" /\ f.i = i + 1
        BY <2>1, <3>2, ZenonT(60) DEF Working
      <4>2. 1 .. (i - 1) \subseteq responses /\ i \notin responses
        BY <1>1, <4>1, ZenonT(60) DEF IInv, SyncOrder, Begun, Books
      <4>3. i + 1 \notin Begun
        <5>1. i + 1 \in Begun => 1 .. ((i + 1) - 1) \subseteq responses
          BY <4>1, ZenonT(60) DEF IInv, SyncOrder, Begun
        <5>2. i \in 1 .. ((i + 1) - 1)
          BY <1>1, SMTT(60) DEF Requested
        <5>3. QED
          BY <4>2, <5>1, <5>2, ZenonT(60)
      <4>4. i + 1 \notin responses'
        BY <1>1, <2>1, <4>3, ZenonT(60) DEF IInv, Books, Begun
      <4>5. 1 .. ((i + 1) - 1) \subseteq responses'
        BY <1>1, <2>1, <4>2, SMTT(60)
      <4>6. Working' = {f}
        BY <4>1, ZenonT(60) DEF Working
      <4>7. QED
        BY <1>1, <4>1, <4>3, <4>4, <4>5, <4>6, ZenonT(60) DEF Fresh, AsyncOrder, SyncRuns, Begun
    <3>3. QED
      BY <3>1, <3>2, ZenonT(60)
  <2>8. QED
    BY <1>2, <2>3, <2>4, <2>5, <2>6, <2>7, ZenonT(60) DEF IInv
<1>5. QED
  BY <1>3, <1>4, ZenonT(60)

(* A delivery whose Once is unused is for a request that is subscribed, and if it is an answer,
   was sent. *)
LEMMA DeliveryFacts ==
  ASSUME IInv, NEW i \in Index, NEW k \in {"success", "error"}, <<i, k>> \in inbox, i \notin settled
  PROVE  i \in Requested /\ i \in listening /\ i \notin waiting /\ (k = "success" => i \in sent)
BY ZenonT(60) DEF IInv, Deliveries, TypeOK, Apart

(* The delivery of an answer, and the goroutine of WhenReady, preserve IInv. *)
LEMMA RunIInv ==
  ASSUME IInv, NEW i \in Index, RunAnswer(i) \/ RunReady(i)
  PROVE  IInv'
<1> USE DEF registered
<1>1. CASE RunAnswer(i)
  <2>1. i \in Requested /\ i \in sent /\ i \notin waiting /\ i \notin settled
    BY <1>1, DeliveryFacts, ZenonT(60) DEF RunAnswer
  <2>2. QED
    BY <1>1, <2>1, SucceedIInv, ZenonT(60) DEF RunAnswer
<1>2. CASE RunReady(i)
  <2>1. i \in Requested /\ i \in waiting /\ i \notin listening /\ i \notin settled
    BY <1>2, ZenonT(60) DEF RunReady, IInv, TypeOK, Apart
  <2>2. QED
    BY <1>2, <2>1, SucceedIInv, ZenonT(60) DEF RunReady
<1>3. QED
  BY <1>1, <1>2, ZenonT(60)

(* An error whose Once is unused finds a transaction that is committed or aborted. *)
LEMMA ErrorIInv ==
  ASSUME IInv, NEW i \in Index, RunError(i)
  PROVE  IInv'
<1> USE TransactionAssumption DEF TransactionAssumption, registered
<1>1. /\ <<i, "error">> \in inbox /\ i \notin settled /\ lock = "free" /\ Abort
      /\ settled' = settled \cup {i} /\ listening' = listening \ {i} /\ inbox' \subseteq inbox
      /\ UNCHANGED <<lock, transactionType, requests, onCompleteHandlers, onErrorHandlers, executors, waiting, sent, up>>
  BY ZenonT(60) DEF RunError
<1>2. i \in Requested /\ i \in listening /\ i \notin waiting
  BY <1>1, DeliveryFacts, ZenonT(60)
<1>3. state # "completed" /\ state # "uncommitted"
  BY <1>1, <1>2, ZenonT(60) DEF IInv, Outcome, Books, Uncommitted
<1>4. /\ state' = "aborted" /\ errorCalls' = onErrorHandlers /\ UNCHANGED <<responses, completedRequests, completeCalls>>
      /\ completeCalls = 0
  BY <1>1, <1>3, SMTT(60) DEF Abort, outcome, IInv, ToldOnce, TypeOK
<1>5. Begun' = Begun /\ Requested' = Requested
  BY <1>1, <1>2, ZenonT(60) DEF Begun, Requested
<1>6. TypeOK'
  BY <1>1, <1>2, <1>4, <1>5, ZenonT(60) DEF IInv, TypeOK
<1>7. Books' /\ Uncommitted' /\ LockHeld' /\ Deliveries' /\ Apart' /\ Alone'
  BY <1>1, <1>2, <1>4, ZenonT(60) DEF IInv, Books, Uncommitted, LockHeld, Deliveries, Apart, Alone
<1>8. Fresh' /\ AsyncOrder' /\ SyncOrder' /\ SyncRuns'
  BY <1>1, <1>2, <1>4, <1>5, ZenonT(60) DEF IInv, Fresh, AsyncOrder, SyncOrder, SyncRuns, Working, Begun
<1>9. Outcome' /\ ToldOnce'
  BY <1>1, <1>3, <1>4, ZenonT(60) DEF IInv, Outcome, ToldOnce, Completing
<1>10. QED
  BY <1>6, <1>7, <1>8, <1>9, ZenonT(60) DEF IInv

(* Deliveries that are started or dropped, and targets created or destroyed, preserve IInv. *)
LEMMA OthersIInv ==
  ASSUME IInv,
         \/ \E i \in Index : Respond(i) \/ SendErrorMessage(i) \/ \E k \in {"success", "error"} : DropDelivery(<<i, k>>)
         \/ \E t \in Volatile : Destroy(t) \/ Create(t)
  PROVE  IInv'
<1> USE TransactionAssumption DEF TransactionAssumption, outcome, registered, subscriptions
<1>1. /\ UNCHANGED <<state, lock, responses, completedRequests, completeCalls, errorCalls, onCompleteHandlers>>
      /\ UNCHANGED <<onErrorHandlers, transactionType, requests, executors, listening, waiting, settled, sent>>
  BY ZenonT(60) DEF Respond, SendErrorMessage, DropDelivery, Destroy, Create
<1>2. \/ inbox' \subseteq inbox
      \/ \E i \in listening \cap sent : inbox' = inbox \cup {<<i, "success">>}
      \/ \E i \in listening : inbox' = inbox \cup {<<i, "error">>}
  BY ZenonT(60) DEF Respond, SendErrorMessage, DropDelivery, Destroy, Create
<1>3. up' \in SUBSET Target
  <2>1. up' = up \/ \E t \in Volatile : up' = up \ {t} \/ up' = up \cup {t}
    BY ZenonT(60) DEF Respond, SendErrorMessage, DropDelivery, Destroy, Create
  <2>2. QED
    BY <2>1, SMTT(60) DEF IInv, TypeOK, Target
<1>4. inbox' \subseteq Requested \X {"success", "error"}
  <2>1. inbox \subseteq Requested \X {"success", "error"} /\ listening \subseteq Requested
    BY ZenonT(60) DEF IInv, TypeOK
  <2>2. QED
    BY <1>2, <2>1, SMTT(60)
<1>5. TypeOK'
  BY <1>1, <1>3, <1>4, ZenonT(60) DEF IInv, TypeOK, Requested
<1>6. Deliveries'
  <2> SUFFICES ASSUME NEW i \in Index, NEW k \in {"success", "error"}, <<i, k>> \in inbox'
               PROVE  i \in listening \cup settled /\ (k = "success" => i \in sent)
    BY <1>1, ZenonT(60) DEF Deliveries
  <2>1. CASE <<i, k>> \in inbox
    BY <2>1, ZenonT(60) DEF IInv, Deliveries
  <2>2. CASE <<i, k>> \notin inbox
    BY <1>2, <2>2, SMTT(60)
  <2>3. QED
    BY <2>1, <2>2, ZenonT(60)
<1>7. Uncommitted'
  BY <1>1, <1>2, ZenonT(60) DEF IInv, Uncommitted, Begun
<1>8. Books' /\ LockHeld' /\ Apart' /\ Fresh' /\ Alone' /\ AsyncOrder' /\ SyncOrder' /\ SyncRuns'
  BY <1>1, ZenonT(60) DEF IInv, Books, LockHeld, Apart, Fresh, Alone, AsyncOrder, SyncOrder, SyncRuns, Working, Begun
<1>9. Outcome' /\ ToldOnce'
  BY <1>1, ZenonT(60) DEF IInv, Outcome, ToldOnce, Completing, Requested
<1>10. QED
  BY <1>5, <1>6, <1>7, <1>8, <1>9, ZenonT(60) DEF IInv

-----------------------------------------------------------------------------
(* IInv is an invariant. *)
LEMMA InductiveInvariant == Spec => []IInv
<1>1. IInv /\ [Next]_vars => IInv'
  <2> SUFFICES ASSUME IInv, [Next]_vars PROVE IInv'
    BY ZenonT(60)
  <2>1. CASE \/ \E c \in Channel : SendRequest(c)
             \/ \E s \in Store : WaitForStoreReady(s)
             \/ OnComplete \/ OnError
    BY <2>1, BuildIInv, ZenonT(60) DEF Target
  <2>2. CASE Commit
    BY <2>2, CommitIInv, ZenonT(60)
  <2>3. CASE \E e \in executors : Execute(e)
    BY <2>3, LookUpIInv, HandleIInv, SendIInv, FailIInv, CompleteIInv, ZenonT(60) DEF Execute
  <2>4. CASE \E i \in Index : Process(i) \/ RunReady(i) \/ Respond(i) \/ SendErrorMessage(i)
    BY <2>4, RunIInv, ErrorIInv, OthersIInv, ZenonT(60) DEF Process
  <2>5. CASE \E t \in Volatile : Destroy(t) \/ Create(t)
    BY ZenonT(60), <2>5, OthersIInv
  <2>6. CASE UNCHANGED vars
    BY ZenonT(60), <2>6 DEF vars, IInv, TypeOK, Books, Uncommitted, LockHeld, Deliveries, Apart, Fresh, Alone, AsyncOrder,
       SyncOrder, SyncRuns, Outcome, ToldOnce, Working, Begun, Completing, Requested
  <2>7. QED
    BY <2>1, <2>2, <2>3, <2>4, <2>5, <2>6, ZenonT(60) DEF Next
<1>2. QED
  BY InitIInv, <1>1, PTL DEF Spec

(* Every variable of a transaction keeps its type. *)
THEOREM TypeCorrect == Spec => []TypeOK
<1>1. IInv => TypeOK
  BY ZenonT(60) DEF IInv
<1>2. QED
  BY InductiveInvariant, <1>1, PTL

(* Every handler registered with OnComplete or OnError is told the outcome of the transaction
   once, and never both kinds are: whatever answers and errors arrive, in any order and however
   often, and whatever channels and stores are destroyed. *)
THEOREM HandlersToldOnce == Spec => []ToldOnce
<1>1. IInv => ToldOnce
  BY ZenonT(60) DEF IInv
<1>2. QED
  BY InductiveInvariant, <1>1, PTL

(* A sync transaction executes no request before all the earlier ones were answered. *)
THEOREM SyncInOrder == Spec => []SyncOrder
<1>1. IInv => SyncOrder
  BY ZenonT(60) DEF IInv
<1>2. QED
  BY InductiveInvariant, <1>1, PTL

-----------------------------------------------------------------------------
(* Every step of the transaction is a step of its promise, or changes nothing the promise is
   about. *)
LEMMA StepSimulation ==
  ASSUME IInv, IInv', [Next]_vars
  PROVE  [Promise!Next]_(Promise!promise)
<1> USE DEF outcome, registered, subscriptions
<1> DEFINE Same == UNCHANGED <<state, responses, requests>> /\ (Completing' <=> Completing)
<1>1. Same => UNCHANGED Promise!promise
  BY ZenonT(60) DEF Promise!promise, HandlersTold
<1>2. ASSUME NEW t, SendRequest(t) \/ WaitForStoreReady(t) PROVE Promise!Add
  <2>1. /\ state = "uncommitted" /\ requests' = Append(requests, t)
        /\ UNCHANGED <<state, responses, executors>>
    BY <1>2, ZenonT(60) DEF SendRequest, WaitForStoreReady, checkUncommittedState
  <2>2. Len(requests') = Len(requests) + 1
    BY <2>1, SMTT(60) DEF IInv, TypeOK
  <2>3. QED
    BY <2>1, <2>2, ZenonT(60) DEF Promise!Add, HandlersTold, Completing
<1>3. ASSUME OnComplete \/ OnError PROVE Same
  BY <1>3, ZenonT(60) DEF OnComplete, OnError, Completing
<1>4. ASSUME Commit PROVE Promise!Commit
  <2>1. /\ state = "uncommitted" /\ state' = "committed" /\ requests # << >>
        /\ UNCHANGED <<requests, responses>>
    BY <1>4, ZenonT(60) DEF Commit, checkUncommittedState
  <2>2. Len(requests) > 0
    BY <2>1, SMTT(60) DEF IInv, TypeOK
  <2>3. QED
    BY <2>1, <2>2, ZenonT(60) DEF Promise!Commit, HandlersTold
<1>5. ASSUME NEW e \in executors,
             NotFound(e) \/ ListenForAnswer(e) \/ HandleAnswer(e) \/ SendRequestMessage(e) \/ waitForStore(e)
      PROVE  Same
  <2>1. UNCHANGED <<state, responses, requests>> /\ e.at \in {"start", "handle", "send"}
    BY <1>5, ZenonT(60) DEF NotFound, ListenForAnswer, HandleAnswer, SendRequestMessage, waitForStore
  <2>2. state # "completed"
    BY <2>1, OnlyExecutor, ZenonT(60)
  <2>3. ~Completing /\ ~Completing'
    BY <2>1, <2>2, ZenonT(60) DEF Completing, IInv, Outcome
  <2>4. QED
    BY <2>1, <2>3, ZenonT(60)
<1>6. ASSUME NEW e \in executors, FailExecution(e) PROVE Promise!Fail \/ Same
  <2>1. /\ e.at = "fail" /\ Abort /\ requests' = requests
    BY <1>6, ZenonT(60) DEF FailExecution
  <2>2. state # "completed" /\ state # "uncommitted"
    BY <2>1, OnlyExecutor, ZenonT(60)
  <2>3. ~Completing /\ ~Completing' /\ state' = "aborted" /\ responses' = responses
    BY <2>1, <2>2, ZenonT(60) DEF Completing, IInv, Outcome, Abort
  <2>4. QED
    BY <2>1, <2>2, <2>3, ZenonT(60) DEF Promise!Fail, HandlersTold, IInv, TypeOK
<1>7. ASSUME NEW e \in executors, StartCompleteHandlers(e) PROVE Promise!Complete
  <2>1. e.at = "complete" /\ executors = {e} /\ executors' = {} /\ UNCHANGED <<state, responses, requests>>
    BY <1>7, OnlyExecutor, ZenonT(60) DEF StartCompleteHandlers
  <2>2. state = "completed" /\ Completing /\ ~Completing'
    BY <2>1, ZenonT(60) DEF IInv, Outcome, Completing
  <2>3. QED
    BY <2>1, <2>2, ZenonT(60) DEF Promise!Complete, HandlersTold
<1>8. ASSUME NEW i \in Index, RunAnswer(i) \/ RunReady(i)
      PROVE  (\E j \in 1 .. Len(requests) : Promise!Answer(j)) \/ Same
  <2>1. /\ i \in Requested /\ i \in sent \cup waiting /\ i \notin settled /\ lock = "free" /\ Succeed(i)
        /\ requests' = requests
    BY <1>8, DeliveryFacts, ZenonT(60) DEF RunAnswer, RunReady, IInv, TypeOK, Apart
  <2>2. CASE state = "aborted"
    BY <2>1, <2>2, ZenonT(60) DEF Succeed, Completing
  <2>3. CASE state # "aborted"
    <3>1. /\ executors = {} /\ state = "committed" /\ i \notin responses
      BY <2>1, <2>3, AnswerFacts, ZenonT(60)
    <3>2. /\ responses' = responses \cup {i}
          /\ \/ /\ state' = "completed" /\ responses' = Requested
                /\ \E f \in Executor : executors' = {f} /\ f.at = "complete" /\ f.by = "handler" /\ f.i = i
             \/ /\ state' = "committed" /\ responses' # Requested
      BY <2>1, <2>3, SucceedFacts, ZenonT(60)
    <3>3. HandlersTold = "nobody" /\ HandlersTold' = "nobody"
      BY <3>1, <3>2, ZenonT(60) DEF HandlersTold, Completing
    <3>4. Promise!Answer(i)
      BY <2>1, <3>1, <3>2, <3>3, ZenonT(60) DEF Promise!Answer, Requested
    <3>5. QED
      BY <2>1, <3>4, ZenonT(60) DEF Requested
  <2>4. QED
    BY <2>2, <2>3, ZenonT(60)
<1>9. ASSUME NEW i \in Index, RunError(i) PROVE Promise!Fail \/ Same
  <2>1. i \in Requested /\ i \notin settled /\ Abort /\ UNCHANGED <<requests, executors>>
    BY <1>9, DeliveryFacts, ZenonT(60) DEF RunError
  <2>2. state \in {"committed", "aborted"} /\ (Completing' <=> Completing)
    BY <1>9, <2>1, ZenonT(60) DEF RunError, IInv, TypeOK, Outcome, Books, Uncommitted, Completing
  <2>3. state' = "aborted" /\ responses' = responses
    BY <2>1, ZenonT(60) DEF Abort
  <2>4. QED
    BY <2>1, <2>2, <2>3, ZenonT(60) DEF Promise!Fail, HandlersTold
<1>10. ASSUME \/ \E i \in Index : Respond(i) \/ SendErrorMessage(i) \/ \E k \in {"success", "error"} : DropDelivery(<<i, k>>)
              \/ \E t \in Volatile : Destroy(t) \/ Create(t)
       PROVE  Same
  <2>1. UNCHANGED <<state, responses, requests, executors>>
    BY <1>10, ZenonT(60) DEF Respond, SendErrorMessage, DropDelivery, Destroy, Create
  <2>2. QED
    BY <2>1, ZenonT(60) DEF Completing
<1>11. ASSUME UNCHANGED vars PROVE Same
  BY <1>11, ZenonT(60) DEF vars, Completing
<1> HIDE DEF Same
<1>12. QED
  BY <1>1, <1>2, <1>3, <1>4, <1>5, <1>6, <1>7, <1>8, <1>9, <1>10, <1>11, ZenonT(60) DEF Next, Execute, Process, Promise!Next

(* A transaction of the bus keeps the promise of its interface: it implements TransactionPromise. *)
THEOREM PromiseKept == Spec => KeepsPromise
<1>1. Init => Promise!Init
  BY ZenonT(60) DEF Init, Promise!Init, HandlersTold
<1>2. IInv /\ IInv' /\ [Next]_vars => [Promise!Next]_(Promise!promise)
  BY StepSimulation, ZenonT(60)
<1>3. QED
  BY InductiveInvariant, <1>1, <1>2, PTL DEF Spec, KeepsPromise, Promise!Spec
=============================================================================
