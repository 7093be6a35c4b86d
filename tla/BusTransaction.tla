--------------------------- MODULE BusTransaction ---------------------------
(***************************************************************************)
(* A transaction of bus/transaction.go: requests to channels and waits for *)
(* stores that are collected, committed together, executed all at once     *)
(* (async) or one after the answer to the other (sync), and end in one     *)
(* round of complete handlers or one round of error handlers.              *)
(*                                                                         *)
(* Every operation takes tr.lock.  Commit keeps it while it executes       *)
(* requests; the functions that process an answer take it, and in a sync   *)
(* transaction execute the next request after they have released it.  A    *)
(* channel request is listened for with ListenOnceForDestination, whose    *)
(* sync.Once lets one answer or error through.                             *)
(***************************************************************************)
EXTENDS Integers, Sequences, FiniteSets

CONSTANTS
  Channel,     \* names of channels
  Store,       \* names of stores
  Volatile,    \* the channels and stores other code may destroy and create
  MaxRequest,  \* bound: requests of the transaction
  MaxHandler   \* bound: complete handlers, and error handlers

ASSUME TransactionAssumption ==
  /\ Channel \cap Store = {}
  /\ Volatile \subseteq Channel \cup Store
  /\ MaxRequest \in Nat
  /\ MaxHandler \in Nat

Target == Channel \cup Store
Index == 1 .. MaxRequest

VARIABLES
  transactionType,    \* "async" or "sync"; given to newBusTransaction
  state,              \* transactionState
  lock,               \* tr.lock: "free", or "commit" while Commit holds it; other holders are single steps
  requests,           \* the target of each request
  responses,          \* the requests whose response is in tr.responses
  completedRequests,
  onCompleteHandlers, \* the number of handlers registered
  onErrorHandlers,
  completeCalls,      \* goroutines started that run a complete handler
  errorCalls,         \* goroutines started that run an error handler
  executors,          \* goroutines inside executeRequest, or about to start the complete handlers
  listening,          \* requests whose once handler is subscribed
  waiting,            \* requests with a WhenReady goroutine that has not run yet
  settled,            \* requests whose Once, or WhenReady goroutine, has run
  sent,               \* requests whose message was sent
  inbox,              \* deliveries to the once handlers under way: request and "success" or "error"
  up                  \* the channels and stores that exist

vars == <<transactionType, state, lock, requests, responses, completedRequests, onCompleteHandlers, onErrorHandlers, completeCalls,
          errorCalls, executors, listening, waiting, settled, sent, inbox, up>>
outcome == <<state, responses, completedRequests, completeCalls, errorCalls>>
registered == <<transactionType, requests, onCompleteHandlers, onErrorHandlers>>
subscriptions == <<listening, waiting, settled, sent, inbox>>

Init ==
  /\ transactionType \in {"async", "sync"}
  /\ state = "uncommitted"
  /\ lock = "free"
  /\ requests = << >>
  /\ responses = {}
  /\ completedRequests = 0
  /\ onCompleteHandlers = 0
  /\ onErrorHandlers = 0
  /\ completeCalls = 0
  /\ errorCalls = 0
  /\ executors = {}
  /\ listening = {}
  /\ waiting = {}
  /\ settled = {}
  /\ sent = {}
  /\ inbox = {}
  /\ up = Target

-----------------------------------------------------------------------------
(* Building the transaction.  Each call is refused once it is committed. *)

checkUncommittedState == state = "uncommitted"

SendRequest(c) ==
  /\ lock = "free" /\ checkUncommittedState
  /\ Len(requests) < MaxRequest
  /\ requests' = Append(requests, c)
  /\ UNCHANGED <<transactionType, lock, outcome, onCompleteHandlers, onErrorHandlers, executors, subscriptions, up>>

WaitForStoreReady(s) ==
  /\ lock = "free" /\ checkUncommittedState
  /\ s \in up
  /\ Len(requests) < MaxRequest
  /\ requests' = Append(requests, s)
  /\ UNCHANGED <<transactionType, lock, outcome, onCompleteHandlers, onErrorHandlers, executors, subscriptions, up>>

OnComplete ==
  /\ lock = "free" /\ checkUncommittedState
  /\ onCompleteHandlers < MaxHandler
  /\ onCompleteHandlers' = onCompleteHandlers + 1
  /\ UNCHANGED <<transactionType, lock, outcome, requests, onErrorHandlers, executors, subscriptions, up>>

OnError ==
  /\ lock = "free" /\ checkUncommittedState
  /\ onErrorHandlers < MaxHandler
  /\ onErrorHandlers' = onErrorHandlers + 1
  /\ UNCHANGED <<transactionType, lock, outcome, requests, onCompleteHandlers, executors, subscriptions, up>>

\* An empty transaction is refused.  The lock stays with Commit, which starts with request 1.
Commit ==
  /\ lock = "free" /\ checkUncommittedState
  /\ requests # << >>
  /\ state' = "committed"
  /\ lock' = "commit"
  /\ executors' = {[by |-> "commit", at |-> "start", i |-> 1]}
  /\ UNCHANGED <<registered, responses, completedRequests, completeCalls, errorCalls, subscriptions, up>>

-----------------------------------------------------------------------------
(* executeRequest, by Commit or by the function that processed the previous answer. *)

Goes(e, at) == executors' = (executors \ {e}) \cup {[e EXCEPT !.at = at]}

\* Mutants of Done: the loop runs past the last request; a sync transaction loops as well;
\* Commit does not unlock.
Done_PastTheEnd(e) ==
  IF e.by = "commit" /\ transactionType = "async"
  THEN executors' = (executors \ {e}) \cup {[e EXCEPT !.at = "start", !.i = @ + 1]} /\ UNCHANGED lock
  ELSE executors' = executors \ {e} /\ UNCHANGED lock

Done_AlwaysAsync(e) ==
  IF e.by = "commit" /\ e.i < Len(requests)
  THEN executors' = (executors \ {e}) \cup {[e EXCEPT !.at = "start", !.i = @ + 1]} /\ UNCHANGED lock
  ELSE executors' = executors \ {e} /\ lock' = "free"

Done_KeepsLock(e) ==
  IF e.by = "commit" /\ transactionType = "async" /\ e.i < Len(requests)
  THEN executors' = (executors \ {e}) \cup {[e EXCEPT !.at = "start", !.i = @ + 1]} /\ UNCHANGED lock
  ELSE executors' = executors \ {e} /\ UNCHANGED lock

\* startAsyncTransaction goes on with the next request; otherwise the goroutine is through,
\* and Commit gives the lock back.
Done(e) ==
  IF e.by = "commit" /\ transactionType = "async" /\ e.i < Len(requests)
  THEN /\ executors' = (executors \ {e}) \cup {[e EXCEPT !.at = "start", !.i = @ + 1]}
       /\ UNCHANGED lock
  ELSE /\ executors' = executors \ {e}
       /\ lock' = IF e.by = "commit" THEN "free" ELSE lock

\* The channel, or the store, of the request is unknown.
NotFound(e) ==
  /\ e.at = "start"
  /\ requests[e.i] \notin up
  /\ Goes(e, "fail")
  /\ UNCHANGED <<lock, outcome, registered, subscriptions, up>>

\* sendRequest: ListenOnceForDestination finds the channel.
ListenForAnswer(e) ==
  /\ e.at = "start"
  /\ requests[e.i] \in up \cap Channel
  /\ Goes(e, "handle")
  /\ UNCHANGED <<lock, outcome, registered, subscriptions, up>>

\* Handle subscribes if the channel is still there; its error is dropped.
HandleAnswer(e) ==
  /\ e.at = "handle"
  /\ listening' = listening \cup {i \in {e.i} : requests[i] \in up}
  /\ Goes(e, "send")
  /\ UNCHANGED <<lock, outcome, registered, waiting, settled, sent, inbox, up>>

\* SendRequestMessage; its error is dropped too.
SendRequestMessage(e) ==
  /\ e.at = "send"
  /\ sent' = sent \cup {i \in {e.i} : requests[i] \in up}
  /\ Done(e)
  /\ UNCHANGED <<outcome, registered, listening, waiting, settled, inbox, up>>

\* waitForStore: WhenReady starts a goroutine that waits for the store.
waitForStore(e) ==
  /\ e.at = "start"
  /\ requests[e.i] \in up \cap Store
  /\ waiting' = waiting \cup {e.i}
  /\ Done(e)
  /\ UNCHANGED <<outcome, registered, listening, settled, sent, inbox, up>>

-----------------------------------------------------------------------------
(* Answers and errors. *)

\* onTransactionError under the lock: the first error aborts, and starts the error handlers.
Abort ==
  IF state = "aborted" THEN UNCHANGED outcome
  ELSE /\ state' = "aborted"
       /\ errorCalls' = errorCalls + onErrorHandlers
       /\ UNCHANGED <<responses, completedRequests, completeCalls>>

\* executeRequest reports the missing channel or store.  Commit still holds tr.lock when it
\* gets here, and sync.Mutex is not reentrant.
FailExecution(e) ==
  /\ e.at = "fail"
  /\ lock = "free"
  /\ Abort
  /\ Done(e)
  /\ UNCHANGED <<registered, subscriptions, up>>

\* onTransactionRequestSuccess for request i; what follows the unlock is a new executor.
Succeed(i) ==
  IF state = "aborted" THEN UNCHANGED <<outcome, executors>>
  ELSE /\ responses' = responses \cup {i}
       /\ completedRequests' = completedRequests + 1
       /\ state' = IF completedRequests' = Len(requests) THEN "completed" ELSE state
       /\ executors' = executors \cup
            (IF completedRequests' = Len(requests) THEN {[by |-> "handler", at |-> "complete", i |-> i]}
             ELSE IF transactionType = "sync" /\ i < Len(requests) THEN {[by |-> "handler", at |-> "start", i |-> i + 1]}
             ELSE {})
       /\ UNCHANGED <<completeCalls, errorCalls>>

\* The complete handlers are started after the unlock.
StartCompleteHandlers(e) ==
  /\ e.at = "complete"
  /\ completeCalls' = completeCalls + onCompleteHandlers
  /\ executors' = executors \ {e}
  /\ UNCHANGED <<state, lock, responses, completedRequests, errorCalls, registered, subscriptions, up>>

\* Mutants of the deliveries: no Once.
RunAnswer_NoOnce(i) ==
  /\ <<i, "success">> \in inbox
  /\ lock = "free"
  /\ Succeed(i)
  /\ settled' = settled \cup {i}
  /\ inbox' = inbox \ {<<i, "success">>}
  /\ UNCHANGED <<lock, registered, listening, waiting, sent, up>>

RunError_NoOnce(i) ==
  /\ <<i, "error">> \in inbox
  /\ lock = "free"
  /\ Abort
  /\ settled' = settled \cup {i}
  /\ listening' = listening \ {i}
  /\ inbox' = inbox \ {<<i, "error">>}
  /\ UNCHANGED <<lock, registered, executors, waiting, sent, up>>

\* The goroutine of a delivery for request i: the Once lets the first one through, the lock is
\* taken inside it.  The once handler then unsubscribes.
RunAnswer(i) ==
  /\ <<i, "success">> \in inbox /\ i \notin settled
  /\ lock = "free"
  /\ Succeed(i)
  /\ settled' = settled \cup {i}
  /\ listening' = listening \ {i}
  /\ inbox' = inbox \ {<<i, "success">>}
  /\ UNCHANGED <<lock, registered, waiting, sent, up>>

RunError(i) ==
  /\ <<i, "error">> \in inbox /\ i \notin settled
  /\ lock = "free"
  /\ Abort
  /\ settled' = settled \cup {i}
  /\ listening' = listening \ {i}
  /\ inbox' = inbox \ {<<i, "error">>}
  /\ UNCHANGED <<lock, registered, executors, waiting, sent, up>>

DropDelivery(d) ==
  /\ d \in inbox /\ d[1] \in settled
  /\ inbox' = inbox \ {d}
  /\ UNCHANGED <<lock, outcome, registered, executors, listening, waiting, settled, sent, up>>

\* The function given to WhenReady, once the store is ready.
RunReady(i) ==
  /\ i \in waiting
  /\ lock = "free"
  /\ Succeed(i)
  /\ settled' = settled \cup {i}
  /\ waiting' = waiting \ {i}
  /\ UNCHANGED <<lock, registered, listening, sent, inbox, up>>

-----------------------------------------------------------------------------
(* The rest of the program.  Messages reach the object a handler is subscribed to whether or
   not its channel is destroyed meanwhile, for a sender may have found it before. *)

\* A response that carries the request's id; a responder may send several.
Respond(i) ==
  /\ i \in listening \cap sent
  /\ inbox' = inbox \cup {<<i, "success">>}
  /\ UNCHANGED <<lock, outcome, registered, executors, listening, waiting, settled, sent, up>>

\* An error message on the channel, whatever it is about.
SendErrorMessage(i) ==
  /\ i \in listening
  /\ inbox' = inbox \cup {<<i, "error">>}
  /\ UNCHANGED <<lock, outcome, registered, executors, listening, waiting, settled, sent, up>>

Destroy(t) ==
  /\ up' = up \ {t}
  /\ UNCHANGED <<lock, outcome, registered, executors, subscriptions>>

Create(t) ==
  /\ up' = up \cup {t}
  /\ UNCHANGED <<lock, outcome, registered, executors, subscriptions>>

Execute(e) ==
  \/ NotFound(e) \/ ListenForAnswer(e) \/ HandleAnswer(e) \/ SendRequestMessage(e) \/ waitForStore(e)
  \/ FailExecution(e) \/ StartCompleteHandlers(e)

Process(i) ==
  \/ RunAnswer(i) \/ RunError(i)
  \/ \E k \in {"success", "error"} : DropDelivery(<<i, k>>)

Next ==
  \/ \E c \in Channel : SendRequest(c)
  \/ \E s \in Store : WaitForStoreReady(s)
  \/ OnComplete \/ OnError \/ Commit
  \/ \E e \in executors : Execute(e)
  \/ \E i \in Index : Process(i) \/ RunReady(i) \/ Respond(i) \/ SendErrorMessage(i)
  \/ \E t \in Volatile : Destroy(t) \/ Create(t)

Spec == Init /\ [][Next]_vars

(***************************************************************************)
(* Commit, and the goroutines of deliveries, are running code and go on    *)
(* once they get the lock; that responders answer and stores become ready  *)
(* is not assumed.                                                         *)
(***************************************************************************)
Fairness ==
  /\ WF_vars(\E e \in executors : Execute(e))
  /\ \A i \in Index : WF_vars(Process(i))

FairSpec == Spec /\ Fairness

-----------------------------------------------------------------------------
Requested == 1 .. Len(requests)
Executor == [by : {"commit", "handler"}, at : {"start", "handle", "send", "fail", "complete"}, i : Index]

(* The type of every variable of the transaction. *)
TypeOK ==
  /\ transactionType \in {"async", "sync"}
  /\ state \in {"uncommitted", "committed", "completed", "aborted"}
  /\ lock \in {"free", "commit"}
  /\ requests \in Seq(Target) /\ Len(requests) <= MaxRequest
  /\ responses \in SUBSET Requested
  /\ completedRequests \in Nat
  /\ onCompleteHandlers \in Nat /\ onErrorHandlers \in Nat
  /\ completeCalls \in Nat /\ errorCalls \in Nat
  /\ executors \in SUBSET {e \in Executor : e.i \in Requested}
  /\ listening \in SUBSET Requested
  /\ waiting \in SUBSET Requested
  /\ settled \in SUBSET Requested
  /\ sent \in SUBSET Requested
  /\ inbox \in SUBSET (Requested \X {"success", "error"})
  /\ up \in SUBSET Target

Completing == \E e \in executors : e.at = "complete"

(* Every registered handler is told the outcome, of one kind, once: error handlers when the
   transaction aborted, complete handlers when it completed, none before.  onTransactionError
   does not look for completedState: that an error finds no completed transaction rests on the
   Once of each request. *)
ToldOnce ==
  /\ errorCalls = (IF state = "aborted" THEN onErrorHandlers ELSE 0)
  /\ completeCalls = (IF state = "completed" /\ ~Completing THEN onCompleteHandlers ELSE 0)

(* A sync transaction executes a request only after the answers to all before it. *)
SyncOrder ==
  transactionType = "sync" =>
    \A i \in listening \cup waiting \cup sent \cup settled : 1 .. (i - 1) \subseteq responses

HandlersTold ==
  IF state = "aborted" THEN "error"
  ELSE IF state = "completed" /\ ~Completing THEN "complete" ELSE "nobody"

Promise ==
  INSTANCE TransactionPromise WITH
    phase <- state, size <- Len(requests), answers <- responses, told <- HandlersTold

(* The transaction keeps the promise of its interface, module TransactionPromise: every request
   is answered at most once, completion comes exactly with the last answer, no error ends a
   completed transaction, and nothing happens after an abort. *)
KeepsPromise == Promise!Spec

Answered(i) == i \in settled \/ \E k \in {"success", "error"} : <<i, k>> \in inbox
Told == state = "aborted" \/ (state = "completed" /\ ~Completing)

(* "all requests will be sent and will wait for responses.  Once all the responses are in,
   onComplete handlers will be called": when every request of a committed transaction has
   been answered, the transaction comes to an end. *)
AnsweredEnds == (state = "committed" /\ \A i \in Requested : Answered(i)) ~> Told

(* "If an error is thrown by any of the responders, the transaction is aborted and the error
   sent to the registered errorHandlers": an error that reaches a request aborts, unless an
   answer to that request was processed first. *)
ErrorAborts ==
  \A i \in Index : (<<i, "error">> \in inbox) ~> (state = "aborted" \/ i \in responses)
=============================================================================
