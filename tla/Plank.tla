------------------------------- MODULE Plank -------------------------------
(***************************************************************************)
(* The Plank server (plank/pkg/server, plank/pkg/middleware): REST bridges *)
(* to services, their override, middleware, HTTP requests, start and stop. *)
(*                                                                         *)
(* A bridge joins an endpoint (Key) to a service channel. All endpoints of *)
(* a channel share one stream of responses: every response on the channel  *)
(* is put into one bounded Go channel, and an HTTP request that waits      *)
(* takes the first, whoever asked for it. ps.lock is kept over two steps   *)
(* only where a new stream is made.                                        *)
(***************************************************************************)
EXTENDS Services, RestService

CONSTANTS
  PayloadCap,  \* the capacity of a stream's Go channel
  MaxMiddleware, \* bound: middleware of an endpoint
  MaxRest,     \* bound: calls of the REST service
  Uses         \* what the program does: the calls it makes, with their bounds

ASSUME PlankAssumption ==
  /\ PayloadCap \in Nat \ {0} /\ PathPrefix \subseteq Key /\ KeyChannel \in [Key -> ServiceChannel]
  /\ \A u \in Uses : /\ u.channel \subseteq ServiceChannel /\ u.hooks \subseteq BOOLEAN
                     /\ u.request \subseteq Request /\ u.rest \subseteq RestRequest

VARIABLES
  use,
  lock,          \* ps.lock between two steps: empty, or the setup that has it and the endpoint it sets
  bridgeMap,     \* messageBridgeMap: "none", "listening" but not in the map yet, "made"
  payload,       \* the Go channel of a stream: the requests answered
  putting,       \* the responses in goroutines of the stream's handler
  handlers,      \* endpointHandlerMap
  endpoints,     \* serviceChanToBridgeEndpoints
  routers,       \* the routers made so far, each with the handler of its route for an endpoint
  router,        \* ps.router, which the HTTP server uses
  originals,     \* originalHandlersMap of the middleware manager
  waiting,       \* the endpoint an HTTP request waits at
  main,          \* StartServer: "new", "loading", "dialing", "waiting", "returned"
  startRouter,   \* the router that StartServer has read and is to load
  http,          \* the HTTP server: "new", "listening", "closed"
  stop,          \* StopServer: "no", "shutdown", "done"
  teardown,      \* the services in OnServerShutdown
  \* What happened so far.
  asked,         \* the requests made
  answer,        \* the request whose response an HTTP request was answered with, or "timeout"
  disturbed,     \* channels where a request timed out, met another, or came from elsewhere
  bridges,       \* how many bridges were set for an endpoint
  strayed        \* endpoints changed while an override was under way, or through an old router

plankVars == <<lock, bridgeMap, payload, putting, handlers, endpoints, routers, router, originals, waiting,
               main, startRouter, http, stop, teardown, asked, answer, disturbed, bridges, strayed>>
httpVars == <<payload, putting, waiting, asked, answer, disturbed>>
routeVars == <<lock, bridgeMap, handlers, endpoints, routers, router, originals, bridges, strayed>>
serverVars == <<main, startRouter, http, stop, teardown>>
vars == <<serviceVars, plankVars, restVars, use>>

\* A handler: the bridge it was built for, and how many middleware are around it.
Handler(b, m) == [bridge |-> b, middleware |-> m]
None == Handler(0, 0)
NilHandler == Handler(0, 1)

Init ==
  /\ use \in Uses
  /\ ServicesInit /\ RestInit
  /\ lock = << >> /\ router = 1
  /\ bridgeMap = [ch \in ServiceChannel |-> "none"]
  /\ payload = [ch \in ServiceChannel |-> << >>]
  /\ handlers = [k \in Key |-> None] /\ originals = handlers /\ routers = <<handlers>>
  /\ endpoints = [ch \in ServiceChannel |-> {}]
  /\ bridges = [k \in Key |-> 0]
  /\ waiting = [r \in {} |-> None] /\ answer = waiting
  /\ putting = {} /\ teardown = {} /\ asked = {} /\ disturbed = {} /\ strayed = {}
  /\ main = "new" /\ startRouter = 1 /\ http = "new" /\ stop = "no"

-----------------------------------------------------------------------------
\* Setting bridges. An override has made its router but not installed it yet:
Overriding == \E i \in 1 .. Len(setups) : setups[i].at = "load"

KeepServices == UNCHANGED <<services, registered, listening, marking, readyStore, saidReady, serving>>

\* Mutant: the handlers of the cleared endpoints stay.
Cleared_KeepsHandlers(ch) == handlers

Cleared(ch) == [k \in Key |-> IF k \in endpoints[ch] THEN None ELSE handlers[k]]

\* The routes of others are copied, with a path and their methods: a prefix has no
\* methods, and its copy matches no request.
Copied(ch) == [k \in Key |-> IF k \in endpoints[ch] \cup PathPrefix THEN None ELSE routers[router][k]]

ClearBridges(i) ==
  LET ch == setups[i].chan IN
  /\ setups[i].at = "clear" /\ lock = << >>
  /\ routers' = Append(routers, Copied(ch))
  /\ handlers' = Cleared(ch)
  /\ endpoints' = [endpoints EXCEPT ![ch] = {}]
  /\ setups' = [setups EXCEPT ![i].at = "load", ![i].router = Len(routers) + 1]
  /\ strayed' = IF Overriding THEN Key ELSE strayed \cup (PathPrefix \ endpoints[ch])
  /\ KeepServices
  /\ UNCHANGED <<panicked, lock, bridgeMap, router, originals, bridges, httpVars, serverVars>>

\* loadGlobalHttpHandler.
LoadRouter(i) ==
  /\ setups[i].at = "load" /\ lock = << >>
  /\ router' = setups[i].router
  /\ setups' = [setups EXCEPT ![i].at = "set"]
  /\ KeepServices
  /\ UNCHANGED <<panicked, lock, bridgeMap, handlers, endpoints, routers, originals, bridges, strayed, httpVars, serverVars>>

\* The end of SetHttpChannelBridge: a router serves the first route it was given for an endpoint.
AddRoute(k) ==
  LET handler == Handler(bridges[k] + 1, 0) IN
  /\ bridges' = [bridges EXCEPT ![k] = @ + 1]
  /\ handlers' = [handlers EXCEPT ![k] = handler]
  /\ endpoints' = [endpoints EXCEPT ![KeyChannel[k]] = @ \cup {k}]
  /\ routers' = [routers EXCEPT ![router][k] = IF @ = None THEN handler ELSE @]
  /\ strayed' = IF Overriding THEN strayed \cup {k} ELSE strayed

\* SetHttpChannelBridge: nothing for an endpoint that has a handler; else, the first time
\* for a channel, a stream that is subscribed now and put into the map in the next step.
SetHttpChannelBridge(i, k) ==
  LET ch == setups[i].chan IN
  /\ setups[i].at = "set" /\ k \in setups[i].todo /\ lock = << >>
  /\ IF handlers[k] = None /\ bridgeMap[ch] = "none"
     THEN /\ bridgeMap' = [bridgeMap EXCEPT ![ch] = "listening"]
          /\ lock' = <<i, k>>
          /\ UNCHANGED <<setups, handlers, endpoints, routers, bridges, strayed>>
     ELSE /\ setups' = [setups EXCEPT ![i].todo = @ \ {k}]
          /\ IF handlers[k] = None THEN AddRoute(k)
             ELSE UNCHANGED <<handlers, endpoints, routers, bridges, strayed>>
          /\ UNCHANGED <<bridgeMap, lock>>
  /\ KeepServices
  /\ UNCHANGED <<panicked, router, originals, httpVars, serverVars>>

\* The map was not made if the server comes from NewPlatformServerFromConfig.
MapBridge(i, k) ==
  /\ lock = <<i, k>>
  /\ panicked' = use.fromConfig
  /\ bridgeMap' = [bridgeMap EXCEPT ![setups[i].chan] = "made"]
  /\ AddRoute(k)
  /\ setups' = [setups EXCEPT ![i].todo = @ \ {k}]
  /\ lock' = << >>
  /\ KeepServices
  /\ UNCHANGED <<router, originals, httpVars, serverVars>>

\* All bridges are set. A call by the program ends here.
BridgesSet(i) ==
  /\ setups[i].at = "set" /\ setups[i].todo = {}
  /\ setups' = [setups EXCEPT ![i].at = IF setups[i].kind = "program" THEN "ended" ELSE "ready"]
  /\ KeepServices
  /\ UNCHANGED <<panicked, plankVars>>

Setting(i) ==
  \/ (BeginSetup(i) \/ AwaitReady(i)) /\ UNCHANGED plankVars
  \/ ClearBridges(i) \/ LoadRouter(i) \/ BridgesSet(i)
  \/ \E k \in Key : SetHttpChannelBridge(i, k) \/ MapBridge(i, k)

\* A call of SetHttpChannelBridge, or for a prefix of SetHttpPathPrefixChannelBridge, which
\* does the same, by the program. The channel exists.
CallSetHttpChannelBridge(k) ==
  /\ setups' = Append(setups, Setup(KeyChannel[k], {k}, "program", "set"))
  /\ KeepServices
  /\ UNCHANGED <<panicked, plankVars>>

-----------------------------------------------------------------------------
\* Middleware. A route comes from the middleware manager's router, the first, or from ps.router.

\* SetNewMiddleware, with middleware around what is there.
SetNewMiddleware(k, via) ==
  LET handler == Handler(handlers[k].bridge, handlers[k].middleware + 1) IN
  /\ routers[via][k] # None /\ handlers[k] # None
  /\ handlers[k].middleware < MaxMiddleware
  /\ originals' = IF originals[k] = None THEN [originals EXCEPT ![k] = handlers[k]] ELSE originals
  /\ handlers' = [handlers EXCEPT ![k] = handler]
  /\ routers' = [routers EXCEPT ![via][k] = handler]
  /\ strayed' = IF Overriding \/ via # router THEN strayed \cup {k} ELSE strayed
  /\ UNCHANGED <<serviceVars, lock, bridgeMap, endpoints, router, bridges, httpVars, serverVars>>

\* RemoveMiddleware: the handler kept by the first SetNewMiddleware, nil if there was none.
RemoveMiddleware(k, via) ==
  LET handler == IF originals[k] = None THEN NilHandler ELSE originals[k] IN
  /\ routers[via][k] # None /\ handlers[k] # None
  /\ handlers' = [handlers EXCEPT ![k] = handler]
  /\ routers' = [routers EXCEPT ![via][k] = handler]
  /\ strayed' = IF Overriding \/ via # router \/ handler.bridge # bridges[k] THEN strayed \cup {k} ELSE strayed
  /\ UNCHANGED <<serviceVars, lock, bridgeMap, endpoints, router, originals, bridges, httpVars, serverVars>>

-----------------------------------------------------------------------------
\* Requests.

\* The endpoint's handler sends the request to the channel and waits for a response or the timeout.
HttpRequest(r, k) ==
  LET ch == KeyChannel[k] IN
  /\ http = "listening" /\ r \notin asked
  /\ routers[router][k] \notin {None, NilHandler}
  /\ Serve(r, ch)
  /\ waiting' = [q \in DOMAIN waiting \cup {r} |-> IF q = r THEN k ELSE waiting[q]]
  /\ asked' = asked \cup {r}
  /\ disturbed' = IF \E q \in DOMAIN waiting : KeyChannel[waiting[q]] = ch THEN disturbed \cup {ch} ELSE disturbed
  /\ UNCHANGED <<payload, putting, answer, routeVars, serverVars>>

\* Another user of the bus sends a request to the service.
BusRequest(r, ch) ==
  /\ r \notin asked
  /\ Serve(r, ch)
  /\ asked' = asked \cup {r}
  /\ disturbed' = disturbed \cup {ch}
  /\ UNCHANGED <<payload, putting, waiting, answer, routeVars, serverVars>>

\* The service answers on its channel, where the stream may be listening.
SendResponse(r, n) ==
  LET ch == registered[n].chan IN
  /\ Served(r, n)
  /\ putting' = IF bridgeMap[ch] = "none" THEN putting ELSE putting \cup {<<r, ch>>}
  /\ UNCHANGED <<payload, waiting, asked, answer, disturbed, routeVars, serverVars>>

\* Mutant: a stream is subscribed for every endpoint, two of them here.
Put_Twice(q, r) == Append(Append(q, r), r)

Put(q, r) == Append(q, r)

\* The stream's handler: before the bridge is in the map it dereferences nil.
PutPayload(r, ch) ==
  /\ <<r, ch>> \in putting
  /\ putting' = putting \ {<<r, ch>>}
  /\ IF bridgeMap[ch] = "listening"
     THEN panicked' = TRUE /\ UNCHANGED payload
     ELSE /\ Len(payload[ch]) < PayloadCap
          /\ payload' = [payload EXCEPT ![ch] = Put(@, r)]
          /\ UNCHANGED panicked
  /\ KeepServices
  /\ UNCHANGED <<setups, waiting, asked, answer, disturbed, routeVars, serverVars>>

\* The select of the endpoint's handler, and what becomes of an HTTP request.
Ends(r, a) ==
  /\ waiting' = [q \in DOMAIN waiting \ {r} |-> waiting[q]]
  /\ answer' = [q \in DOMAIN answer \cup {r} |-> IF q = r THEN [of |-> a, at |-> waiting[r]] ELSE answer[q]]

TakeResponse(r) ==
  /\ r \in DOMAIN waiting
  /\ LET ch == KeyChannel[waiting[r]] IN
     /\ payload[ch] # << >>
     /\ Ends(r, Head(payload[ch]))
     /\ payload' = [payload EXCEPT ![ch] = Tail(@)]
  /\ UNCHANGED <<serviceVars, putting, asked, disturbed, routeVars, serverVars>>

\* Mutant: no timeout.
Timeout_Never(r) ==
  /\ FALSE
  /\ UNCHANGED vars

Timeout(r) ==
  /\ r \in DOMAIN waiting
  /\ Ends(r, "timeout")
  /\ disturbed' = disturbed \cup {KeyChannel[waiting[r]]}
  /\ UNCHANGED <<serviceVars, payload, putting, asked, routeVars, serverVars>>

-----------------------------------------------------------------------------
\* The server.

\* StartServer reads ps.router and passes it to loadGlobalHttpHandler, which locks.
StartServer ==
  /\ main = "new"
  /\ main' = "loading" /\ startRouter' = router
  /\ UNCHANGED <<serviceVars, routeVars, httpVars, http, stop, teardown>>

\* An override that has loaded its router since is undone.
LoadStartRouter ==
  /\ main = "loading" /\ lock = << >>
  /\ main' = "dialing"
  /\ router' = startRouter
  /\ strayed' = IF startRouter # router THEN Key ELSE strayed
  /\ UNCHANGED <<serviceVars, lock, bridgeMap, handlers, endpoints, routers, originals, bridges, httpVars,
                 startRouter, http, stop, teardown>>

\* The goroutine with ListenAndServe, which returns at once after Shutdown.
Listen ==
  /\ main \notin {"new", "loading"} /\ http = "new"
  /\ http' = "listening"
  /\ UNCHANGED <<serviceVars, routeVars, httpVars, main, startRouter, stop, teardown>>

\* StartServer dials the HTTP server until it answers, and tells subscribers.
Dial ==
  /\ main = "dialing" /\ http = "listening"
  /\ main' = "waiting"
  /\ UNCHANGED <<serviceVars, routeVars, httpVars, startRouter, http, stop, teardown>>

\* A signal: hooks run in goroutines, and Shutdown refuses new requests.
StopServer ==
  /\ main \notin {"new", "loading"} /\ stop = "no"
  /\ stop' = "shutdown"
  /\ teardown' = {GetServiceHooks(ch) : ch \in ServiceChannel} \ {0}
  /\ http' = "closed"
  /\ UNCHANGED <<serviceVars, routeVars, httpVars, main, startRouter>>

OnServerShutdown(n) ==
  /\ n \in teardown
  /\ teardown' = teardown \ {n}
  /\ UNCHANGED <<serviceVars, routeVars, httpVars, main, startRouter, http, stop>>

\* Shutdown returns when no request is left, and wg.Wait when no hook is.
StopReturns ==
  /\ stop = "shutdown" /\ DOMAIN waiting = {} /\ teardown = {}
  /\ stop' = "done"
  /\ UNCHANGED <<serviceVars, routeVars, httpVars, main, startRouter, http, teardown>>

\* The deadline of the shutdown ends the process.
Deadline ==
  /\ stop = "shutdown"
  /\ panicked' = TRUE
  /\ KeepServices
  /\ UNCHANGED <<setups, plankVars>>

StartReturns ==
  /\ main = "waiting" /\ stop = "done"
  /\ main' = "returned"
  /\ UNCHANGED <<serviceVars, routeVars, httpVars, startRouter, http, stop, teardown>>

-----------------------------------------------------------------------------
\* The REST service. The program's calls, and SimpleStreamService as one with hooks:
\* OnServiceReady asks for words, and both functions given to the call say that it is ready.
Words == [payload |-> "request", header |-> "none", coreHeader |-> "none", type |-> "value"]

Fetched(i) == \E c \in DOMAIN rest : rest[c].by = i /\ rest[c].told # << >>

OnServiceReady(i) ==
  /\ setups[i].at = "waiting" /\ ~\E c \in DOMAIN rest : rest[c].by = i
  /\ Len(rest) < MaxRest
  /\ RestServiceRequest(Words, i)

-----------------------------------------------------------------------------
Called(call) == call \in use.calls

\* The program, its services and HTTP clients.
Calls ==
  \/ /\ \E ch \in use.channel :
          \/ \E hooks \in use.hooks : Len(registered) < use.service /\ Len(setups) < use.setup /\ RegisterService(ch, hooks)
          \/ Called("unregister") /\ UnregisterService(ch)
          \/ /\ Called("override") /\ Len(setups) < use.setup
             /\ \E config \in SUBSET KeysOf(ch) : OverrideRESTBridgeConfig(ch, config)
     /\ UNCHANGED plankVars
  \/ Called("bridge") /\ Len(setups) < use.setup /\ \E k \in Key : KeyChannel[k] \in use.channel /\ CallSetHttpChannelBridge(k)
  \/ Called("middleware") /\ \E k \in Key, via \in {1, router} : SetNewMiddleware(k, via) \/ RemoveMiddleware(k, via)
  \/ \E r \in use.request : (\E k \in Key : HttpRequest(r, k)) \/ (Called("bus") /\ \E ch \in use.channel : BusRequest(r, ch))
  \/ \E r \in asked, n \in DOMAIN registered : SendResponse(r, n)
  \/ (\E i \in DOMAIN setups, said \in use.ready : (Called("fetch") => Fetched(i)) /\ PutReady(i, said)) /\ UNCHANGED plankVars
  \/ Called("server") /\ (StartServer \/ StopServer \/ Deadline)
  \/ \E n \in teardown : OnServerShutdown(n)

RestCalls ==
  \/ \E wanted \in use.rest : Len(rest) < MaxRest /\ RestServiceRequest(wanted, 0)
  \/ Called("fetch") /\ \E i \in DOMAIN setups : OnServiceReady(i)
  \/ Called("error") /\ strayErrors = 0 /\ SendErrorMessage
  \/ \E c \in DOMAIN rest : SendRequest(c) \/ HandleServiceRequest(c) \/ HttpResponse(c)

\* What goes on by itself.
Setups == (\E i \in DOMAIN setups : Setting(i)) \/ ((\E n \in marking : MarkReady(n)) /\ UNCHANGED plankVars)
Streams == \E r \in asked, ch \in ServiceChannel : PutPayload(r, ch)
Requests == ~panicked /\ (\E r \in asked : TakeResponse(r) \/ Timeout(r)) /\ UNCHANGED <<restVars, use>>
Server ==
  /\ ~panicked
  /\ LoadStartRouter \/ Listen \/ Dial \/ StopReturns \/ StartReturns
  /\ UNCHANGED <<restVars, use>>
RestHandlers == ~panicked /\ (\E m \in arriving : Tell(m)) /\ UNCHANGED <<serviceVars, plankVars, use>>

Next ==
  \/ ~panicked /\ (Calls \/ Setups \/ Streams) /\ UNCHANGED <<restVars, use>>
  \/ ~panicked /\ RestCalls /\ UNCHANGED <<serviceVars, plankVars, use>>
  \/ Requests \/ Server \/ RestHandlers

Spec == Init /\ [][Next]_vars

\* Timers and goroutines go on; services and their hooks need not.
FairSpec == Spec /\ WF_vars(Requests) /\ WF_vars(Server) /\ WF_vars(RestHandlers)

-----------------------------------------------------------------------------
(***************************************************************************)
(* An HTTP request is answered with the response to it, or with a timeout, *)
(* unless another request was under way at the same channel, one timed out *)
(* there before, or others use the channel: then it may get the response   *)
(* to another request (endpointer_handler_factory.go:36, server.go:339).   *)
(***************************************************************************)
OwnAnswer ==
  \A r \in DOMAIN answer :
    answer[r].of \in {r, "timeout"} \/ KeyChannel[answer[r].at] \in disturbed

(***************************************************************************)
(* What endpointHandlerMap has for an endpoint is the last bridge set for  *)
(* it, and the router in use has it, too, through overrides and middleware *)
(* (server.go:473, middleware_manager.go:44). Not so for an endpoint that  *)
(* is changed between the two steps of an override, or, after one, through *)
(* the router or the handler the middleware manager keeps from before; nor *)
(* for a path prefix, which an override of any other service drops; nor    *)
(* when StartServer loads the router it read before (server.go:149).       *)
(***************************************************************************)
RoutesFollow ==
  \A k \in Key \ strayed : handlers[k] # None =>
    handlers[k].bridge = bridges[k] /\ (~Overriding => routers[router][k] = handlers[k])

(***************************************************************************)
(* After a signal StartServer returns once the hooks have, without the     *)
(* deadline: requests that wait end by their timeout (server.go:196, 222). *)
(* But a signal that comes before the HTTP server has answered leaves      *)
(* StartServer dialing for ever (server.go:206).                           *)
(***************************************************************************)
ShutdownEnds ==
  (stop # "no" /\ teardown = {}) ~> (main = "returned" \/ panicked \/ main = "dialing")

(***************************************************************************)
(* When the REST service is done with a request, on whichever path, the    *)
(* functions given to the call are told, so that a service which is ready  *)
(* with the answer says so (rest_service.go:66, simple-stream-service.go:  *)
(* 69-82). Nothing is owed while the HTTP request is out.                  *)
(***************************************************************************)
RestEnds ==
  LET owed == \E c \in DOMAIN rest : rest[c].at = "answered" /\ rest[c].told = << >> IN
  owed ~> ~owed
=============================================================================
