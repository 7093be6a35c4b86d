---------------------------- MODULE PlankProofs ----------------------------
(***************************************************************************)
(* Proofs about Plank with Services and RestService, for any channels,     *)
(* endpoints, requests and programs. The four invariants rest on parts of  *)
(* the state that hardly meet, so each has a strengthening of its own:     *)
(*                                                                         *)
(* Telling: what is on its way to a caller of the REST service answers a   *)
(*   call, in the form that call asked for.                                *)
(* Readiness: a service is the last one registered at its channel, and a   *)
(*   goroutine that waits for a service has one of its own channel.        *)
(* Undisturbed: at a channel that is not disturbed one request waits, and  *)
(*   there is one response at most on its way, to that request.            *)
(* Routing: the router in use, or about to be, agrees with the handlers;   *)
(*   a second override at the same time strays every endpoint.             *)
(***************************************************************************)
EXTENDS Plank, SequenceTheorems, TLAPS

ServiceType == [chan : ServiceChannel, hooks : BOOLEAN]
SetupType ==
  [chan : ServiceChannel, todo : SUBSET Key, kind : {"register", "override", "program"},
   at : {"new", "clear", "load", "set", "ready", "waiting", "ended"}, hooks : Nat, router : Nat]
HandlerType == [bridge : Nat, middleware : Nat]
Message == [of : Nat, result : {"error", "string", "bytes", "value", "map"}]
CallType ==
  [asked : RestRequest, by : Nat, at : {"listening", "sent", "http", "answered"}, told : Seq(Message)]

RestTypes == use \in Uses /\ rest \in Seq(CallType)
ServiceTypes ==
  services \in [ServiceChannel -> Nat] /\ registered \in Seq(ServiceType) /\ setups \in Seq(SetupType)
HttpTypes == payload \in [ServiceChannel -> Seq(Request)] /\ asked \subseteq Request
RouteTypes ==
  /\ handlers \in [Key -> HandlerType] /\ originals \in [Key -> HandlerType]
  /\ routers \in Seq([Key -> HandlerType])
  /\ router \in 1 .. Len(routers) /\ startRouter \in 1 .. Len(routers)
  /\ endpoints \in [ServiceChannel -> SUBSET Key] /\ bridges \in [Key -> Nat] /\ strayed \subseteq Key

-----------------------------------------------------------------------------
\* What deserializeResponse may make of an answer to a call, with errors.
Fits(wanted, result) ==
  \/ result = "error"
  \/ ContentType(wanted) # "json" /\ result = "bytes"
  \/ result = CASE wanted.payload = "javaString" -> "string"
                [] wanted.payload = "request" /\ wanted.type # "none" -> wanted.type
                [] OTHER -> "map"

\* A message of the REST service's channel.
Genuine(m) ==
  \/ m.of = 0 /\ m.result = "error"
  \/ m.of \in DOMAIN rest /\ rest[m.of].at = "answered" /\ Fits(rest[m.of].asked, m.result)

Telling ==
  /\ \A m \in arriving : m.of \in Nat /\ m.to \in DOMAIN rest /\ Genuine(m)
  /\ \A c \in DOMAIN rest : rest[c].told # << >> =>
       rest[c].told[1].of \in {0, c} /\ Genuine(rest[c].told[1])

Readiness ==
  /\ marking \subseteq DOMAIN registered
  /\ \A ch \in ServiceChannel : services[ch] # 0 =>
       /\ services[ch] \in DOMAIN registered /\ registered[services[ch]].chan = ch
       /\ \A n \in DOMAIN registered : registered[n].chan = ch => n <= services[ch]
  /\ \A ch \in readyStore : \E n \in DOMAIN registered : registered[n].chan = ch
  /\ \A i \in DOMAIN setups :
       /\ setups[i].hooks # 0 =>
            setups[i].hooks \in DOMAIN registered /\ registered[setups[i].hooks].chan = setups[i].chan
       /\ setups[i].at = "waiting" => panicked \/ setups[i].hooks # 0

\* The requests that wait at a channel, and the responses on their way to it.
Here(ch) == {r \in DOMAIN waiting : KeyChannel[waiting[r]] = ch}
ServedAt(ch) == {s \in serving : registered[s[2]].chan = ch}
PutAt(ch) == {p \in putting : p[2] = ch}
Single(ch) ==
  /\ \A q, r \in Here(ch) : q = r
  /\ \A s \in ServedAt(ch) :
       s[1] \in Here(ch) /\ PutAt(ch) = {} /\ payload[ch] = << >> /\ \A t \in ServedAt(ch) : s = t
  /\ \A p \in PutAt(ch) : p[1] \in Here(ch) /\ payload[ch] = << >>
  /\ payload[ch] # << >> => Len(payload[ch]) = 1 /\ payload[ch][1] \in Here(ch)

Undisturbed ==
  /\ DOMAIN waiting \subseteq asked /\ \A r \in DOMAIN waiting : waiting[r] \in Key
  /\ \A r \in DOMAIN answer : answer[r].at \in Key
  /\ serving \subseteq asked \X DOMAIN registered /\ putting \subseteq asked \X ServiceChannel
  /\ \A n \in listening : n \in DOMAIN registered /\ services[registered[n].chan] = n
  /\ \A ch \in ServiceChannel \ disturbed : Single(ch)

Routing ==
  /\ lock = << >> \/ \E i \in DOMAIN setups, k \in Key : lock = <<i, k>> /\ handlers[k] = None
  /\ \A i, j \in DOMAIN setups : setups[i].at = "load" /\ setups[j].at = "load" => i = j \/ strayed = Key
  /\ \A i \in DOMAIN setups : setups[i].at = "load" =>
       /\ setups[i].router \in DOMAIN routers
       /\ \A k \in Key \ strayed : routers[setups[i].router][k] = handlers[k]
  /\ \A k \in Key \ strayed :
       /\ ~Overriding => routers[router][k] = handlers[k]
       /\ handlers[k] # None => handlers[k].bridge = bridges[k]

Rest == RestTypes /\ Telling
Service == ServiceTypes /\ Readiness /\ ReadyIsTrue
Http == HttpTypes /\ Undisturbed /\ OwnAnswer
Route == RouteTypes /\ Routing

IInv == Rest /\ Service /\ Http /\ Route

-----------------------------------------------------------------------------
ServiceStep ==
  \/ \E ch \in use.channel :
       \/ \E hooks \in use.hooks : RegisterService(ch, hooks)
       \/ UnregisterService(ch)
       \/ \E config \in SUBSET KeysOf(ch) : OverrideRESTBridgeConfig(ch, config)
  \/ \E n \in marking : MarkReady(n)
  \/ \E i \in DOMAIN setups : BeginSetup(i) \/ AwaitReady(i) \/ \E said \in use.ready : PutReady(i, said)

SetupStep ==
  \/ \E i \in DOMAIN setups : \/ ClearBridges(i) \/ LoadRouter(i) \/ BridgesSet(i)
                              \/ \E k \in Key : SetHttpChannelBridge(i, k) \/ MapBridge(i, k)
  \/ \E k \in Key : CallSetHttpChannelBridge(k)

MiddlewareStep == \E k \in Key, via \in {1, router} : SetNewMiddleware(k, via) \/ RemoveMiddleware(k, via)

RequestStep ==
  \/ \E r \in use.request : (\E k \in Key : HttpRequest(r, k)) \/ (\E ch \in use.channel : BusRequest(r, ch))
  \/ \E r \in asked, n \in DOMAIN registered : SendResponse(r, n)
  \/ \E r \in asked, ch \in ServiceChannel : PutPayload(r, ch)
  \/ \E r \in asked : TakeResponse(r) \/ Timeout(r)

ServerStep ==
  \/ StartServer \/ LoadStartRouter \/ Listen \/ Dial \/ StopServer \/ StopReturns \/ Deadline \/ StartReturns
  \/ \E n \in teardown : OnServerShutdown(n)

(* Whose step a step is, and what it leaves alone: the REST service shares no state with the others. *)
LEMMA Steps ==
  ASSUME [Next]_vars
  PROVE  \/ UNCHANGED vars
         \/ /\ ~panicked /\ UNCHANGED <<restVars, use>>
            /\ \/ ServiceStep /\ UNCHANGED plankVars
               \/ SetupStep \/ MiddlewareStep \/ RequestStep \/ ServerStep
         \/ /\ ~panicked /\ UNCHANGED <<serviceVars, plankVars, use>>
            /\ RestCalls \/ \E m \in arriving : Tell(m)
  <1>1. CASE UNCHANGED vars
    BY <1>1, ZenonT(60)
  <1>2. CASE ~panicked /\ Calls /\ UNCHANGED <<restVars, use>>
    BY <1>2, ZenonT(60) DEF Calls, ServiceStep, SetupStep, MiddlewareStep, RequestStep, ServerStep
  <1>3. CASE ~panicked /\ Setups /\ UNCHANGED <<restVars, use>>
    BY <1>3, ZenonT(60) DEF Setups, Setting, ServiceStep, SetupStep
  <1>4. CASE ~panicked /\ Streams /\ UNCHANGED <<restVars, use>>
    BY <1>4, ZenonT(60) DEF Streams, RequestStep
  <1>5. CASE ~panicked /\ RestCalls /\ UNCHANGED <<serviceVars, plankVars, use>>
    BY <1>5, ZenonT(60)
  <1>6. CASE Requests \/ Server
    BY <1>6, ZenonT(60) DEF Requests, Server, RequestStep, ServerStep
  <1>7. CASE RestHandlers
    BY <1>7, ZenonT(60) DEF RestHandlers
  <1>8. QED
    BY <1>1, <1>2, <1>3, <1>4, <1>5, <1>6, <1>7, ZenonT(60) DEF Next

-----------------------------------------------------------------------------
\* The REST service.

(* The elements of a sequence, and their indices. *)
LEMMA Element ==
  ASSUME NEW T, NEW s \in Seq(T), NEW i \in DOMAIN s
  PROVE  s[i] \in T /\ i \in Nat /\ i # 0
  BY SMTT(60)

(* A sequence with one element replaced. *)
LEMMA Replaced ==
  ASSUME NEW T, NEW s \in Seq(T), NEW i \in DOMAIN s, NEW e \in T
  PROVE  LET new == [s EXCEPT ![i] = e] IN
         /\ new \in Seq(T) /\ DOMAIN new = DOMAIN s /\ Len(new) = Len(s)
         /\ new[i] = e /\ \A j \in DOMAIN s : j # i => new[j] = s[j]
  BY SMTT(60)

(* A sequence with one element added. *)
LEMMA Longer ==
  ASSUME NEW T, NEW s \in Seq(T), NEW e \in T
  PROVE  LET new == Append(s, e) IN
         /\ new \in Seq(T) /\ DOMAIN new = DOMAIN s \cup {Len(s) + 1} /\ Len(new) = Len(s) + 1
         /\ new[Len(s) + 1] = e /\ \A j \in DOMAIN s : new[j] = s[j]
  BY SMTT(60)

(* The fields of an HTTP handler. *)
LEMMA HandlerFields ==
  /\ \A h \in HandlerType : h.bridge \in Nat /\ h.middleware + 1 \in Nat
  /\ \A b, m \in Nat : Handler(b, m) \in HandlerType /\ Handler(b, m).bridge = b
  /\ NilHandler \in HandlerType
  BY SMTT(60) DEF HandlerType, Handler, NilHandler

(* What the service makes of a body fits what was asked for. *)
LEMMA Deserialized ==
  ASSUME NEW wanted \in RestRequest, NEW body \in {"object", "value", "text"}
  PROVE  LET result == deserializeResponse(body, ResponseType(wanted)) IN
         Fits(wanted, result) /\ result \in {"error", "string", "bytes", "value", "map"}
  <1>1. CASE ContentType(wanted) # "json"
    BY <1>1, ZenonT(60) DEF deserializeResponse, ResponseType, Fits
  <1>2. CASE ContentType(wanted) = "json" /\ wanted.payload = "javaString"
    BY <1>2, ZenonT(60) DEF deserializeResponse, ResponseType, Fits
  <1>3. CASE ContentType(wanted) = "json" /\ wanted.payload = "request"
    BY <1>3, ZenonT(60) DEF deserializeResponse, ResponseType, Fits, RestRequest
  <1>4. CASE ContentType(wanted) = "json" /\ wanted.payload \notin {"request", "javaString"}
    BY <1>4, ZenonT(60) DEF deserializeResponse, ResponseType, Fits
  <1>5. QED
    BY <1>1, <1>2, <1>3, <1>4, ZenonT(60)

(* A message to every subscribed handler keeps what is said of messages. *)
LEMMA AnswerKeeps ==
  ASSUME Rest, NEW c \in DOMAIN rest, NEW result \in {"error", "string", "bytes", "value", "map"},
         Fits(rest[c].asked, result), Answer(c, result), UNCHANGED use
  PROVE  Rest'
  <1>1. /\ rest' \in Seq(CallType) /\ DOMAIN rest' = DOMAIN rest
        /\ \A d \in DOMAIN rest : rest'[d].asked = rest[d].asked /\ rest'[d].told = rest[d].told
        /\ \A d \in DOMAIN rest : rest[d].at = "answered" \/ d = c => rest'[d].at = "answered"
    <2> DEFINE call == [rest[c] EXCEPT !.at = "answered"]
    <2>1. rest \in Seq(CallType) /\ rest[c] \in CallType
      BY Element, ZenonT(60) DEF Rest, RestTypes
    <2>2. call \in CallType /\ call.asked = rest[c].asked /\ call.told = rest[c].told /\ call.at = "answered"
      BY <2>1, ZenonT(60) DEF CallType
    <2>3. rest' = [rest EXCEPT ![c] = call]
      BY ZenonT(60) DEF Answer
    <2> HIDE DEF call
    <2>4. QED
      BY <2>1, <2>2, <2>3, Replaced, ZenonT(60)
  <1>2. \A m : Genuine(m) => Genuine(m)'
    BY <1>1, ZenonT(60) DEF Genuine, Fits, ContentType
  <1>3. \A m \in Messages(c, result) : m.of = c /\ m.result = result /\ m.to \in DOMAIN rest
    BY SMTT(60) DEF Messages, Subscribed
  <1>4. \A m \in Messages(c, result) : Genuine(m)'
    BY <1>1, <1>3, ZenonT(60) DEF Genuine, Fits, ContentType
  <1>5. c \in Nat
    BY SMTT(60) DEF Rest, RestTypes
  <1>6. QED
    BY <1>1, <1>2, <1>3, <1>4, <1>5, ZenonT(60) DEF Rest, RestTypes, Telling, Answer

(* Every step keeps Rest. *)
LEMMA RestKept ==
  ASSUME IInv, [Next]_vars
  PROVE  Rest'
  <1>1. CASE UNCHANGED <<restVars, use>>
    BY <1>1, ZenonT(60) DEF IInv, Rest, RestTypes, Telling, Genuine, Fits, ContentType, restVars
  <1>2. ASSUME NEW wanted \in RestRequest, NEW by \in Nat, RestServiceRequest(wanted, by), UNCHANGED use
        PROVE  Rest'
    <2>1. /\ rest' \in Seq(CallType) /\ DOMAIN rest' = DOMAIN rest \cup {Len(rest) + 1}
          /\ \A d \in DOMAIN rest : rest'[d] = rest[d]
          /\ rest'[Len(rest) + 1].told = << >>
      <3>1. /\ rest \in Seq(CallType) /\ rest' = Append(rest, Call(wanted, by))
            /\ Call(wanted, by).told = << >>
        BY <1>2, ZenonT(60) DEF IInv, Rest, RestTypes, RestServiceRequest, Call
      <3>2. Call(wanted, by) \in CallType
        <4>1. << >> \in Seq(Message)
          BY SMTT(60)
        <4>2. QED
          BY <1>2, <4>1, ZenonT(60) DEF Call, CallType
      <3>3. QED
        BY <3>1, <3>2, Longer, SMTT(60)
    <2>2. \A m : Genuine(m) => Genuine(m)'
      BY <2>1, ZenonT(60) DEF Genuine, Fits, ContentType
    <2>3. QED
      BY <1>2, <2>1, <2>2, ZenonT(60) DEF IInv, Rest, RestTypes, Telling, RestServiceRequest
  <1>3. ASSUME NEW c \in DOMAIN rest, rest[c].at \in {"listening", "sent"}, NEW at \in {"sent", "http"},
               rest' = [rest EXCEPT ![c].at = at], UNCHANGED <<arriving, use>>
        PROVE  Rest'
    <2>1. /\ rest' \in Seq(CallType) /\ DOMAIN rest' = DOMAIN rest
          /\ \A d \in DOMAIN rest : rest'[d].asked = rest[d].asked /\ rest'[d].told = rest[d].told
          /\ \A d \in DOMAIN rest : rest[d].at = "answered" => rest'[d].at = "answered"
      <3> DEFINE call == [rest[c] EXCEPT !.at = at]
      <3>1. rest \in Seq(CallType) /\ rest[c] \in CallType
        BY Element, ZenonT(60) DEF IInv, Rest, RestTypes
      <3>2. call \in CallType /\ call.asked = rest[c].asked /\ call.told = rest[c].told
        BY <3>1, ZenonT(60) DEF CallType
      <3>3. rest' = [rest EXCEPT ![c] = call]
        BY <1>3, ZenonT(60)
      <3> HIDE DEF call
      <3>4. QED
        BY <1>3, <3>1, <3>2, <3>3, Replaced, SMTT(60)
    <2>2. \A m : Genuine(m) => Genuine(m)'
      BY <2>1, ZenonT(60) DEF Genuine, Fits, ContentType
    <2>3. QED
      BY <1>3, <2>1, <2>2, ZenonT(60) DEF IInv, Rest, RestTypes, Telling
  <1>4. ASSUME NEW c \in DOMAIN rest, HandleServiceRequest(c), UNCHANGED use
        PROVE  Rest'
    <2>1. CASE Answer(c, "error")
      BY <1>4, <2>1, AnswerKeeps, ZenonT(60) DEF IInv, Fits
    <2>2. QED
      BY <1>3, <1>4, <2>1, ZenonT(60) DEF HandleServiceRequest
  <1>5. ASSUME NEW c \in DOMAIN rest, HttpResponse(c), UNCHANGED use
        PROVE  Rest'
    <2>1. CASE Answer(c, "error")
      BY <1>5, <2>1, AnswerKeeps, ZenonT(60) DEF IInv, Fits
    <2>2. ASSUME NEW body \in {"object", "value", "text"},
                 Answer(c, deserializeResponse(body, ResponseType(rest[c].asked)))
          PROVE  Rest'
      <3>1. rest[c].asked \in RestRequest
        <4>1. rest[c] \in CallType
          BY Element, ZenonT(60) DEF IInv, Rest, RestTypes
        <4>2. QED
          BY <4>1, ZenonT(60) DEF CallType
      <3>2. QED
        BY <1>5, <2>2, <3>1, Deserialized, AnswerKeeps, ZenonT(60) DEF IInv
    <2>3. QED
      BY <1>5, <2>1, <2>2, ZenonT(60) DEF HttpResponse
  <1>6. ASSUME SendErrorMessage, UNCHANGED use
        PROVE  Rest'
    <2>1. \A m \in Messages(0, "error") : m.of = 0 /\ m.result = "error" /\ m.to \in DOMAIN rest
      BY SMTT(60) DEF Messages, Subscribed
    <2>2. \A m : Genuine(m) => Genuine(m)'
      BY <1>6, ZenonT(60) DEF Genuine, Fits, ContentType, SendErrorMessage
    <2>3. \A m \in Messages(0, "error") : Genuine(m)'
      BY <2>1, ZenonT(60) DEF Genuine
    <2>4. QED
      BY <1>6, <2>1, <2>2, <2>3, SMTT(60) DEF IInv, Rest, RestTypes, Telling, SendErrorMessage
  <1>7. ASSUME NEW m \in arriving, Tell(m), UNCHANGED use
        PROVE  Rest'
    <2>1. CASE rest' = rest
      <3>1. \A x : Genuine(x) => Genuine(x)'
        BY <2>1, ZenonT(60) DEF Genuine, Fits, ContentType
      <3>2. QED
        BY <1>7, <2>1, <3>1, ZenonT(60) DEF IInv, Rest, RestTypes, Telling, Tell
    <2>2. CASE Accepts(m) /\ rest' = [rest EXCEPT ![m.to].told = <<[of |-> m.of, result |-> m.result]>>]
      <3>1. m.to \in DOMAIN rest /\ m.of \in {0, m.to} /\ Genuine(m) /\ m.of \in Nat
        BY <1>7, <2>2, ZenonT(60) DEF IInv, Rest, Telling, Accepts
      <3>2. m.result \in {"error", "string", "bytes", "value", "map"}
        <4>1. ASSUME m.of \in DOMAIN rest
              PROVE  rest[m.of].asked.type \in {"none", "string", "bytes", "value"}
          <5>1. rest[m.of] \in CallType
            BY <4>1, Element, ZenonT(60) DEF IInv, Rest, RestTypes
          <5>2. QED
            BY <5>1, ZenonT(60) DEF CallType, RestRequest
        <4>2. QED
          BY <3>1, <4>1, ZenonT(60) DEF Genuine, Fits
      <3>3. /\ rest' \in Seq(CallType) /\ DOMAIN rest' = DOMAIN rest
            /\ \A d \in DOMAIN rest : rest'[d].asked = rest[d].asked /\ rest'[d].at = rest[d].at
            /\ \A d \in DOMAIN rest : d # m.to => rest'[d].told = rest[d].told
            /\ rest'[m.to].told = <<[of |-> m.of, result |-> m.result]>>
        <4> DEFINE call == [rest[m.to] EXCEPT !.told = <<[of |-> m.of, result |-> m.result]>>]
        <4>1. rest \in Seq(CallType) /\ rest[m.to] \in CallType
          BY <3>1, Element, ZenonT(60) DEF IInv, Rest, RestTypes
        <4>2. [of |-> m.of, result |-> m.result] \in Message
          BY <3>1, <3>2, ZenonT(60) DEF Message
        <4>3. <<[of |-> m.of, result |-> m.result]>> \in Seq(Message)
          BY <4>2, SMTT(60)
        <4>4. /\ call \in CallType /\ call.asked = rest[m.to].asked /\ call.at = rest[m.to].at
              /\ call.told = <<[of |-> m.of, result |-> m.result]>>
          BY <4>1, <4>3, ZenonT(60) DEF CallType
        <4>5. rest' = [rest EXCEPT ![m.to] = call]
          BY <2>2, ZenonT(60)
        <4> HIDE DEF call
        <4>6. QED
          BY <3>1, <4>1, <4>4, <4>5, Replaced, ZenonT(60)
      <3>4. \A x : Genuine(x) => Genuine(x)'
        BY <3>3, ZenonT(60) DEF Genuine, Fits, ContentType
      <3>5. Genuine([of |-> m.of, result |-> m.result])
        BY <3>1, ZenonT(60) DEF Genuine
      <3>6. QED
        BY <1>7, <3>1, <3>3, <3>4, <3>5, SMTT(60) DEF IInv, Rest, RestTypes, Telling, Tell
    <2>3. QED
      BY <1>7, <2>1, <2>2, ZenonT(60) DEF Tell
  <1>8. CASE RestCalls /\ UNCHANGED use
    <2>1. \A wanted \in use.rest : wanted \in RestRequest
      BY PlankAssumption, ZenonT(60) DEF IInv, Rest, RestTypes
    <2>2. Words \in RestRequest /\ DOMAIN setups \subseteq Nat /\ 0 \in Nat
      BY SMTT(60) DEF Words, RestRequest, IInv, Service, ServiceTypes
    <2>3. ASSUME NEW c \in DOMAIN rest, SendRequest(c)
          PROVE  Rest'
      BY <1>3, <1>8, <2>3, ZenonT(60) DEF SendRequest
    <2>4. QED
      BY <1>2, <1>4, <1>5, <1>6, <1>8, <2>1, <2>2, <2>3, ZenonT(60) DEF RestCalls, OnServiceReady
  <1>9. QED
    BY <1>1, <1>7, <1>8, Steps, ZenonT(60) DEF vars

-----------------------------------------------------------------------------
\* Services and their readiness.

(* A setup that moves on, with a service of its own channel if it has one. *)
LEMMA SetupMoves ==
  ASSUME Service, ~panicked, NEW i \in DOMAIN setups, NEW s \in SetupType, setups' = [setups EXCEPT ![i] = s],
         s.hooks # 0 => s.hooks \in DOMAIN registered /\ registered[s.hooks].chan = s.chan,
         s.at = "waiting" => panicked' \/ s.hooks # 0,
         UNCHANGED <<services, registered, marking, readyStore, saidReady>>
  PROVE  Service'
  <1>1. /\ setups' \in Seq(SetupType) /\ DOMAIN setups' = DOMAIN setups
        /\ setups'[i] = s /\ \A j \in DOMAIN setups : j # i => setups'[j] = setups[j]
    BY Replaced, ZenonT(60) DEF Service, ServiceTypes
  <1>2. ServiceTypes' /\ ReadyIsTrue'
    BY <1>1, ZenonT(60) DEF Service, ServiceTypes, ReadyIsTrue
  <1>3. Readiness'
    BY <1>1, ZenonT(60) DEF Service, Readiness
  <1>4. QED
    BY <1>2, <1>3, ZenonT(60) DEF Service

(* A new goroutine that sets up bridges. *)
LEMMA SetupAdded ==
  ASSUME Service, ~panicked, NEW ch \in ServiceChannel, NEW config \in SUBSET Key,
         NEW kind \in {"register", "override", "program"}, NEW at \in {"new", "set"},
         setups' = Append(setups, Setup(ch, config, kind, at)),
         UNCHANGED <<services, registered, marking, readyStore, saidReady, panicked>>
  PROVE  Service'
  <1>1. Setup(ch, config, kind, at) \in SetupType
    BY ZenonT(60) DEF Setup, SetupType
  <1>2. /\ setups' \in Seq(SetupType) /\ DOMAIN setups' = DOMAIN setups \cup {Len(setups) + 1}
        /\ \A j \in DOMAIN setups : setups'[j] = setups[j]
        /\ setups'[Len(setups) + 1] = Setup(ch, config, kind, at)
    BY <1>1, SMTT(60) DEF Service, ServiceTypes
  <1>3. Setup(ch, config, kind, at).hooks = 0 /\ Setup(ch, config, kind, at).at # "waiting"
    BY ZenonT(60) DEF Setup
  <1>4. ServiceTypes' /\ ReadyIsTrue'
    BY <1>2, ZenonT(60) DEF Service, ServiceTypes, ReadyIsTrue
  <1>5. Readiness'
    BY <1>2, <1>3, SMTT(60) DEF Service, Readiness
  <1>6. QED
    BY <1>4, <1>5, ZenonT(60) DEF Service

(* The registry has a new service, at a channel that had none. *)
LEMMA Registered ==
  ASSUME Service, ~panicked, NEW ch \in ServiceChannel, NEW hooks \in BOOLEAN, RegisterService(ch, hooks)
  PROVE  Service'
  <1> DEFINE n == Len(registered) + 1
             s == Setup(ch, KeysOf(ch), "register", "new")
  <1>1. [chan |-> ch, hooks |-> hooks] \in ServiceType
    BY ZenonT(60) DEF ServiceType
  <1>2. /\ registered' \in Seq(ServiceType) /\ DOMAIN registered' = DOMAIN registered \cup {n}
        /\ \A m \in DOMAIN registered : registered'[m] = registered[m]
        /\ registered'[n].chan = ch /\ Len(registered') = n
    BY <1>1, SMTT(60) DEF Service, ServiceTypes, RegisterService
  <1>3. n \in Nat /\ n # 0 /\ n \notin DOMAIN registered /\ \A m \in DOMAIN registered : m <= n /\ m \in 1 .. n - 1
    BY SMTT(60) DEF Service, ServiceTypes
  <1>4. services[ch] = 0 /\ services' = [services EXCEPT ![ch] = n] /\ services' \in [ServiceChannel -> Nat]
    BY <1>3, ZenonT(60) DEF RegisterService, Service, ServiceTypes
  <1>5. s \in SetupType /\ s.hooks = 0 /\ s.at = "new"
    BY ZenonT(60) DEF Setup, SetupType, KeysOf
  <1>6. /\ setups' \in Seq(SetupType) /\ DOMAIN setups \subseteq DOMAIN setups'
        /\ \A j \in DOMAIN setups : setups'[j] = setups[j]
        /\ \A j \in DOMAIN setups' \ DOMAIN setups : setups'[j] = s
    <2>1. CASE setups' = setups
      BY <2>1, ZenonT(60) DEF Service, ServiceTypes
    <2>2. CASE setups' = Append(setups, s)
      <3> HIDE DEF s
      <3>1. QED
        BY <1>5, <2>2, SMTT(60) DEF Service, ServiceTypes
    <2>3. QED
      BY <2>1, <2>2, ZenonT(60) DEF RegisterService
  <1>7. ServiceTypes'
    BY <1>2, <1>4, <1>6, ZenonT(60) DEF ServiceTypes
  <1>8. Readiness'
    <2> HIDE DEF n, s
    <2>1. marking' \subseteq DOMAIN registered'
      BY <1>2, ZenonT(60) DEF RegisterService, Service, Readiness, n
    <2>2. ASSUME NEW c \in ServiceChannel, services'[c] # 0
          PROVE  /\ services'[c] \in DOMAIN registered' /\ registered'[services'[c]].chan = c
                 /\ \A m \in DOMAIN registered' : registered'[m].chan = c => m <= services'[c]
      <3>1. CASE c = ch
        BY <1>2, <1>3, <1>4, <3>1, SMTT(60) DEF Service, ServiceTypes
      <3>2. CASE c # ch
        <4>1. services'[c] = services[c]
          BY <1>4, <3>2, ZenonT(60) DEF Service, ServiceTypes
        <4>2. QED
          BY <1>2, <2>2, <3>2, <4>1, SMTT(60) DEF Service, Readiness
      <3>3. QED
        BY <3>1, <3>2, ZenonT(60)
    <2>3. \A c \in readyStore' : \E m \in DOMAIN registered' : registered'[m].chan = c
      <3>1. \A c \in readyStore' : c \in readyStore
        BY ZenonT(60) DEF RegisterService
      <3>2. QED
        BY <1>2, <3>1, ZenonT(60) DEF Service, Readiness
    <2>4. ASSUME NEW i \in DOMAIN setups'
          PROVE  /\ setups'[i].hooks # 0 =>
                      /\ setups'[i].hooks \in DOMAIN registered'
                      /\ registered'[setups'[i].hooks].chan = setups'[i].chan
                 /\ setups'[i].at = "waiting" => panicked' \/ setups'[i].hooks # 0
      BY <1>2, <1>5, <1>6, SMTT(60) DEF RegisterService, Service, Readiness
    <2>5. QED
      BY <2>1, <2>2, <2>3, <2>4, ZenonT(60) DEF Readiness
  <1>9. ReadyIsTrue'
    <2> SUFFICES ASSUME NEW m \in 1 .. Len(registered'), services'[registered'[m].chan] = m,
                        registered'[m].chan \in readyStore, registered'[m].hooks
                 PROVE  m \in saidReady \/ \E q \in 1 .. m - 1 : registered'[q].chan = registered'[m].chan
      BY ZenonT(60) DEF ReadyIsTrue, RegisterService
    <2>1. CASE m = n
      <3>1. PICK q \in DOMAIN registered : registered[q].chan = ch
        BY <1>2, <2>1, SMTT(60) DEF Service, Readiness
      <3>2. QED
        BY <1>2, <1>3, <2>1, <3>1, ZenonT(60)
    <2>2. CASE m # n
      <3>1. m \in DOMAIN registered /\ registered'[m] = registered[m] /\ registered[m].chan \in ServiceChannel
        <4>1. m \in DOMAIN registered /\ registered'[m] = registered[m]
          BY <1>2, <2>2, SMTT(60)
        <4>2. registered[m] \in ServiceType
          BY <4>1, Element, ZenonT(60) DEF Service, ServiceTypes
        <4>3. QED
          BY <4>1, <4>2, ZenonT(60) DEF ServiceType
      <3>2. services[registered[m].chan] = m
        BY <1>3, <1>4, <2>2, <3>1, ZenonT(60) DEF Service, ServiceTypes
      <3>3. PICK q : m \in saidReady \/ (q \in 1 .. m - 1 /\ registered[q].chan = registered[m].chan)
        <4>1. m \in 1 .. Len(registered)
          BY <3>1, SMTT(60) DEF Service, ServiceTypes
        <4>2. registered[m].hooks /\ registered[m].chan \in readyStore
          BY <3>1, ZenonT(60)
        <4>3. QED
          BY <3>2, <4>1, <4>2, ZenonT(60) DEF Service, ReadyIsTrue
      <3>4. q \in 1 .. m - 1 => q \in DOMAIN registered
        BY <3>1, SMTT(60) DEF Service, ServiceTypes
      <3>5. QED
        BY <1>2, <3>1, <3>3, <3>4, ZenonT(60)
    <2>3. QED
      BY <2>1, <2>2, ZenonT(60)
  <1>10. QED
    BY <1>7, <1>8, <1>9, ZenonT(60) DEF Service

(* Every step keeps Service. *)
LEMMA ServiceKept ==
  ASSUME IInv, [Next]_vars
  PROVE  Service'
  <1> USE DEF IInv
  <1>1. CASE /\ UNCHANGED <<services, registered, marking, readyStore, saidReady, setups>>
             /\ panicked' = panicked \/ panicked'
    BY <1>1, SMTT(60) DEF Service, ServiceTypes, Readiness, ReadyIsTrue
  <1>2. ASSUME NEW i \in DOMAIN setups
        PROVE  setups \in Seq(SetupType) /\ setups[i] \in SetupType /\ setups[i].chan \in ServiceChannel
    <2>1. setups \in Seq(SetupType) /\ setups[i] \in SetupType
      BY Element, ZenonT(60) DEF Service, ServiceTypes
    <2>2. QED
      BY <2>1, ZenonT(60) DEF SetupType
  <1>3. \A ch \in ServiceChannel : GetServiceHooks(ch) \in Nat /\ (GetServiceHooks(ch) # 0 =>
          GetServiceHooks(ch) \in DOMAIN registered /\ registered[GetServiceHooks(ch)].chan = ch)
    BY ZenonT(60) DEF Service, ServiceTypes, Readiness, GetServiceHooks
  <1>4. ASSUME ServiceStep, ~panicked
        PROVE  Service'
    <2>1. use.channel \subseteq ServiceChannel /\ use.hooks \subseteq BOOLEAN
      BY PlankAssumption, ZenonT(60) DEF Rest, RestTypes
    <2>2. ASSUME NEW ch \in ServiceChannel, UnregisterService(ch)
          PROVE  Service'
      <3>1. /\ services' \in [ServiceChannel -> Nat]
            /\ \A c \in ServiceChannel : services'[c] # 0 => services'[c] = services[c]
        BY <2>2, ZenonT(60) DEF UnregisterService, Service, ServiceTypes
      <3>2. ServiceTypes' /\ Readiness'
        BY <2>2, <3>1, ZenonT(60) DEF UnregisterService, Service, ServiceTypes, Readiness
      <3>3. ASSUME NEW n \in 1 .. Len(registered), services'[registered[n].chan] = n
            PROVE  services[registered[n].chan] = n
        <4>1. registered[n] \in ServiceType /\ n # 0
          BY Element, SMTT(60) DEF Service, ServiceTypes
        <4>2. QED
          BY <3>1, <3>3, <4>1, ZenonT(60) DEF ServiceType
      <3>4. ReadyIsTrue'
        BY <2>2, <3>3, ZenonT(60) DEF UnregisterService, Service, ReadyIsTrue
      <3>5. QED
        BY <3>2, <3>4, ZenonT(60) DEF Service
    <2>3. ASSUME NEW ch \in ServiceChannel, NEW config \in SUBSET KeysOf(ch), OverrideRESTBridgeConfig(ch, config)
          PROVE  Service'
      BY <1>4, <2>3, SetupAdded, ZenonT(60) DEF OverrideRESTBridgeConfig, KeysOf
    <2>4. ASSUME NEW n \in marking, MarkReady(n)
          PROVE  Service'
      <3>1. n \in DOMAIN registered
        BY ZenonT(60) DEF Service, Readiness
      <3>2. ServiceTypes' /\ Readiness'
        BY <2>4, <3>1, ZenonT(60) DEF MarkReady, Service, ServiceTypes, Readiness
      <3>3. ASSUME NEW m \in 1 .. Len(registered), services[registered[m].chan] = m,
                   registered[m].chan \in readyStore', registered[m].hooks
            PROVE  registered[m].chan \in readyStore
        <4>1. GetServiceHooks(registered[m].chan) = m /\ m # 0
          BY <3>3, SMTT(60) DEF GetServiceHooks
        <4>2. QED
          BY <2>4, <3>3, <4>1, ZenonT(60) DEF MarkReady
      <3>4. ReadyIsTrue'
        BY <2>4, <3>3, ZenonT(60) DEF MarkReady, Service, ReadyIsTrue
      <3>5. QED
        BY <3>2, <3>4, ZenonT(60) DEF Service
    <2>5. ASSUME NEW i \in DOMAIN setups, BeginSetup(i)
          PROVE  Service'
      <3> DEFINE hooks == GetServiceHooks(setups[i].chan)
                 at == IF setups[i].kind = "override" THEN "clear" ELSE "set"
                 s == [setups[i] EXCEPT !.hooks = hooks, !.at = at]
      <3>1. hooks \in Nat /\ (hooks # 0 => hooks \in DOMAIN registered /\ registered[hooks].chan = setups[i].chan)
        BY <1>2, <1>3, ZenonT(60)
      <3> HIDE DEF hooks
      <3>2. s \in SetupType /\ s.hooks = hooks /\ s.chan = setups[i].chan /\ s.at # "waiting"
        BY <1>2, <3>1, ZenonT(60) DEF SetupType
      <3>3. setups' = [setups EXCEPT ![i] = s]
        BY <2>5, ZenonT(60) DEF BeginSetup, hooks
      <3> HIDE DEF s
      <3>4. UNCHANGED <<services, registered, marking, readyStore, saidReady>>
        BY <2>5, ZenonT(60) DEF BeginSetup
      <3>5. QED
        BY <1>4, <3>1, <3>2, <3>3, <3>4, SetupMoves, ZenonT(60)
    <2>6. ASSUME NEW i \in DOMAIN setups, AwaitReady(i)
          PROVE  Service'
      <3> DEFINE at == IF setups[i].chan \in readyStore THEN "ended" ELSE "waiting"
                 s == [setups[i] EXCEPT !.at = at]
      <3>1. s \in SetupType /\ s.hooks = setups[i].hooks /\ s.chan = setups[i].chan /\ s.at = at
        BY <1>2, ZenonT(60) DEF SetupType
      <3>2. setups' = [setups EXCEPT ![i] = s]
        BY <2>6, ZenonT(60) DEF AwaitReady
      <3> HIDE DEF s
      <3>3. s.at = "waiting" => panicked' \/ s.hooks # 0
        BY <2>6, <3>1, ZenonT(60) DEF AwaitReady
      <3>4. s.hooks # 0 => s.hooks \in DOMAIN registered /\ registered[s.hooks].chan = s.chan
        BY <3>1, ZenonT(60) DEF Service, Readiness
      <3>5. QED
        BY <1>2, <1>4, <2>6, <3>1, <3>2, <3>3, <3>4, SetupMoves, ZenonT(60) DEF AwaitReady
    <2>7. ASSUME NEW i \in DOMAIN setups, NEW said, PutReady(i, said)
          PROVE  Service'
      <3> DEFINE s == [setups[i] EXCEPT !.at = "ended"]
      <3>1. s \in SetupType /\ s.hooks = setups[i].hooks /\ s.chan = setups[i].chan /\ s.at = "ended"
        BY <1>2, ZenonT(60) DEF SetupType
      <3>2. setups' = [setups EXCEPT ![i] = s]
        BY <2>7, ZenonT(60) DEF PutReady
      <3> HIDE DEF s
      <3>3. /\ setups' \in Seq(SetupType) /\ DOMAIN setups' = DOMAIN setups
            /\ setups'[i] = s /\ \A j \in DOMAIN setups : j # i => setups'[j] = setups[j]
        BY <1>2, <3>1, <3>2, Replaced, ZenonT(60)
      <3>4. setups[i].hooks \in DOMAIN registered /\ registered[setups[i].hooks].chan = setups[i].chan
        BY <1>4, <2>7, ZenonT(60) DEF PutReady, Service, Readiness
      <3>5. readyStore' \subseteq readyStore \cup {setups[i].chan}
        BY <2>7, ZenonT(60) DEF PutReady
      <3>6. ServiceTypes' /\ Readiness'
        BY <2>7, <3>1, <3>3, <3>4, <3>5, SMTT(60) DEF PutReady, Service, ServiceTypes, Readiness
      <3>7. ASSUME NEW m \in 1 .. Len(registered), services[registered[m].chan] = m,
                   registered[m].chan \in readyStore', registered[m].hooks, m \notin saidReady'
            PROVE  registered[m].chan \in readyStore \/ \E q \in 1 .. m - 1 : registered[q].chan = registered[m].chan
        <4> SUFFICES ASSUME registered[m].chan \notin readyStore
                     PROVE  \E q \in 1 .. m - 1 : registered[q].chan = registered[m].chan
          BY ZenonT(60)
        <4>1. said /\ registered[m].chan = setups[i].chan /\ setups[i].hooks \in saidReady'
          BY <2>7, <3>7, ZenonT(60) DEF PutReady
        <4>2. setups[i].hooks # m
          BY <3>7, <4>1, ZenonT(60)
        <4>3. setups[i].hooks <= m
          BY <1>2, <3>4, <3>7, <4>1, SMTT(60) DEF Service, Readiness
        <4>4. setups[i].hooks \in 1 .. m - 1
          BY <3>4, <4>2, <4>3, SMTT(60) DEF Service, ServiceTypes
        <4>5. QED
          BY <3>4, <4>1, <4>4, ZenonT(60)
      <3>8. saidReady \subseteq saidReady'
        BY <2>7, ZenonT(60) DEF PutReady
      <3>9. ReadyIsTrue'
        BY <2>7, <3>7, <3>8, ZenonT(60) DEF PutReady, Service, ReadyIsTrue
      <3>10. QED
        BY <3>6, <3>9, ZenonT(60) DEF Service
    <2>8. QED
      BY <1>4, <2>1, <2>2, <2>3, <2>4, <2>5, <2>6, <2>7, Registered, ZenonT(60) DEF ServiceStep
  <1>5. ASSUME ~panicked, KeepServices, NEW i \in DOMAIN setups, NEW s \in SetupType, setups' = [setups EXCEPT ![i] = s],
               s.chan = setups[i].chan, s.hooks = setups[i].hooks, s.at = "waiting" => setups[i].at = "waiting"
        PROVE  Service'
    <2>1. s.hooks # 0 => s.hooks \in DOMAIN registered /\ registered[s.hooks].chan = s.chan
      BY <1>5, ZenonT(60) DEF Service, Readiness
    <2>2. s.at = "waiting" => s.hooks # 0
      BY <1>5, ZenonT(60) DEF Service, Readiness
    <2>3. QED
      BY <1>5, <2>1, <2>2, SetupMoves, ZenonT(60) DEF KeepServices
  <1>6. ASSUME SetupStep, ~panicked
        PROVE  Service'
    <2>1. ASSUME NEW i \in DOMAIN setups, ClearBridges(i)
          PROVE  Service'
      <3> DEFINE s == [setups[i] EXCEPT !.at = "load", !.router = Len(routers) + 1]
      <3>1. Len(routers) + 1 \in Nat
        BY SMTT(60) DEF Route, RouteTypes
      <3>2. s \in SetupType /\ s.hooks = setups[i].hooks /\ s.chan = setups[i].chan /\ s.at = "load"
        BY <1>2, <3>1, ZenonT(60) DEF SetupType
      <3>3. setups' = [setups EXCEPT ![i] = s]
        BY <2>1, ZenonT(60) DEF ClearBridges
      <3> HIDE DEF s
      <3>4. QED
        BY <1>5, <1>6, <2>1, <3>2, <3>3, ZenonT(60) DEF ClearBridges
    <2>2. ASSUME NEW i \in DOMAIN setups, NEW at \in {"set", "ended", "ready"}, setups' = [setups EXCEPT ![i].at = at],
                 KeepServices
          PROVE  Service'
      <3> DEFINE s == [setups[i] EXCEPT !.at = at]
      <3>1. s \in SetupType /\ s.hooks = setups[i].hooks /\ s.chan = setups[i].chan /\ s.at # "waiting"
        BY <1>2, ZenonT(60) DEF SetupType
      <3>2. setups' = [setups EXCEPT ![i] = s]
        BY <2>2, ZenonT(60)
      <3> HIDE DEF s
      <3>3. QED
        BY <1>5, <1>6, <2>2, <3>1, <3>2, ZenonT(60)
    <2>3. ASSUME NEW i \in DOMAIN setups, NEW k \in Key, setups' = [setups EXCEPT ![i].todo = @ \ {k}], KeepServices
          PROVE  Service'
      <3> DEFINE s == [setups[i] EXCEPT !.todo = @ \ {k}]
      <3>1. s \in SetupType /\ s.hooks = setups[i].hooks /\ s.chan = setups[i].chan /\ s.at = setups[i].at
        BY <1>2, ZenonT(60) DEF SetupType
      <3>2. setups' = [setups EXCEPT ![i] = s]
        BY <2>3, ZenonT(60)
      <3> HIDE DEF s
      <3>3. QED
        BY <1>5, <1>6, <2>3, <3>1, <3>2, ZenonT(60)
    <2>4. ASSUME NEW i \in DOMAIN setups, LoadRouter(i) \/ BridgesSet(i)
          PROVE  Service'
      <3>1. \E at \in {"set", "ended", "ready"} : setups' = [setups EXCEPT ![i].at = at]
        BY <2>4, ZenonT(60) DEF LoadRouter, BridgesSet
      <3>2. QED
        BY <2>2, <2>4, <3>1, ZenonT(60) DEF LoadRouter, BridgesSet
    <2>5. ASSUME NEW i \in DOMAIN setups, NEW k \in Key, SetHttpChannelBridge(i, k)
          PROVE  Service'
      <3>1. CASE UNCHANGED setups
        BY <1>1, <2>5, <3>1, ZenonT(60) DEF SetHttpChannelBridge, KeepServices
      <3>2. CASE setups' = [setups EXCEPT ![i].todo = @ \ {k}]
        BY <2>3, <2>5, <3>2, ZenonT(60) DEF SetHttpChannelBridge
      <3>3. QED
        BY <2>5, <3>1, <3>2, ZenonT(60) DEF SetHttpChannelBridge
    <2>6. ASSUME NEW i \in DOMAIN setups, NEW k \in Key, MapBridge(i, k)
          PROVE  Service'
      BY <2>3, <2>6, ZenonT(60) DEF MapBridge
    <2>7. ASSUME NEW k \in Key, CallSetHttpChannelBridge(k)
          PROVE  Service'
      <3>1. KeyChannel[k] \in ServiceChannel
        BY PlankAssumption, ZenonT(60)
      <3>2. QED
        BY <1>6, <2>7, <3>1, SetupAdded, ZenonT(60) DEF CallSetHttpChannelBridge, KeepServices
    <2>8. QED
      BY <1>6, <2>1, <2>4, <2>5, <2>6, <2>7, ZenonT(60) DEF SetupStep
  <1>7. CASE UNCHANGED serviceVars
    BY <1>1, <1>7, ZenonT(60) DEF serviceVars
  <1>8. CASE RequestStep
    <2>1. ASSUME NEW r, NEW n, SendResponse(r, n)
          PROVE  Service'
      BY <1>1, <2>1, ZenonT(60) DEF SendResponse, Served
    <2>2. ASSUME NEW r, NEW k, HttpRequest(r, k) \/ BusRequest(r, k)
          PROVE  Service'
      BY <1>1, <2>2, ZenonT(60) DEF HttpRequest, BusRequest, Serve
    <2>3. ASSUME NEW r, NEW ch, PutPayload(r, ch)
          PROVE  Service'
      BY <1>1, <2>3, ZenonT(60) DEF PutPayload, KeepServices
    <2>4. ASSUME NEW r, TakeResponse(r) \/ Timeout(r)
          PROVE  Service'
      BY <1>7, <2>4, ZenonT(60) DEF TakeResponse, Timeout
    <2>5. QED
      BY <1>8, <2>1, <2>2, <2>3, <2>4, ZenonT(60) DEF RequestStep
  <1>9. CASE ServerStep
    <2>1. CASE Deadline
      BY <1>1, <2>1, ZenonT(60) DEF Deadline, KeepServices
    <2>2. CASE ~Deadline
      BY <1>7, <1>9, <2>2, ZenonT(60) DEF ServerStep, StartServer, LoadStartRouter, Listen, Dial, StopServer, StopReturns,
        StartReturns, OnServerShutdown
    <2>3. QED
      BY <2>1, <2>2, ZenonT(60)
  <1>10. CASE MiddlewareStep
    BY <1>7, <1>10, ZenonT(60) DEF MiddlewareStep, SetNewMiddleware, RemoveMiddleware
  <1>11. QED
    BY <1>4, <1>6, <1>7, <1>8, <1>9, <1>10, Steps, ZenonT(60) DEF vars

-----------------------------------------------------------------------------
\* Routes.

\* The overrides under way stay so, with their routers.
LoadsKept ==
  /\ DOMAIN setups \subseteq DOMAIN setups'
  /\ \A i \in DOMAIN setups' : setups'[i].at = "load" => i \in DOMAIN setups
  /\ \A i \in DOMAIN setups : setups'[i].at = "load" <=> setups[i].at = "load"
  /\ \A i \in DOMAIN setups : setups[i].at = "load" => setups'[i].router = setups[i].router

(* An override is under way, in terms of DOMAIN. *)
LEMMA OverridingIs ==
  ASSUME ServiceTypes
  PROVE  Overriding <=> \E i \in DOMAIN setups : setups[i].at = "load"
  BY SMTT(60) DEF Overriding, ServiceTypes

(* The same after a step. *)
LEMMA OverridingNext ==
  ASSUME ServiceTypes'
  PROVE  Overriding' <=> \E i \in DOMAIN setups' : setups'[i].at = "load"
  BY SMTT(60) DEF Overriding, ServiceTypes

(* A step that keeps the overrides under way keeps that one is. *)
LEMMA OverridingKept ==
  ASSUME ServiceTypes, ServiceTypes', LoadsKept
  PROVE  Overriding' <=> Overriding
  BY OverridingIs, OverridingNext, ZenonT(60) DEF LoadsKept

(* Steps of setups that touch neither routes nor overrides. *)
LEMMA RoutesIdle ==
  ASSUME Service, Service', Route, LoadsKept, UNCHANGED routeVars, startRouter' = startRouter
  PROVE  Route'
  <1>1. Overriding' <=> Overriding
    BY OverridingKept, ZenonT(60) DEF Service
  <1>2. RouteTypes'
    BY ZenonT(60) DEF Route, RouteTypes, routeVars
  <1>3. lock' = << >> \/ \E i \in DOMAIN setups', k \in Key : lock' = <<i, k>> /\ handlers'[k] = None
    BY ZenonT(60) DEF Route, Routing, routeVars, LoadsKept
  <1>4. \A i, j \in DOMAIN setups' : setups'[i].at = "load" /\ setups'[j].at = "load" => i = j \/ strayed' = Key
    BY ZenonT(60) DEF Route, Routing, routeVars, LoadsKept
  <1>5. \A i \in DOMAIN setups' : setups'[i].at = "load" =>
          /\ setups'[i].router \in DOMAIN routers'
          /\ \A k \in Key \ strayed' : routers'[setups'[i].router][k] = handlers'[k]
    BY SMTT(60) DEF Route, Routing, routeVars, LoadsKept
  <1>6. \A k \in Key \ strayed' :
          /\ ~Overriding' => routers'[router'][k] = handlers'[k]
          /\ handlers'[k] # None => handlers'[k].bridge = bridges'[k]
    BY <1>1, ZenonT(60) DEF Route, Routing, routeVars
  <1>7. QED
    BY <1>2, <1>3, <1>4, <1>5, <1>6, ZenonT(60) DEF Route, Routing, None, Handler

(* One endpoint k changes, in the handlers, one router, and its bridge. *)
LEMMA RouteChanges ==
  ASSUME Service, Service', Route, LoadsKept, NEW k \in Key, NEW via \in DOMAIN routers, NEW h \in HandlerType,
         NEW g \in HandlerType, RouteTypes', DOMAIN routers' = DOMAIN routers,
         handlers' = [handlers EXCEPT ![k] = h], routers' = [routers EXCEPT ![via][k] = g],
         \A l \in Key : l # k => bridges'[l] = bridges[l],
         strayed' = strayed \/ strayed' = strayed \cup {k},
         k \notin strayed' => ~Overriding /\ via = router /\ g = h /\ (h # None => h.bridge = bridges'[k]),
         router' = router,
         lock' = << >> \/ (lock' = lock /\ \A i : lock # <<i, k>>)
  PROVE  Route'
  <1>1. Overriding' <=> Overriding
    BY OverridingKept, ZenonT(60) DEF Service
  <1>2. /\ \A l \in Key : l # k => handlers'[l] = handlers[l]
        /\ \A n \in DOMAIN routers, l \in Key : l # k => routers'[n][l] = routers[n][l]
        /\ handlers'[k] = h /\ routers'[via][k] = g
    <2>1. \A n \in DOMAIN routers : routers[n] \in [Key -> HandlerType]
      BY Element, ZenonT(60) DEF Route, RouteTypes
    <2>2. routers' = [routers EXCEPT ![via] = [routers[via] EXCEPT ![k] = g]]
      BY ZenonT(60)
    <2>3. QED
      BY <2>1, <2>2, SMTT(60) DEF Route, RouteTypes
  <1>3. lock' = << >> \/ \E i \in DOMAIN setups', l \in Key : lock' = <<i, l>> /\ handlers'[l] = None
    BY <1>2, SMTT(60) DEF Route, Routing, LoadsKept
  <1>4. \A i, j \in DOMAIN setups' : setups'[i].at = "load" /\ setups'[j].at = "load" => i = j \/ strayed' = Key
    BY ZenonT(60) DEF Route, Routing, LoadsKept
  <1>5. ASSUME NEW i \in DOMAIN setups', setups'[i].at = "load"
        PROVE  /\ setups'[i].router \in DOMAIN routers'
               /\ \A l \in Key \ strayed' : routers'[setups'[i].router][l] = handlers'[l]
    <2>1. i \in DOMAIN setups /\ setups[i].at = "load" /\ setups'[i].router = setups[i].router
      BY <1>5, ZenonT(60) DEF LoadsKept
    <2>2. k \in strayed'
      BY <2>1, OverridingIs, ZenonT(60) DEF Service
    <2>3. QED
      BY <1>2, <2>1, <2>2, SMTT(60) DEF Route, Routing
  <1>6. ASSUME NEW l \in Key \ strayed'
        PROVE  /\ ~Overriding' => routers'[router'][l] = handlers'[l]
               /\ handlers'[l] # None => handlers'[l].bridge = bridges'[l]
    <2>1. CASE l = k
      BY <1>2, <2>1, ZenonT(60)
    <2>2. CASE l # k
      <3>1. l \in Key \ strayed /\ handlers'[l] = handlers[l] /\ bridges'[l] = bridges[l]
        BY <1>2, <2>2, ZenonT(60)
      <3>2. router \in DOMAIN routers
        <4>1. routers \in Seq([Key -> HandlerType]) /\ router \in 1 .. Len(routers)
          BY ZenonT(60) DEF Route, RouteTypes
        <4>2. QED
          BY <4>1, SMTT(60)
      <3>3. routers'[router'][l] = routers[router][l]
        BY <1>2, <2>2, <3>2, ZenonT(60)
      <3>4. QED
        BY <1>1, <3>1, <3>3, ZenonT(60) DEF Route, Routing
    <2>3. QED
      BY <2>1, <2>2, ZenonT(60)
  <1>7. QED
    BY <1>3, <1>4, <1>5, <1>6, ZenonT(60) DEF Route, Routing, None, Handler

(* A setup moves on, not into nor out of an override. *)
LEMMA LoadsKeptMove ==
  ASSUME ServiceTypes, NEW i \in DOMAIN setups, NEW s, setups' = [setups EXCEPT ![i] = s],
         \/ s.at # "load" /\ setups[i].at # "load"
         \/ s.at = setups[i].at /\ s.router = setups[i].router
  PROVE  LoadsKept
  BY ZenonT(60) DEF LoadsKept, ServiceTypes

(* A setup begins. *)
LEMMA LoadsKeptAdd ==
  ASSUME ServiceTypes, NEW ch, NEW config, NEW kind, NEW at, at # "load",
         setups' = Append(setups, Setup(ch, config, kind, at))
  PROVE  LoadsKept
  <1> DEFINE s == Setup(ch, config, kind, at)
  <1>1. s.at # "load"
    BY ZenonT(60) DEF Setup
  <1> HIDE DEF s
  <1>2. /\ DOMAIN setups' = DOMAIN setups \cup {Len(setups) + 1}
        /\ \A j \in DOMAIN setups : setups'[j] = setups[j] /\ setups'[Len(setups) + 1] = s
    <2>1. setups' = Append(setups, s)
      BY ZenonT(60) DEF s
    <2>2. QED
      BY <2>1, SMTT(60) DEF ServiceTypes
  <1>3. setups'[Len(setups) + 1] = s
    <2>1. setups' = Append(setups, s)
      BY SMTT(60) DEF s
    <2>2. QED
      BY <2>1, SMTT(60) DEF ServiceTypes
  <1>4. QED
    BY <1>1, <1>2, <1>3, ZenonT(60) DEF LoadsKept

(* A bridge is set for an endpoint without one. *)
LEMMA AddRouteKeeps ==
  ASSUME Service, Service', Route, LoadsKept, NEW k \in Key, handlers[k] = None, AddRoute(k),
         UNCHANGED <<router, originals, startRouter>>, lock' = << >>
  PROVE  Route'
  <1> DEFINE h == Handler(bridges[k] + 1, 0)
             g == IF routers[router][k] = None THEN h ELSE routers[router][k]
  <1>1. router \in DOMAIN routers /\ routers[router] \in [Key -> HandlerType] /\ bridges[k] \in Nat
    BY Element, SMTT(60) DEF Route, RouteTypes
  <1>2. h \in HandlerType /\ g \in HandlerType /\ h.bridge = bridges[k] + 1
    BY <1>1, SMTT(60) DEF Handler, HandlerType
  <1>3. /\ handlers' = [handlers EXCEPT ![k] = h]
        /\ routers' = [routers EXCEPT ![router][k] = g]
        /\ bridges' = [bridges EXCEPT ![k] = bridges[k] + 1]
    BY ZenonT(60) DEF AddRoute
  <1>4. strayed' = IF Overriding THEN strayed \cup {k} ELSE strayed
    BY ZenonT(60) DEF AddRoute
  <1>5. k \notin strayed' => ~Overriding /\ g = h /\ h.bridge = bridges'[k]
    <2>1. k \notin strayed' => ~Overriding /\ k \notin strayed
      BY <1>4, ZenonT(60)
    <2>2. k \notin strayed' => routers[router][k] = None
      BY <2>1, ZenonT(60) DEF Route, Routing
    <2>3. bridges'[k] = bridges[k] + 1
      BY <1>3, ZenonT(60) DEF Route, RouteTypes
    <2>4. QED
      BY <1>2, <2>1, <2>2, <2>3, ZenonT(60)
  <1> HIDE DEF h, g
  <1>6. RouteTypes' /\ DOMAIN routers' = DOMAIN routers
    <2> DEFINE new == [routers[router] EXCEPT ![k] = g]
    <2>1. routers' = [routers EXCEPT ![router] = new] /\ new \in [Key -> HandlerType]
      BY <1>1, <1>2, <1>3, ZenonT(60)
    <2> HIDE DEF new
    <2>2. routers' \in Seq([Key -> HandlerType]) /\ Len(routers') = Len(routers) /\ DOMAIN routers' = DOMAIN routers
      BY <1>1, <2>1, Replaced, SMTT(60) DEF Route, RouteTypes
    <2>3. handlers' \in [Key -> HandlerType] /\ bridges' \in [Key -> Nat] /\ strayed' \subseteq Key
      BY <1>1, <1>2, <1>3, <1>4, SMTT(60) DEF Route, RouteTypes
    <2>4. KeyChannel[k] \in ServiceChannel
      BY PlankAssumption, ZenonT(60)
    <2>5. endpoints' \in [ServiceChannel -> SUBSET Key]
      BY <2>4, ZenonT(60) DEF AddRoute, Route, RouteTypes
    <2>6. QED
      BY <2>2, <2>3, <2>5, ZenonT(60) DEF Route, RouteTypes
  <1>7. \A l \in Key : l # k => bridges'[l] = bridges[l]
    BY <1>3, ZenonT(60) DEF Route, RouteTypes
  <1>8. QED
    BY <1>1, <1>2, <1>3, <1>4, <1>5, <1>6, <1>7, RouteChanges, ZenonT(60)

(* The routes of all others go into the new router of an override. *)
LEMMA ClearKeeps ==
  ASSUME Service, Service', Route, NEW i \in DOMAIN setups, ClearBridges(i)
  PROVE  Route'
  <1> DEFINE ch == setups[i].chan
             n == Len(routers) + 1
  <1>1. ch \in ServiceChannel /\ endpoints[ch] \subseteq Key
    <2>1. setups[i] \in SetupType
      BY Element, ZenonT(60) DEF Service, ServiceTypes
    <2>2. QED
      BY <2>1, ZenonT(60) DEF SetupType, Route, RouteTypes
  <1>2. router \in DOMAIN routers /\ routers[router] \in [Key -> HandlerType]
    BY Element, SMTT(60) DEF Route, RouteTypes
  <1>3. Copied(ch) \in [Key -> HandlerType] /\ Cleared(ch) \in [Key -> HandlerType]
    BY <1>2, ZenonT(60) DEF Copied, Cleared, Route, RouteTypes, None, Handler, HandlerType
  <1>4. /\ routers' \in Seq([Key -> HandlerType]) /\ DOMAIN routers' = DOMAIN routers \cup {n} /\ Len(routers') = n
        /\ \A m \in DOMAIN routers : routers'[m] = routers[m]
        /\ routers'[n] = Copied(ch)
    BY <1>3, SMTT(60) DEF ClearBridges, Route, RouteTypes
  <1>5. n \in Nat /\ DOMAIN routers = 1 .. Len(routers) /\ router \in 1 .. n /\ startRouter \in 1 .. n
    BY SMTT(60) DEF Route, RouteTypes
  <1> HIDE DEF n
  <1>6. setups[i].at = "clear" /\ \A j \in DOMAIN setups : j # i => setups'[j] = setups[j]
    BY ZenonT(60) DEF ClearBridges, Service, ServiceTypes
  <1>7. setups'[i].at = "load" /\ setups'[i].router = n /\ DOMAIN setups' = DOMAIN setups
    <2>1. setups[i] \in SetupType
      BY Element, ZenonT(60) DEF Service, ServiceTypes
    <2>2. setups' = [setups EXCEPT ![i] = [setups[i] EXCEPT !.at = "load", !.router = n]]
      BY ZenonT(60) DEF ClearBridges, n
    <2>3. QED
      BY <2>1, <2>2, ZenonT(60) DEF SetupType, Service, ServiceTypes
  <1>8. strayed' = IF Overriding THEN Key ELSE strayed \cup (PathPrefix \ endpoints[ch])
    BY ZenonT(60) DEF ClearBridges
  <1>9. RouteTypes'
    <2>1. UNCHANGED <<router, startRouter, originals, bridges>> /\ handlers' = Cleared(ch)
      BY ZenonT(60) DEF ClearBridges, serverVars
    <2>2. strayed' \subseteq Key
      BY <1>8, PlankAssumption, ZenonT(60) DEF Route, RouteTypes
    <2>3. endpoints' \in [ServiceChannel -> SUBSET Key]
      BY <1>1, ZenonT(60) DEF ClearBridges, Route, RouteTypes
    <2>4. QED
      BY <1>3, <1>4, <1>5, <2>1, <2>2, <2>3, ZenonT(60) DEF Route, RouteTypes
  <1>10. Overriding'
    BY <1>7, OverridingNext, ZenonT(60) DEF Service
  <1>11. \A j \in DOMAIN setups : setups[j].at = "load" => strayed' = Key
    BY <1>8, OverridingIs, ZenonT(60) DEF Service
  <1>12. ASSUME NEW k \in Key \ strayed'
         PROVE  /\ routers'[n][k] = handlers'[k]
                /\ handlers'[k] # None => handlers'[k].bridge = bridges'[k]
    <2>1. ~Overriding /\ k \notin strayed /\ (k \in PathPrefix => k \in endpoints[ch])
      BY <1>8, ZenonT(60)
    <2>2. handlers'[k] = IF k \in endpoints[ch] THEN None ELSE handlers[k]
      BY ZenonT(60) DEF ClearBridges, Cleared
    <2>3. routers'[n][k] = IF k \in endpoints[ch] \cup PathPrefix THEN None ELSE routers[router][k]
      BY <1>4, ZenonT(60) DEF Copied
    <2>4. routers[router][k] = handlers[k] /\ (handlers[k] # None => handlers[k].bridge = bridges[k])
      BY <2>1, ZenonT(60) DEF Route, Routing
    <2>5. bridges' = bridges
      BY ZenonT(60) DEF ClearBridges
    <2>6. QED
      BY <2>1, <2>2, <2>3, <2>4, <2>5, ZenonT(60)
  <1>13. lock' = << >>
    BY ZenonT(60) DEF ClearBridges
  <1>14. \A x, y \in DOMAIN setups' : setups'[x].at = "load" /\ setups'[y].at = "load" => x = y \/ strayed' = Key
    BY <1>6, <1>7, <1>11, ZenonT(60)
  <1>15. ASSUME NEW x \in DOMAIN setups', setups'[x].at = "load"
         PROVE  /\ setups'[x].router \in DOMAIN routers'
                /\ \A k \in Key \ strayed' : routers'[setups'[x].router][k] = handlers'[k]
    <2>1. CASE x = i
      BY <1>4, <1>7, <1>12, <2>1, ZenonT(60)
    <2>2. CASE x # i
      <3>1. x \in DOMAIN setups /\ setups'[x] = setups[x] /\ setups[x].at = "load"
        BY <1>6, <1>7, <1>15, <2>2, ZenonT(60)
      <3>2. setups[x].router \in DOMAIN routers /\ strayed' = Key
        BY <1>11, <3>1, ZenonT(60) DEF Route, Routing
      <3>3. QED
        BY <1>4, <3>1, <3>2, ZenonT(60)
    <2>3. QED
      BY <2>1, <2>2, ZenonT(60)
  <1>16. QED
    BY <1>9, <1>10, <1>12, <1>13, <1>14, <1>15, ZenonT(60) DEF Route, Routing

(* The router of an override is loaded. *)
LEMMA LoadKeeps ==
  ASSUME Service, Service', Route, NEW i \in DOMAIN setups, LoadRouter(i)
  PROVE  Route'
  <1>1. /\ setups[i].at = "load" /\ DOMAIN setups' = DOMAIN setups /\ setups'[i].at = "set"
        /\ \A j \in DOMAIN setups : j # i => setups'[j] = setups[j]
    <2>1. setups[i] \in SetupType
      BY Element, ZenonT(60) DEF Service, ServiceTypes
    <2>2. setups' = [setups EXCEPT ![i] = [setups[i] EXCEPT !.at = "set"]]
      BY ZenonT(60) DEF LoadRouter
    <2>3. QED
      BY <2>1, <2>2, ZenonT(60) DEF LoadRouter, SetupType, Service, ServiceTypes
  <1>2. /\ router' = setups[i].router /\ setups[i].router \in DOMAIN routers
        /\ \A k \in Key \ strayed : routers[setups[i].router][k] = handlers[k]
    BY <1>1, ZenonT(60) DEF LoadRouter, Route, Routing
  <1>3. UNCHANGED <<lock, handlers, endpoints, routers, originals, bridges, strayed, startRouter>> /\ lock = << >>
    BY ZenonT(60) DEF LoadRouter, serverVars
  <1>4. RouteTypes'
    BY <1>2, <1>3, SMTT(60) DEF Route, RouteTypes
  <1>5. \A x, y \in DOMAIN setups' : setups'[x].at = "load" /\ setups'[y].at = "load" => x = y \/ strayed' = Key
    BY <1>1, <1>3, ZenonT(60) DEF Route, Routing
  <1>6. \A x \in DOMAIN setups' : setups'[x].at = "load" =>
          /\ setups'[x].router \in DOMAIN routers'
          /\ \A k \in Key \ strayed' : routers'[setups'[x].router][k] = handlers'[k]
    BY <1>1, <1>3, ZenonT(60) DEF Route, Routing
  <1>7. \A k \in Key \ strayed' :
          /\ routers'[router'][k] = handlers'[k]
          /\ handlers'[k] # None => handlers'[k].bridge = bridges'[k]
    BY <1>2, <1>3, ZenonT(60) DEF Route, Routing
  <1>8. QED
    BY <1>3, <1>4, <1>5, <1>6, <1>7, ZenonT(60) DEF Route, Routing, None, Handler

(* Middleware is set or removed, through the router in use or the first. *)
LEMMA MiddlewareKeeps ==
  ASSUME Service, Service', Route, MiddlewareStep
  PROVE  Route'
  <1>1. PICK k \in Key, via \in {1, router} : SetNewMiddleware(k, via) \/ RemoveMiddleware(k, via)
    BY ZenonT(60) DEF MiddlewareStep
  <1>2. via \in DOMAIN routers /\ routers[via] \in [Key -> HandlerType]
    <2>1. via \in DOMAIN routers
      BY SMTT(60) DEF Route, RouteTypes
    <2>2. QED
      BY <2>1, Element, ZenonT(60) DEF Route, RouteTypes
  <1>3. UNCHANGED <<setups, lock, endpoints, router, bridges, startRouter>> /\ handlers[k] # None
    BY <1>1, ZenonT(60) DEF SetNewMiddleware, RemoveMiddleware, serviceVars, serverVars
  <1>4. LoadsKept
    BY <1>3, ZenonT(60) DEF LoadsKept
  <1>5. \A i : lock # <<i, k>>
    BY <1>3, SMTT(60) DEF Route, Routing
  <1>6. /\ handlers[k] \in HandlerType /\ originals[k] \in HandlerType /\ NilHandler \in HandlerType
        /\ Handler(handlers[k].bridge, handlers[k].middleware + 1) \in HandlerType
        /\ Handler(handlers[k].bridge, handlers[k].middleware + 1).bridge = handlers[k].bridge
    <2>1. handlers[k] \in HandlerType /\ originals[k] \in HandlerType
      BY ZenonT(60) DEF Route, RouteTypes
    <2>2. QED
      BY <2>1, HandlerFields, ZenonT(60)
  <1>7. \E h \in HandlerType :
          /\ handlers' = [handlers EXCEPT ![k] = h] /\ routers' = [routers EXCEPT ![via][k] = h]
          /\ strayed' = strayed \/ strayed' = strayed \cup {k}
          /\ k \notin strayed' => ~Overriding /\ via = router /\ h.bridge = bridges[k]
    <2>1. CASE SetNewMiddleware(k, via)
      <3> DEFINE h == Handler(handlers[k].bridge, handlers[k].middleware + 1)
      <3>1. /\ handlers' = [handlers EXCEPT ![k] = h] /\ routers' = [routers EXCEPT ![via][k] = h]
            /\ strayed' = IF Overriding \/ via # router THEN strayed \cup {k} ELSE strayed
        BY <2>1, ZenonT(60) DEF SetNewMiddleware
      <3>2. k \notin strayed' => ~Overriding /\ via = router /\ handlers[k].bridge = bridges[k]
        BY <1>3, <3>1, ZenonT(60) DEF Route, Routing
      <3> HIDE DEF h
      <3>3. h \in HandlerType /\ h.bridge = handlers[k].bridge
        BY <1>6, ZenonT(60) DEF h
      <3>4. QED
        BY <3>1, <3>2, <3>3, ZenonT(60)
    <2>2. CASE RemoveMiddleware(k, via)
      <3> DEFINE h == IF originals[k] = None THEN NilHandler ELSE originals[k]
      <3>1. /\ handlers' = [handlers EXCEPT ![k] = h] /\ routers' = [routers EXCEPT ![via][k] = h]
            /\ strayed' = IF Overriding \/ via # router \/ h.bridge # bridges[k] THEN strayed \cup {k} ELSE strayed
        BY <2>2, ZenonT(60) DEF RemoveMiddleware
      <3>2. h \in HandlerType
        BY <1>6, ZenonT(60)
      <3> HIDE DEF h
      <3>3. QED
        BY <3>1, <3>2, ZenonT(60)
    <2>3. QED
      BY <1>1, <2>1, <2>2, ZenonT(60)
  <1>8. PICK h \in HandlerType :
          /\ handlers' = [handlers EXCEPT ![k] = h] /\ routers' = [routers EXCEPT ![via][k] = h]
          /\ strayed' = strayed \/ strayed' = strayed \cup {k}
          /\ k \notin strayed' => ~Overriding /\ via = router /\ h.bridge = bridges[k]
    BY <1>7, ZenonT(60)
  <1>9. RouteTypes' /\ DOMAIN routers' = DOMAIN routers
    <2> DEFINE new == [routers[via] EXCEPT ![k] = h]
    <2>1. routers' = [routers EXCEPT ![via] = new] /\ new \in [Key -> HandlerType]
      BY <1>2, <1>8, ZenonT(60)
    <2> HIDE DEF new
    <2>2. routers' \in Seq([Key -> HandlerType]) /\ Len(routers') = Len(routers) /\ DOMAIN routers' = DOMAIN routers
      BY <1>2, <2>1, Replaced, SMTT(60) DEF Route, RouteTypes
    <2>3. handlers' \in [Key -> HandlerType] /\ strayed' \subseteq Key
      BY <1>8, ZenonT(60) DEF Route, RouteTypes
    <2>4. originals' \in [Key -> HandlerType]
      BY <1>1, <1>6, ZenonT(60) DEF SetNewMiddleware, RemoveMiddleware, Route, RouteTypes
    <2>5. QED
      BY <1>3, <2>2, <2>3, <2>4, ZenonT(60) DEF Route, RouteTypes
  <1>10. QED
    BY <1>2, <1>3, <1>4, <1>5, <1>8, <1>9, RouteChanges, ZenonT(60)

(* Every step keeps Route. *)
LEMMA RouteKept ==
  ASSUME IInv, Service', [Next]_vars
  PROVE  Route'
  <1> USE DEF IInv
  <1>1. CASE UNCHANGED <<routeVars, setups, startRouter>>
    <2>1. LoadsKept
      BY <1>1, ZenonT(60) DEF LoadsKept
    <2>2. QED
      BY <1>1, <2>1, RoutesIdle, ZenonT(60)
  <1>2. ASSUME NEW i \in DOMAIN setups, setups[i].at # "load", NEW at, at # "load",
               \/ setups' = [setups EXCEPT ![i].at = at]
               \/ \E hooks : setups' = [setups EXCEPT ![i].hooks = hooks, ![i].at = at]
        PROVE  LoadsKept
    <2>1. setups[i] \in SetupType
      BY Element, ZenonT(60) DEF Service, ServiceTypes
    <2>2. CASE setups' = [setups EXCEPT ![i].at = at]
      <3> DEFINE s == [setups[i] EXCEPT !.at = at]
      <3>1. s.at = at
        BY <2>1, ZenonT(60) DEF SetupType
      <3>2. setups' = [setups EXCEPT ![i] = s]
        BY <2>2, ZenonT(60)
      <3> HIDE DEF s
      <3>3. QED
        BY <1>2, <3>1, <3>2, LoadsKeptMove, ZenonT(60) DEF Service
    <2>3. ASSUME NEW hooks, setups' = [setups EXCEPT ![i].hooks = hooks, ![i].at = at]
          PROVE  LoadsKept
      <3> DEFINE s == [setups[i] EXCEPT !.hooks = hooks, !.at = at]
      <3>1. s.at = at
        BY <2>1, ZenonT(60) DEF SetupType
      <3>2. setups' = [setups EXCEPT ![i] = s]
        BY <2>3, ZenonT(60)
      <3> HIDE DEF s
      <3>3. QED
        BY <1>2, <3>1, <3>2, LoadsKeptMove, ZenonT(60) DEF Service
    <2>4. QED
      BY <1>2, <2>2, <2>3, ZenonT(60)
  <1>3. ASSUME NEW i \in DOMAIN setups, NEW k, setups' = [setups EXCEPT ![i].todo = @ \ {k}]
        PROVE  LoadsKept
    <2> DEFINE s == [setups[i] EXCEPT !.todo = @ \ {k}]
    <2>1. setups[i] \in SetupType
      BY Element, ZenonT(60) DEF Service, ServiceTypes
    <2>2. s.at = setups[i].at /\ s.router = setups[i].router
      BY <2>1, ZenonT(60) DEF SetupType
    <2>3. setups' = [setups EXCEPT ![i] = s]
      BY <1>3, ZenonT(60)
    <2> HIDE DEF s
    <2>4. QED
      BY <2>2, <2>3, LoadsKeptMove, ZenonT(60) DEF Service
  <1>4. ASSUME ServiceStep, UNCHANGED plankVars
        PROVE  Route'
    <2>1. UNCHANGED <<routeVars, startRouter>>
      BY <1>4, ZenonT(60) DEF plankVars, routeVars
    <2>2. ASSUME NEW ch, NEW hooks, RegisterService(ch, hooks)
          PROVE  LoadsKept
      <3>1. CASE setups' = setups
        BY <3>1, ZenonT(60) DEF LoadsKept
      <3>2. QED
        BY <2>2, <3>1, LoadsKeptAdd, ZenonT(60) DEF RegisterService, Service
    <2>3. ASSUME NEW ch, NEW config, OverrideRESTBridgeConfig(ch, config)
          PROVE  LoadsKept
      BY <2>3, LoadsKeptAdd, ZenonT(60) DEF OverrideRESTBridgeConfig, Service
    <2>4. ASSUME NEW x, UnregisterService(x) \/ MarkReady(x)
          PROVE  LoadsKept
      BY <2>4, ZenonT(60) DEF UnregisterService, MarkReady, LoadsKept
    <2>5. ASSUME NEW i \in DOMAIN setups, BeginSetup(i)
          PROVE  LoadsKept
      <3> DEFINE at == IF setups[i].kind = "override" THEN "clear" ELSE "set"
      <3>1. at # "load" /\ setups[i].at # "load" /\ \E hooks : setups' = [setups EXCEPT ![i].hooks = hooks, ![i].at = at]
        BY <2>5, ZenonT(60) DEF BeginSetup
      <3> HIDE DEF at
      <3>2. QED
        BY <1>2, <3>1, ZenonT(60)
    <2>6. ASSUME NEW i \in DOMAIN setups, NEW said, AwaitReady(i) \/ PutReady(i, said)
          PROVE  LoadsKept
      <3>1. setups[i].at # "load" /\ \E at : at # "load" /\ setups' = [setups EXCEPT ![i].at = at]
        BY <2>6, ZenonT(60) DEF AwaitReady, PutReady
      <3>2. QED
        BY <1>2, <3>1, ZenonT(60)
    <2>7. LoadsKept
      BY <1>4, <2>2, <2>3, <2>4, <2>5, <2>6, ZenonT(60) DEF ServiceStep
    <2>8. QED
      BY <2>1, <2>7, RoutesIdle, ZenonT(60)
  <1>5. ASSUME NEW i \in DOMAIN setups, BridgesSet(i)
        PROVE  Route'
    <2>1. setups[i].at # "load" /\ \E at : at # "load" /\ setups' = [setups EXCEPT ![i].at = at]
      BY <1>5, ZenonT(60) DEF BridgesSet
    <2>2. UNCHANGED <<routeVars, startRouter>>
      BY <1>5, ZenonT(60) DEF BridgesSet, plankVars, routeVars
    <2>3. QED
      BY <1>2, <2>1, <2>2, RoutesIdle, ZenonT(60)
  <1>6. ASSUME NEW i \in DOMAIN setups, NEW k \in Key, SetHttpChannelBridge(i, k)
        PROVE  Route'
    <2>1. lock = << >> /\ UNCHANGED <<router, originals, startRouter>>
      BY <1>6, ZenonT(60) DEF SetHttpChannelBridge, serverVars
    <2>2. CASE handlers[k] = None /\ lock' = <<i, k>>
      <3>1. UNCHANGED <<setups, handlers, endpoints, routers, router, originals, bridges, strayed, startRouter>>
        <4>1. <<i, k>> # << >>
          BY ZenonT(60)
        <4>2. QED
          BY <1>6, <2>1, <2>2, <4>1, ZenonT(60) DEF SetHttpChannelBridge
      <3>2. RouteTypes' /\ (Overriding' <=> Overriding)
        BY <3>1, ZenonT(60) DEF Route, RouteTypes, Overriding
      <3>3. QED
        BY <2>2, <3>1, <3>2, SMTT(60) DEF Route, Routing, None, Handler
    <2>3. CASE UNCHANGED lock
      <3>1. setups' = [setups EXCEPT ![i].todo = @ \ {k}] /\ (UNCHANGED routeVars \/ (handlers[k] = None /\ AddRoute(k)))
        <4>1. <<i, k>> # << >>
          BY SMTT(60)
        <4>2. QED
          BY <1>6, <2>1, <2>3, <4>1, ZenonT(60) DEF SetHttpChannelBridge, routeVars
      <3>2. LoadsKept
        BY <1>3, <3>1, ZenonT(60)
      <3>3. QED
        BY <2>1, <2>3, <3>1, <3>2, AddRouteKeeps, RoutesIdle, ZenonT(60)
    <2>4. QED
      BY <1>6, <2>2, <2>3, ZenonT(60) DEF SetHttpChannelBridge
  <1>7. ASSUME NEW i \in DOMAIN setups, NEW k \in Key, MapBridge(i, k)
        PROVE  Route'
    <2>1. lock = <<i, k>> /\ lock' = << >> /\ AddRoute(k) /\ UNCHANGED <<router, originals, startRouter>>
      BY <1>7, ZenonT(60) DEF MapBridge, serverVars
    <2>2. handlers[k] = None
      BY <2>1, ZenonT(60) DEF Route, Routing
    <2>3. LoadsKept
      BY <1>3, <1>7, ZenonT(60) DEF MapBridge
    <2>4. QED
      BY <2>1, <2>2, <2>3, AddRouteKeeps, ZenonT(60)
  <1>8. ASSUME NEW k, CallSetHttpChannelBridge(k)
        PROVE  Route'
    <2>1. LoadsKept
      BY <1>8, LoadsKeptAdd, ZenonT(60) DEF CallSetHttpChannelBridge, Service
    <2>2. QED
      BY <1>8, <2>1, RoutesIdle, ZenonT(60) DEF CallSetHttpChannelBridge, plankVars, routeVars
  <1>9. CASE LoadStartRouter
    <2>1. /\ UNCHANGED <<setups, lock, bridgeMap, handlers, endpoints, routers, originals, bridges, startRouter>>
          /\ router' = startRouter /\ strayed' = IF startRouter # router THEN Key ELSE strayed
      BY <1>9, ZenonT(60) DEF LoadStartRouter, serviceVars
    <2>2. CASE startRouter = router
      BY <1>1, <2>1, <2>2, ZenonT(60) DEF routeVars
    <2>3. CASE startRouter # router
      <3>1. strayed' = Key
        BY <2>1, <2>3, ZenonT(60)
      <3>2. RouteTypes'
        BY <2>1, <3>1, ZenonT(60) DEF Route, RouteTypes
      <3>3. QED
        BY <2>1, <3>1, <3>2, ZenonT(60) DEF Route, Routing, None, Handler
    <2>4. QED
      BY <2>2, <2>3, ZenonT(60)
  <1>10. CASE ServerStep /\ ~LoadStartRouter
    <2>1. UNCHANGED <<routeVars, setups>> /\ (StartServer \/ startRouter' = startRouter)
      BY <1>10, ZenonT(60) DEF ServerStep, StartServer, Listen, Dial, StopServer, StopReturns, StartReturns, OnServerShutdown,
        Deadline, serviceVars, plankVars, routeVars
    <2>2. CASE StartServer
      <3>1. startRouter' = router
        BY <2>2, ZenonT(60) DEF StartServer
      <3>2. RouteTypes' /\ (Overriding' <=> Overriding)
        BY <2>1, <3>1, ZenonT(60) DEF Route, RouteTypes, Overriding, routeVars
      <3>3. QED
        BY <2>1, <3>2, ZenonT(60) DEF Route, Routing, None, Handler, routeVars
    <2>3. QED
      BY <1>1, <2>1, <2>2, ZenonT(60)
  <1>11. CASE RequestStep
    <2>1. ASSUME NEW r, NEW x, HttpRequest(r, x) \/ BusRequest(r, x)
          PROVE  Route'
      BY <1>1, <2>1, ZenonT(60) DEF HttpRequest, BusRequest, Serve, serverVars
    <2>2. ASSUME NEW r, NEW x, SendResponse(r, x) \/ PutPayload(r, x)
          PROVE  Route'
      BY <1>1, <2>2, ZenonT(60) DEF SendResponse, PutPayload, Served, serverVars
    <2>3. ASSUME NEW r, TakeResponse(r) \/ Timeout(r)
          PROVE  Route'
      BY <1>1, <2>3, ZenonT(60) DEF TakeResponse, Timeout, serviceVars, serverVars
    <2>4. QED
      BY <1>11, <2>1, <2>2, <2>3, ZenonT(60) DEF RequestStep
  <1>12. CASE SetupStep
    BY <1>5, <1>6, <1>7, <1>8, <1>12, ClearKeeps, LoadKeeps, ZenonT(60) DEF SetupStep
  <1>13. CASE MiddlewareStep
    BY <1>13, MiddlewareKeeps, ZenonT(60)
  <1>14. CASE UNCHANGED <<serviceVars, plankVars>>
    BY <1>1, <1>14, ZenonT(60) DEF serviceVars, plankVars, routeVars
  <1>15. QED
    BY <1>4, <1>9, <1>10, <1>11, <1>12, <1>13, <1>14, Steps, ZenonT(60) DEF vars

-----------------------------------------------------------------------------
\* Requests.

(* A channel keeps its one request and response. *)
LEMMA SingleKept ==
  ASSUME NEW ch, Single(ch), Here(ch)' = Here(ch), ServedAt(ch)' = ServedAt(ch), PutAt(ch)' = PutAt(ch),
         payload'[ch] = payload[ch]
  PROVE  Single(ch)'
  BY ZenonT(60) DEF Single

(* The parts of Undisturbed other than Single, and OwnAnswer. *)
LEMMA HttpParts ==
  ASSUME HttpTypes', OwnAnswer', DOMAIN waiting' \subseteq asked', \A r \in DOMAIN waiting' : waiting'[r] \in Key,
         \A r \in DOMAIN answer' : answer'[r].at \in Key, serving' \subseteq asked' \X DOMAIN registered',
         putting' \subseteq asked' \X ServiceChannel,
         \A n \in listening' : n \in DOMAIN registered' /\ services'[registered'[n].chan] = n,
         \A ch \in ServiceChannel \ disturbed' : Single(ch)'
  PROVE  Http'
  BY ZenonT(60) DEF Http, Undisturbed

(* Services come and go; requests do not move. *)
LEMMA ListeningKeeps ==
  ASSUME Http, ServiceTypes, UNCHANGED httpVars, UNCHANGED serving,
         DOMAIN registered \subseteq DOMAIN registered', \A n \in DOMAIN registered : registered'[n] = registered[n],
         \A n \in listening' : n \in DOMAIN registered' /\ services'[registered'[n].chan] = n
  PROVE  Http'
  <1>1. \A ch : Here(ch)' = Here(ch) /\ PutAt(ch)' = PutAt(ch) /\ payload'[ch] = payload[ch]
    BY ZenonT(60) DEF Here, PutAt, httpVars
  <1>2. \A ch : ServedAt(ch)' = ServedAt(ch)
    BY ZenonT(60) DEF ServedAt, Http, Undisturbed
  <1>3. \A ch \in ServiceChannel \ disturbed' : Single(ch)'
    BY <1>1, <1>2, SingleKept, ZenonT(60) DEF Http, Undisturbed, httpVars
  <1>4. HttpTypes' /\ OwnAnswer'
    BY ZenonT(60) DEF Http, HttpTypes, OwnAnswer, httpVars
  <1>5. serving' \subseteq asked' \X DOMAIN registered'
    BY ZenonT(60) DEF Http, Undisturbed, httpVars
  <1>6. QED
    BY <1>3, <1>4, <1>5, HttpParts, ZenonT(60) DEF Http, Undisturbed, httpVars

(* A request through a bridge. *)
LEMMA HttpRequestKeeps ==
  ASSUME Http, ServiceTypes, NEW r \in Request, NEW k \in Key, HttpRequest(r, k)
  PROVE  Http'
  <1> DEFINE ch == KeyChannel[k]
  <1>1. ch \in ServiceChannel /\ r \notin asked /\ r \notin DOMAIN waiting
    BY PlankAssumption, ZenonT(60) DEF HttpRequest, Http, Undisturbed
  <1>2. /\ DOMAIN waiting' = DOMAIN waiting \cup {r} /\ waiting'[r] = k
        /\ \A q \in DOMAIN waiting : waiting'[q] = waiting[q]
    BY <1>1, ZenonT(60) DEF HttpRequest
  <1>3. /\ UNCHANGED <<services, registered, listening, payload, putting, answer>> /\ asked' = asked \cup {r}
        /\ disturbed \subseteq disturbed'
        /\ serving' = serving \cup {<<r, n>> : n \in {m \in listening : registered[m].chan = ch}}
    BY ZenonT(60) DEF HttpRequest, Serve
  <1>4. \A c : c # ch => Here(c)' = Here(c)
    BY <1>1, <1>2, ZenonT(60) DEF Here
  <1>5. \A c : c # ch => ServedAt(c)' = ServedAt(c)
    BY <1>3, SMTT(60) DEF ServedAt
  <1>6. \A c : PutAt(c)' = PutAt(c) /\ payload'[c] = payload[c]
    BY <1>3, ZenonT(60) DEF PutAt
  <1>7. ASSUME ch \notin disturbed'
        PROVE  Single(ch)'
    <2>1. Here(ch) = {} /\ ch \notin disturbed
      BY <1>7, ZenonT(60) DEF HttpRequest, Here
    <2>2. ServedAt(ch) = {} /\ PutAt(ch) = {} /\ payload[ch] = << >>
      BY <1>1, <2>1, ZenonT(60) DEF Http, Undisturbed, Single
    <2>3. Here(ch)' = {r}
      BY <1>1, <1>2, <2>1, SMTT(60) DEF Here
    <2>4. ServedAt(ch)' \subseteq {<<r, services[ch]>>}
      BY <1>3, <2>2, SMTT(60) DEF ServedAt, Http, Undisturbed
    <2>5. \A s \in ServedAt(ch)' : s[1] = r /\ \A t \in ServedAt(ch)' : s = t
      BY <2>4, SMTT(60)
    <2>6. QED
      BY <1>6, <2>2, <2>3, <2>5, ZenonT(60) DEF Single
  <1>8. \A c \in ServiceChannel \ disturbed' : Single(c)'
    <2> SUFFICES ASSUME NEW c \in ServiceChannel \ disturbed', c # ch
                 PROVE  Single(c)'
      BY <1>7, ZenonT(60)
    <2>1. Single(c)
      BY <1>3, ZenonT(60) DEF Http, Undisturbed
    <2>2. QED
      BY <1>4, <1>5, <1>6, <2>1, SingleKept, ZenonT(60)
  <1>9. HttpTypes' /\ OwnAnswer'
    BY <1>3, ZenonT(60) DEF Http, HttpTypes, OwnAnswer
  <1>10. serving' \subseteq asked' \X DOMAIN registered'
    BY <1>3, SMTT(60) DEF Http, Undisturbed
  <1>11. QED
    BY <1>2, <1>3, <1>8, <1>9, <1>10, HttpParts, ZenonT(60) DEF Http, Undisturbed

(* A request of another user of the bus. *)
LEMMA BusRequestKeeps ==
  ASSUME Http, ServiceTypes, NEW r \in Request, NEW ch \in ServiceChannel, BusRequest(r, ch)
  PROVE  Http'
  <1>1. /\ UNCHANGED <<services, registered, listening, payload, putting, waiting, answer>> /\ asked' = asked \cup {r}
        /\ disturbed' = disturbed \cup {ch}
        /\ serving' = serving \cup {<<r, n>> : n \in {m \in listening : registered[m].chan = ch}}
    BY ZenonT(60) DEF BusRequest, Serve
  <1>2. \A c : c # ch => ServedAt(c)' = ServedAt(c)
    BY <1>1, SMTT(60) DEF ServedAt
  <1>3. \A c : Here(c)' = Here(c) /\ PutAt(c)' = PutAt(c) /\ payload'[c] = payload[c]
    BY <1>1, ZenonT(60) DEF Here, PutAt
  <1>4. \A c \in ServiceChannel \ disturbed' : Single(c)'
    BY <1>1, <1>2, <1>3, SingleKept, ZenonT(60) DEF Http, Undisturbed
  <1>5. HttpTypes' /\ OwnAnswer'
    BY <1>1, ZenonT(60) DEF Http, HttpTypes, OwnAnswer
  <1>6. serving' \subseteq asked' \X DOMAIN registered'
    BY <1>1, SMTT(60) DEF Http, Undisturbed
  <1>7. QED
    BY <1>1, <1>4, <1>5, <1>6, HttpParts, ZenonT(60) DEF Http, Undisturbed

(* A service answers. *)
LEMMA SendResponseKeeps ==
  ASSUME Http, ServiceTypes, NEW r, NEW n, SendResponse(r, n)
  PROVE  Http'
  <1>0. PICK ch : ch = registered[n].chan
    BY ZenonT(60)
  <1>1. /\ UNCHANGED <<services, registered, listening, payload, waiting, asked, answer, disturbed>>
        /\ <<r, n>> \in serving /\ serving' = serving \ {<<r, n>>}
        /\ putting' = putting \/ putting' = putting \cup {<<r, ch>>}
    BY <1>0, ZenonT(60) DEF SendResponse, Served
  <1>2. \A c : Here(c)' = Here(c) /\ payload'[c] = payload[c]
    BY <1>1, ZenonT(60) DEF Here
  <1>3. \A c : c # ch => ServedAt(c)' = ServedAt(c) /\ PutAt(c)' = PutAt(c)
    BY <1>0, <1>1, SMTT(60) DEF ServedAt, PutAt
  <1>4. ASSUME ch \in ServiceChannel \ disturbed
        PROVE  Single(ch)'
    <2>1. Single(ch) /\ <<r, n>> \in ServedAt(ch)
      BY <1>0, <1>1, <1>4, ZenonT(60) DEF Http, Undisturbed, ServedAt
    <2>2. r \in Here(ch) /\ PutAt(ch) = {} /\ payload[ch] = << >> /\ ServedAt(ch) = {<<r, n>>}
      BY <2>1, ZenonT(60) DEF Single
    <2>3. ServedAt(ch)' = {}
      BY <1>1, <2>2, ZenonT(60) DEF ServedAt
    <2>4. PutAt(ch)' \subseteq {<<r, ch>>}
      BY <1>1, <2>2, ZenonT(60) DEF PutAt
    <2>5. \A p \in PutAt(ch)' : p[1] = r
      BY <2>4, SMTT(60)
    <2>6. /\ \A p, q \in Here(ch)' : p = q
          /\ \A p \in PutAt(ch)' : p[1] \in Here(ch)' /\ payload'[ch] = << >>
      BY <1>2, <2>1, <2>2, <2>5, ZenonT(60) DEF Single
    <2>7. QED
      BY <1>2, <2>2, <2>3, <2>6, ZenonT(60) DEF Single
  <1>5. \A c \in ServiceChannel \ disturbed' : Single(c)'
    <2> SUFFICES ASSUME NEW c \in ServiceChannel \ disturbed, c # ch
                 PROVE  Single(c)'
      BY <1>1, <1>4, ZenonT(60)
    <2>1. Single(c)
      BY ZenonT(60) DEF Http, Undisturbed
    <2>2. QED
      BY <1>2, <1>3, <2>1, SingleKept, ZenonT(60)
  <1>6. HttpTypes' /\ OwnAnswer'
    BY <1>1, ZenonT(60) DEF Http, HttpTypes, OwnAnswer
  <1>7. putting' \subseteq asked' \X ServiceChannel
    <2>1. r \in asked /\ n \in DOMAIN registered
      BY <1>1, ZenonT(60) DEF Http, Undisturbed
    <2>2. registered[n] \in ServiceType
      BY <2>1, Element, ZenonT(60) DEF ServiceTypes
    <2>3. ch \in ServiceChannel
      BY <1>0, <2>2, ZenonT(60) DEF ServiceType
    <2>4. QED
      BY <1>1, <2>1, <2>3, SMTT(60) DEF Http, Undisturbed
  <1>8. QED
    BY <1>7, <1>1, <1>5, <1>6, HttpParts, ZenonT(60) DEF Http, Undisturbed

(* The stream's handler puts a response into the Go channel, or ends the process. *)
LEMMA PutPayloadKeeps ==
  ASSUME Http, NEW r \in Request, NEW ch \in ServiceChannel, PutPayload(r, ch)
  PROVE  Http'
  <1>1. /\ UNCHANGED <<services, registered, listening, serving, waiting, asked, answer, disturbed>>
        /\ <<r, ch>> \in putting /\ putting' = putting \ {<<r, ch>>}
        /\ payload' = payload \/ payload' = [payload EXCEPT ![ch] = Append(@, r)]
    BY ZenonT(60) DEF PutPayload, KeepServices, Put
  <1>2. \A c : Here(c)' = Here(c) /\ ServedAt(c)' = ServedAt(c)
    BY <1>1, ZenonT(60) DEF Here, ServedAt
  <1>3. \A c \in ServiceChannel : c # ch => PutAt(c)' = PutAt(c) /\ payload'[c] = payload[c]
    BY <1>1, SMTT(60) DEF PutAt, Http, HttpTypes
  <1>4. ASSUME ch \notin disturbed
        PROVE  Single(ch)'
    <2>1. Single(ch) /\ <<r, ch>> \in PutAt(ch)
      BY <1>1, <1>4, ZenonT(60) DEF Http, Undisturbed, PutAt
    <2>2. r \in Here(ch) /\ payload[ch] = << >> /\ ServedAt(ch) = {}
      BY <2>1, ZenonT(60) DEF Single
    <2>3. \A p \in PutAt(ch) : p = <<r, ch>>
      <3> SUFFICES ASSUME NEW p \in PutAt(ch)
                   PROVE  p = <<r, ch>>
        BY ZenonT(60)
      <3>1. p \in putting /\ p[2] = ch /\ p[1] = r
        BY <2>1, <2>2, ZenonT(60) DEF Single, PutAt
      <3>2. p \in asked \X ServiceChannel
        BY <3>1, ZenonT(60) DEF Http, Undisturbed
      <3>3. QED
        BY <3>1, <3>2, SMTT(60)
    <2>4. PutAt(ch)' = {}
      BY <1>1, <2>3, ZenonT(60) DEF PutAt
    <2>5. payload'[ch] = << >> \/ (Len(payload'[ch]) = 1 /\ payload'[ch][1] = r)
      BY <1>1, <2>2, SMTT(60) DEF Http, HttpTypes
    <2>6. \A p, q \in Here(ch)' : p = q
      BY <1>2, <2>1, ZenonT(60) DEF Single
    <2>7. QED
      BY <1>2, <2>2, <2>4, <2>5, <2>6, ZenonT(60) DEF Single
  <1>5. \A c \in ServiceChannel \ disturbed' : Single(c)'
    <2> SUFFICES ASSUME NEW c \in ServiceChannel \ disturbed, c # ch
                 PROVE  Single(c)'
      BY <1>1, <1>4, ZenonT(60)
    <2>1. Single(c)
      BY ZenonT(60) DEF Http, Undisturbed
    <2>2. QED
      BY <1>2, <1>3, <2>1, SingleKept, ZenonT(60)
  <1>6. HttpTypes' /\ OwnAnswer'
    <2>1. Append(payload[ch], r) \in Seq(Request)
      BY SMTT(60) DEF Http, HttpTypes
    <2>2. payload' \in [ServiceChannel -> Seq(Request)]
      BY <1>1, <2>1, ZenonT(60) DEF Http, HttpTypes
    <2>3. QED
      BY <1>1, <2>2, ZenonT(60) DEF Http, HttpTypes, OwnAnswer
  <1>7. QED
    BY <1>1, <1>5, <1>6, HttpParts, ZenonT(60) DEF Http, Undisturbed

(* A request that waits takes a response, or times out. *)
LEMMA EndsKeeps ==
  ASSUME Http, NEW r, TakeResponse(r) \/ Timeout(r)
  PROVE  Http'
  <1>0. PICK ch : ch = KeyChannel[waiting[r]]
    BY ZenonT(60)
  <1>1. /\ UNCHANGED <<services, registered, listening, serving, putting, asked>> /\ r \in DOMAIN waiting
        /\ DOMAIN waiting' = DOMAIN waiting \ {r} /\ \A q \in DOMAIN waiting' : waiting'[q] = waiting[q]
        /\ DOMAIN answer' = DOMAIN answer \cup {r} /\ answer'[r].at = waiting[r]
        /\ \A q \in DOMAIN answer : q # r => answer'[q] = answer[q]
        /\ disturbed \subseteq disturbed'
    <2>1. PICK a : Ends(r, a)
      BY ZenonT(60) DEF TakeResponse, Timeout
    <2>2. /\ UNCHANGED <<services, registered, listening, serving, putting, asked>> /\ r \in DOMAIN waiting
          /\ disturbed \subseteq disturbed'
      <3>1. CASE TakeResponse(r)
        BY <3>1, ZenonT(60) DEF TakeResponse, serviceVars
      <3>2. CASE Timeout(r)
        BY <3>2, ZenonT(60) DEF Timeout, serviceVars
      <3>3. QED
        BY <3>1, <3>2, ZenonT(60)
    <2>3. DOMAIN waiting' = DOMAIN waiting \ {r} /\ \A q \in DOMAIN waiting' : waiting'[q] = waiting[q]
      BY <2>1, ZenonT(60) DEF Ends
    <2>4. /\ DOMAIN answer' = DOMAIN answer \cup {r} /\ answer'[r].at = waiting[r]
          /\ \A q \in DOMAIN answer : q # r => answer'[q] = answer[q]
      BY <2>1, ZenonT(60) DEF Ends
    <2>5. QED
      BY <2>2, <2>3, <2>4, ZenonT(60)
  <1>2. ch \in ServiceChannel /\ waiting[r] \in Key
    BY <1>0, <1>1, PlankAssumption, ZenonT(60) DEF Http, Undisturbed
  <1>3. \A c : c # ch => Here(c)' = Here(c)
    <2> SUFFICES ASSUME NEW c, c # ch, NEW q
                 PROVE  q \in Here(c)' <=> q \in Here(c)
      BY ZenonT(60) DEF Here
    <2>1. q = r => q \notin Here(c) /\ q \notin Here(c)'
      BY <1>0, <1>1, ZenonT(60) DEF Here
    <2>2. q # r => (q \in DOMAIN waiting' <=> q \in DOMAIN waiting)
      BY <1>1, ZenonT(60)
    <2>3. q # r /\ q \in DOMAIN waiting' => waiting'[q] = waiting[q]
      BY <1>1, ZenonT(60)
    <2>4. QED
      BY <2>1, <2>2, <2>3, ZenonT(60) DEF Here
  <1>4. \A c : PutAt(c)' = PutAt(c) /\ ServedAt(c)' = ServedAt(c)
    BY <1>1, ZenonT(60) DEF PutAt, ServedAt
  <1>5. \A c \in ServiceChannel : c # ch => payload'[c] = payload[c]
    BY <1>0, ZenonT(60) DEF TakeResponse, Timeout, Http, HttpTypes
  <1>6. payload' \in [ServiceChannel -> Seq(Request)]
    <2>1. CASE payload' = payload
      BY <2>1, ZenonT(60) DEF Http, HttpTypes
    <2>2. CASE payload[ch] # << >> /\ payload' = [payload EXCEPT ![ch] = Tail(@)]
      <3>1. payload[ch] \in Seq(Request)
        BY <1>2, ZenonT(60) DEF Http, HttpTypes
      <3>2. Tail(payload[ch]) \in Seq(Request)
        BY <2>2, <3>1, SMTT(60)
      <3>3. QED
        BY <2>2, <3>2, ZenonT(60) DEF Http, HttpTypes
    <2>3. QED
      BY <1>0, <2>1, <2>2, ZenonT(60) DEF TakeResponse, Timeout
  <1>7. ASSUME ch \notin disturbed'
        PROVE  Single(ch)' /\ answer'[r].of = r
    <2>1. TakeResponse(r)
      BY <1>0, <1>7, ZenonT(60) DEF Timeout
    <2>2. payload[ch] # << >> /\ payload'[ch] = Tail(payload[ch]) /\ answer'[r].of = Head(payload[ch])
      BY <1>0, <1>2, <2>1, ZenonT(60) DEF TakeResponse, Ends, Http, HttpTypes
    <2>3. Single(ch) /\ r \in Here(ch) /\ payload[ch] \in Seq(Request)
      BY <1>0, <1>1, <1>2, <1>7, ZenonT(60) DEF Http, HttpTypes, Undisturbed, Here
    <2>4. Here(ch) = {r} /\ Len(payload[ch]) = 1 /\ payload[ch][1] = r /\ ServedAt(ch) = {} /\ PutAt(ch) = {}
      BY <2>2, <2>3, ZenonT(60) DEF Single
    <2>5. payload'[ch] = << >> /\ answer'[r].of = r
      <3>1. Tail(payload[ch]) \in Seq(Request) /\ Len(Tail(payload[ch])) = 0
        BY <2>2, <2>3, <2>4, HeadTailProperties, SMTT(60)
      <3>2. Tail(payload[ch]) = << >>
        BY <3>1, EmptySeq, ZenonT(60)
      <3>3. Head(payload[ch]) = payload[ch][1]
        BY <2>2, <2>3, SMTT(60)
      <3>4. QED
        BY <2>2, <2>4, <3>2, <3>3, ZenonT(60)
    <2>6. Here(ch)' = {}
      BY <1>1, <2>4, ZenonT(60) DEF Here
    <2>7. QED
      BY <1>4, <2>4, <2>5, <2>6, ZenonT(60) DEF Single
  <1>8. \A c \in ServiceChannel \ disturbed' : Single(c)'
    <2> SUFFICES ASSUME NEW c \in ServiceChannel \ disturbed', c # ch
                 PROVE  Single(c)'
      BY <1>7, ZenonT(60)
    <2>1. Single(c)
      BY <1>1, ZenonT(60) DEF Http, Undisturbed
    <2>2. QED
      BY <1>3, <1>4, <1>5, <2>1, SingleKept, ZenonT(60)
  <1>9. OwnAnswer'
    <2> SUFFICES ASSUME NEW q \in DOMAIN answer'
                 PROVE  answer'[q].of \in {q, "timeout"} \/ KeyChannel[answer'[q].at] \in disturbed'
      BY ZenonT(60) DEF OwnAnswer
    <2>1. CASE q = r
      BY <1>0, <1>1, <1>7, <2>1, ZenonT(60)
    <2>2. CASE q # r
      BY <1>1, <2>2, ZenonT(60) DEF Http, OwnAnswer
    <2>3. QED
      BY <2>1, <2>2, ZenonT(60)
  <1>10. HttpTypes'
    BY <1>1, <1>6, ZenonT(60) DEF Http, HttpTypes
  <1>11. QED
    BY <1>1, <1>2, <1>8, <1>9, <1>10, HttpParts, ZenonT(60) DEF Http, Undisturbed

(* Every step keeps Http. *)
LEMMA HttpKept ==
  ASSUME IInv, [Next]_vars
  PROVE  Http'
  <1> USE DEF IInv
  <1>1. CASE UNCHANGED <<services, registered, listening, serving, httpVars>>
    BY <1>1, ListeningKeeps, ZenonT(60) DEF Service, Http, Undisturbed
  <1>2. ASSUME NEW ch \in ServiceChannel, NEW hooks, RegisterService(ch, hooks), UNCHANGED httpVars
        PROVE  Http'
    <2> DEFINE n == Len(registered) + 1
    <2>1. /\ services[ch] = 0 /\ services' = [services EXCEPT ![ch] = n] /\ listening' = listening \cup {n}
          /\ registered' = Append(registered, [chan |-> ch, hooks |-> hooks]) /\ serving' = serving
      BY <1>2, ZenonT(60) DEF RegisterService
    <2>2. /\ DOMAIN registered' = DOMAIN registered \cup {n} /\ registered'[n].chan = ch
          /\ \A m \in DOMAIN registered : registered'[m] = registered[m] /\ m # 0
      BY <2>1, SMTT(60) DEF Service, ServiceTypes
    <2>3. services'[ch] = n /\ \A c \in ServiceChannel : c # ch => services'[c] = services[c]
      BY <2>1, ZenonT(60) DEF Service, ServiceTypes
    <2> HIDE DEF n
    <2>4. ASSUME NEW m \in listening
          PROVE  m \in DOMAIN registered' /\ services'[registered'[m].chan] = m
      <3>1. m \in DOMAIN registered /\ services[registered[m].chan] = m
        BY ZenonT(60) DEF Http, Undisturbed
      <3>2. registered[m] \in ServiceType /\ m # 0
        BY <3>1, Element, ZenonT(60) DEF Service, ServiceTypes
      <3>3. registered[m].chan \in ServiceChannel /\ registered[m].chan # ch
        BY <2>1, <3>1, <3>2, ZenonT(60) DEF ServiceType
      <3>4. QED
        BY <2>2, <2>3, <3>1, <3>3, ZenonT(60)
    <2>5. QED
      BY <1>2, <2>1, <2>2, <2>3, <2>4, ListeningKeeps, ZenonT(60) DEF Service
  <1>3. ASSUME NEW ch \in ServiceChannel, UnregisterService(ch), UNCHANGED httpVars
        PROVE  Http'
    <2>1. /\ services' = [services EXCEPT ![ch] = 0] /\ listening' = listening \ {services[ch]}
          /\ UNCHANGED <<registered, serving>>
      BY <1>3, ZenonT(60) DEF UnregisterService
    <2>2. ASSUME NEW m \in listening'
          PROVE  m \in DOMAIN registered' /\ services'[registered'[m].chan] = m
      <3>1. m \in DOMAIN registered /\ services[registered[m].chan] = m /\ m # services[ch]
        BY <2>1, ZenonT(60) DEF Http, Undisturbed
      <3>2. registered[m] \in ServiceType
        BY <3>1, Element, ZenonT(60) DEF Service, ServiceTypes
      <3>3. QED
        BY <2>1, <3>1, <3>2, ZenonT(60) DEF ServiceType, Service, ServiceTypes
    <2>3. QED
      BY <1>3, <2>1, <2>2, ListeningKeeps, ZenonT(60) DEF Service
  <1>4. ASSUME ServiceStep, UNCHANGED plankVars
        PROVE  Http'
    <2>1. use.channel \subseteq ServiceChannel /\ UNCHANGED httpVars
      BY <1>4, PlankAssumption, ZenonT(60) DEF Rest, RestTypes, plankVars, httpVars
    <2>2. ASSUME NEW x, NEW y, OverrideRESTBridgeConfig(x, y) \/ MarkReady(x) \/ BeginSetup(x) \/ AwaitReady(x)
                               \/ PutReady(x, y)
          PROVE  Http'
      BY <1>1, <2>1, <2>2, ZenonT(60) DEF OverrideRESTBridgeConfig, MarkReady, BeginSetup, AwaitReady, PutReady
    <2>3. QED
      BY <1>2, <1>3, <1>4, <2>1, <2>2, ZenonT(60) DEF ServiceStep
  <1>5. CASE SetupStep
    <2>1. ASSUME NEW i, NEW k, \/ ClearBridges(i) \/ LoadRouter(i) \/ SetHttpChannelBridge(i, k) \/ MapBridge(i, k)
          PROVE  Http'
      BY <1>1, <2>1, ZenonT(60) DEF ClearBridges, LoadRouter, SetHttpChannelBridge, MapBridge, KeepServices
    <2>2. ASSUME NEW i, BridgesSet(i) \/ CallSetHttpChannelBridge(i)
          PROVE  Http'
      BY <1>1, <2>2, ZenonT(60) DEF BridgesSet, CallSetHttpChannelBridge, KeepServices, plankVars, httpVars
    <2>3. QED
      BY <1>5, <2>1, <2>2, ZenonT(60) DEF SetupStep
  <1>6. CASE MiddlewareStep
    BY <1>1, <1>6, ZenonT(60) DEF MiddlewareStep, SetNewMiddleware, RemoveMiddleware, serviceVars
  <1>7. CASE RequestStep
    <2>1. use.request \subseteq Request /\ use.channel \subseteq ServiceChannel /\ asked \subseteq Request
      BY PlankAssumption, ZenonT(60) DEF Rest, RestTypes, Http, HttpTypes
    <2>2. QED
      BY <1>7, <2>1, HttpRequestKeeps, BusRequestKeeps, SendResponseKeeps, PutPayloadKeeps, EndsKeeps, ZenonT(60)
        DEF RequestStep, Service
  <1>8. CASE ServerStep
    <2>1. UNCHANGED <<services, registered, listening, serving, httpVars>>
      BY <1>8, ZenonT(60) DEF ServerStep, StartServer, LoadStartRouter, Listen, Dial, StopServer, StopReturns, StartReturns,
        OnServerShutdown, Deadline, KeepServices, serviceVars, plankVars, httpVars
    <2>2. QED
      BY <1>1, <2>1, ZenonT(60)
  <1>9. CASE UNCHANGED <<serviceVars, plankVars>>
    BY <1>1, <1>9, ZenonT(60) DEF serviceVars, plankVars, httpVars
  <1>10. QED
    BY <1>4, <1>5, <1>6, <1>7, <1>8, <1>9, Steps, ZenonT(60) DEF vars

-----------------------------------------------------------------------------
(* The inductive invariant. *)
LEMMA Invariance == Spec => []IInv
  <1>1. Init => IInv
    <2> SUFFICES ASSUME Init
                 PROVE  IInv
      BY ZenonT(60)
    <2>1. Rest
      BY SMTT(60) DEF Init, RestInit, Rest, RestTypes, Telling
    <2>2. Service
      BY SMTT(60) DEF Init, ServicesInit, Service, ServiceTypes, Readiness, ReadyIsTrue
    <2>3. Http
      <3>1. HttpTypes /\ OwnAnswer
        BY SMTT(60) DEF Init, HttpTypes, OwnAnswer
      <3>2. \A ch \in ServiceChannel : Single(ch)
        BY ZenonT(60) DEF Init, ServicesInit, Single, Here, ServedAt, PutAt
      <3>3. QED
        BY <3>1, <3>2, ZenonT(60) DEF Init, ServicesInit, Http, Undisturbed
    <2>4. Route
      <3>1. RouteTypes
        <4>1. [k \in Key |-> None] \in [Key -> HandlerType]
          BY ZenonT(60) DEF None, Handler, HandlerType
        <4>2. routers \in Seq([Key -> HandlerType]) /\ Len(routers) = 1
          BY <4>1, SMTT(60) DEF Init
        <4>3. QED
          BY <4>1, <4>2, SMTT(60) DEF Init, RouteTypes
      <3>2. Routing
        BY SMTT(60) DEF Init, ServicesInit, Routing
      <3>3. QED
        BY <3>1, <3>2, ZenonT(60) DEF Route
    <2>5. QED
      BY <2>1, <2>2, <2>3, <2>4, ZenonT(60) DEF IInv
  <1>2. IInv /\ [Next]_vars => IInv'
    BY RestKept, ServiceKept, HttpKept, RouteKept, ZenonT(60) DEF IInv
  <1>3. QED
    BY <1>1, <1>2, PTL DEF Spec

(***************************************************************************)
(* A caller of the REST service is told the answer to its own request, in  *)
(* the form it asked for, or an error (rest_service.go:66), however many   *)
(* calls are under way on the one channel they share.                      *)
(***************************************************************************)
THEOREM RestTellsOwn == Spec => []RestAnswerIsOwn
  <1>1. ASSUME IInv, NEW c \in DOMAIN rest, rest[c].told # << >>
        PROVE  IF rest[c].told[1].result = "error"
               THEN rest[c].told[1].of = 0 \/ rest[c].at = "answered"
               ELSE rest[c].told[1].of = c /\ Fits(rest[c].asked, rest[c].told[1].result)
    <2> DEFINE m == rest[c].told[1]
    <2>1. m.of \in {0, c} /\ Genuine(m)
      BY <1>1, ZenonT(60) DEF IInv, Rest, Telling
    <2>2. 0 \notin DOMAIN rest
      <3>1. rest \in Seq(CallType)
        BY <1>1, ZenonT(60) DEF IInv, Rest, RestTypes
      <3>2. QED
        BY <3>1, SMTT(60)
    <2>3. QED
      BY <2>1, <2>2, ZenonT(60) DEF Genuine
  <1>2. IInv => RestAnswerIsOwn
    BY <1>1, ZenonT(60) DEF Fits, RestAnswerIsOwn
  <1>3. QED
    BY <1>2, Invariance, PTL

(***************************************************************************)
(* The ready store has a channel as ready only if its first service has no *)
(* hooks or has said so, in whatever order services come and go and their  *)
(* bridges are set up (initialize.go:131, server.go:304).                  *)
(***************************************************************************)
THEOREM ReadinessIsTrue == Spec => []ReadyIsTrue
  BY Invariance, PTL DEF IInv, Service

(***************************************************************************)
(* At a channel without overlapping requests, timeouts and other users an  *)
(* HTTP request is never answered with the response to another request,    *)
(* although all share one Go channel (endpointer_handler_factory.go:36),   *)
(* for any number of requests, endpoints and services that come and go.    *)
(***************************************************************************)
THEOREM AnswersAreOwn == Spec => []OwnAnswer
  BY Invariance, PTL DEF IInv, Http

(***************************************************************************)
(* Outside the strayed endpoints the router in use has the handler of the  *)
(* last bridge that was set for an endpoint, through any overrides and     *)
(* middleware (server.go:473, middleware_manager.go:44).                   *)
(***************************************************************************)
THEOREM RoutesAreCurrent == Spec => []RoutesFollow
  <1>1. IInv => RoutesFollow
    BY ZenonT(60) DEF IInv, Route, Routing, RoutesFollow
  <1>2. QED
    BY <1>1, Invariance, PTL
=============================================================================
