---------------------------- MODULE RestService ----------------------------
(***************************************************************************)
(* The REST service, which every registry registers, and the calls to it   *)
(* (service/rest_service.go, service/fabric_core.go:189). A call           *)
(* subscribes a once handler for its id on the service's channel and sends *)
(* a request there; the service makes the HTTP request in the goroutine    *)
(* that delivers it and answers on the channel. Every message on the       *)
(* channel is handed to every handler there, each in a goroutine.          *)
(*                                                                         *)
(* Plank says who calls. The HTTP server called is outside; its answer may *)
(* never come, since the HTTP client has no timeout.                       *)
(***************************************************************************)
EXTENDS Integers, Sequences

VARIABLES
  rest,      \* the calls so far
  arriving,  \* messages in goroutines: the call answered (0 for an error anybody sent), to whom
  strayErrors \* how many errors others have sent on the channel

restVars == <<rest, arriving, strayErrors>>

RestInit == rest = << >> /\ arriving = {} /\ strayErrors = 0

(***************************************************************************)
(* A call. asked is what the caller wants: payload is "request" for a      *)
(* RestServiceRequest, "map" or "javaString" for one from a client, which  *)
(* is a map, or "other"; header and coreHeader are the content types set   *)
(* for the call and for the calling service, if any; type is ResponseType. *)
(* by is the goroutine that calls, told is what its functions were given.  *)
(***************************************************************************)
RestRequest ==
  [payload : {"request", "map", "javaString", "other"},
   header : {"none", "json", "text"}, coreHeader : {"none", "json", "text"},
   type : {"none", "string", "bytes", "value"}]

Call(asked, by) == [asked |-> asked, by |-> by, at |-> "listening", told |-> << >>]

\* The handler is subscribed before the request is sent.
RestServiceRequest(asked, by) ==
  /\ rest' = Append(rest, Call(asked, by))
  /\ UNCHANGED <<arriving, strayErrors>>

SendRequest(c) ==
  /\ rest[c].at = "listening"
  /\ rest' = [rest EXCEPT ![c].at = "sent"]
  /\ UNCHANGED <<arriving, strayErrors>>

\* A handler that has run is unsubscribed.
Subscribed == {c \in DOMAIN rest : rest[c].told = << >>}

\* A response or an error on the channel.
Messages(of, result) == {[of |-> of, result |-> result, to |-> c] : c \in Subscribed}

Answer(c, result) ==
  /\ rest' = [rest EXCEPT ![c].at = "answered"]
  /\ arriving' = arriving \cup Messages(c, result)
  /\ UNCHANGED strayErrors

\* Whether a payload is, or can be converted to, a RestServiceRequest.
getRestServiceRequest(asked) == asked.payload # "other"

\* The headers of a RestServiceRequest go before those of the service.
ContentType(asked) ==
  IF asked.header # "none" THEN asked.header
  ELSE IF asked.payload = "request" /\ asked.coreHeader # "none" THEN asked.coreHeader
  ELSE "json"

\* A map says with its class that it wants a string; it has no other types. A content
\* type that is not JSON replaces what was asked for.
ResponseType(asked) ==
  IF ContentType(asked) # "json" THEN "bytes"
  ELSE IF asked.payload = "javaString" THEN "string"
  ELSE IF asked.payload = "request" THEN asked.type
  ELSE "none"

\* What is made of a body: JSON of an object, JSON of the type asked for, or no JSON.
deserializeResponse(body, type) ==
  CASE type \in {"string", "bytes"} -> type
    [] type = "value" -> IF body = "value" THEN "value" ELSE "error"
    [] OTHER -> IF body = "object" THEN "map" ELSE "error"

\* Mutant: a body that cannot be marshalled is not answered.
HandleServiceRequest_Silent(c) ==
  /\ rest[c].at = "sent"
  /\ \/ ~getRestServiceRequest(rest[c].asked) /\ Answer(c, "error")
     \/ /\ getRestServiceRequest(rest[c].asked)
        /\ \E at \in {"answered", "http"} : rest' = [rest EXCEPT ![c].at = at]
        /\ UNCHANGED <<arriving, strayErrors>>

\* Up to the HTTP request. Body, method and address may be ones it cannot be made with.
HandleServiceRequest(c) ==
  /\ rest[c].at = "sent"
  /\ \/ Answer(c, "error")
     \/ /\ getRestServiceRequest(rest[c].asked)
        /\ rest' = [rest EXCEPT ![c].at = "http"]
        /\ UNCHANGED <<arriving, strayErrors>>

\* The HTTP request fails, has a status of 300 or more, or has a body.
HttpResponse(c) ==
  /\ rest[c].at = "http"
  /\ \/ Answer(c, "error")
     \/ \E body \in {"object", "value", "text"} :
          Answer(c, deserializeResponse(body, ResponseType(rest[c].asked)))

\* Somebody sends an error on the channel.
SendErrorMessage ==
  /\ arriving' = arriving \cup Messages(0, "error")
  /\ strayErrors' = strayErrors + 1
  /\ UNCHANGED rest

\* Mutant: a response is taken whatever its id.
Accepts_Any(m) == TRUE

\* A response is for the handler with its id, an error for all.
Accepts(m) == m.of \in {0, m.to}

\* The handler's goroutine. The Once lets the first message through, and it unsubscribes.
Tell(m) ==
  /\ m \in arriving
  /\ arriving' = arriving \ {m}
  /\ rest' = IF Accepts(m) /\ rest[m.to].told = << >>
             THEN [rest EXCEPT ![m.to].told = <<[of |-> m.of, result |-> m.result]>>]
             ELSE rest
  /\ UNCHANGED strayErrors

-----------------------------------------------------------------------------
(***************************************************************************)
(* The success function is given the response to its own request, in the   *)
(* form it was asked for: ResponseType, or a map by default. Only a        *)
(* content type other than JSON makes it bytes (rest_service.go:98-105,    *)
(* fabric_core.go:208). Until a call has an answer nothing but an error    *)
(* that somebody sent on the channel ends it.                              *)
(***************************************************************************)
RestAnswerIsOwn ==
  \A c \in DOMAIN rest : rest[c].told # << >> =>
    LET asked == rest[c].asked
        told == rest[c].told[1] IN
    IF told.result = "error" THEN told.of = 0 \/ rest[c].at = "answered"
    ELSE /\ told.of = c
         /\ \/ ContentType(asked) # "json" /\ told.result = "bytes"
            \/ told.result = CASE asked.payload = "javaString" -> "string"
                               [] asked.payload = "request" /\ asked.type # "none" -> asked.type
                               [] OTHER -> "map"
=============================================================================
