------------------------------ MODULE MCPlank ------------------------------
(* An instance of Plank for TLC. *)
EXTENDS Plank

CONSTANTS a, b, k1, k2, k3, r1, r2, r3

MCKeyChannel == [k \in Key |-> IF k = k1 THEN a ELSE b]

\* One service with hooks that get ready.
Base ==
  [calls |-> {}, channel |-> {a}, hooks |-> {TRUE}, service |-> 1, setup |-> 2, ready |-> {TRUE},
   request |-> {}, rest |-> {}, fromConfig |-> FALSE]

\* Calls with every payload, with headers set at both places, and with every type.
MCRest ==
  {[payload |-> "request", header |-> "json", coreHeader |-> "text", type |-> "value"],
   [payload |-> "request", header |-> "none", coreHeader |-> "text", type |-> "string"],
   [payload |-> "request", header |-> "none", coreHeader |-> "none", type |-> "none"],
   [payload |-> "map", header |-> "none", coreHeader |-> "none", type |-> "none"],
   [payload |-> "javaString", header |-> "none", coreHeader |-> "none", type |-> "none"],
   [payload |-> "other", header |-> "none", coreHeader |-> "none", type |-> "none"]}

\* Requests to a service, and a stop; overrides of two services;
\* overrides and a path prefix; overrides and middleware;
\* services that come and go, with bridges the program sets; a server made from a file;
\* an override during the start; a service that calls the REST service when it
\* gets ready; other calls of the REST service.
MCUses ==
  {[Base EXCEPT !.calls = {"server", "bus"}, !.setup = 1, !.request = {r1, r2, r3}],
   [Base EXCEPT !.calls = {"override"}, !.channel = {a, b}, !.service = 2, !.setup = 3],
   [Base EXCEPT !.calls = {"override", "bridge"}, !.channel = {a, b}, !.setup = 3],
   [Base EXCEPT !.calls = {"override", "middleware"}, !.ready = BOOLEAN],
   [Base EXCEPT !.calls = {"unregister", "bridge"}, !.hooks = BOOLEAN, !.service = 3, !.ready = BOOLEAN],
   [Base EXCEPT !.calls = {"server", "bridge"}, !.hooks = {FALSE}, !.request = {r1}, !.fromConfig = TRUE],
   [Base EXCEPT !.calls = {"server", "override"}],
   [Base EXCEPT !.calls = {"fetch", "error"}, !.setup = 1],
   [Base EXCEPT !.calls = {"error"}, !.service = 0, !.rest = MCRest]}
=============================================================================
