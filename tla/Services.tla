------------------------------ MODULE Services ------------------------------
(***************************************************************************)
(* The service registry and the lifecycle manager (service/), and the part *)
(* of Plank that waits for services to be ready (plank/pkg/server/         *)
(* initialize.go:109, server.go:297).                                      *)
(*                                                                         *)
(* A registered service listens for requests on its channel. If it has     *)
(* lifecycle hooks a message asks Plank to set up its REST bridges; the    *)
(* handler of that message runs in a goroutine, a "setup", which ends by   *)
(* marking the channel in the ready store. Plank says how bridges are set. *)
(***************************************************************************)
EXTENDS Integers, Sequences, FiniteSets

CONSTANTS
  ServiceChannel,
  Key,            \* REST endpoints: a URI and a method
  PathPrefix,     \* those that are path prefixes, with all methods
  KeyChannel,     \* the service channel an endpoint is configured for
  Request         \* requests, from HTTP clients and other users of the bus

VARIABLES
  services,    \* the registry: the service at a channel, 0 for none
  registered,  \* the services registered so far, by number: channel, and whether it has hooks
  listening,   \* the services whose request handler is subscribed
  marking,     \* the calls of Plank's RegisterService that have yet to look for hooks
  readyStore,  \* the channels the ready store has as ready
  saidReady,   \* the services whose ready channel has delivered
  setups,      \* the goroutines that set up bridges
  serving,     \* the requests being handled, with the service
  panicked     \* the process has ended

serviceVars == <<services, registered, listening, marking, readyStore, saidReady, setups, serving, panicked>>

ServicesInit ==
  /\ services = [ch \in ServiceChannel |-> 0]
  /\ registered = << >> /\ setups = << >>
  /\ listening = {} /\ marking = {} /\ readyStore = {} /\ saidReady = {} /\ serving = {}
  /\ panicked = FALSE

\* The hooks of the service at a channel, 0 if there is no service or it has none.
GetServiceHooks(ch) == IF services[ch] # 0 /\ registered[services[ch]].hooks THEN services[ch] ELSE 0

\* What the configuration of a service may have; prefixes are set by the program.
KeysOf(ch) == {k \in Key \ PathPrefix : KeyChannel[k] = ch}

\* A goroutine that is to set the bridges of config; router is the one it has made, if any.
Setup(ch, config, kind, at) ==
  [chan |-> ch, todo |-> config, kind |-> kind, at |-> at, hooks |-> 0, router |-> 0]

(***************************************************************************)
(* RegisterService of the registry, all under its lock. The caller is      *)
(* RegisterService of Plank, which has yet to mark a service without hooks *)
(* as ready. A nil service, a taken channel and a failing Init change      *)
(* nothing here.                                                           *)
(***************************************************************************)
RegisterService(ch, hooks) ==
  LET n == Len(registered) + 1 IN
  /\ services[ch] = 0
  /\ services' = [services EXCEPT ![ch] = n]
  /\ registered' = Append(registered, [chan |-> ch, hooks |-> hooks])
  /\ listening' = listening \cup {n}
  /\ marking' = marking \cup {n}
  /\ setups' = IF hooks THEN Append(setups, Setup(ch, KeysOf(ch), "register", "new")) ELSE setups
  /\ UNCHANGED <<readyStore, saidReady, serving, panicked>>

\* Plank's RegisterService, after the registry's.
MarkReady(n) ==
  LET ch == registered[n].chan IN
  /\ n \in marking
  /\ marking' = marking \ {n}
  /\ readyStore' = IF GetServiceHooks(ch) = 0 THEN readyStore \cup {ch} ELSE readyStore
  /\ UNCHANGED <<services, registered, listening, saidReady, setups, serving, panicked>>

UnregisterService(ch) ==
  /\ services[ch] # 0
  /\ services' = [services EXCEPT ![ch] = 0]
  /\ listening' = listening \ {services[ch]}
  /\ UNCHANGED <<registered, marking, readyStore, saidReady, setups, serving, panicked>>

OverrideRESTBridgeConfig(ch, config) ==
  /\ services[ch] # 0
  /\ setups' = Append(setups, Setup(ch, config, "override", "new"))
  /\ UNCHANGED <<services, registered, listening, marking, readyStore, saidReady, serving, panicked>>

\* The handler of the lifecycle message begins.
BeginSetup(i) ==
  /\ setups[i].at = "new"
  /\ setups' = [setups EXCEPT ![i].hooks = GetServiceHooks(setups[i].chan),
                              ![i].at = IF setups[i].kind = "override" THEN "clear" ELSE "set"]
  /\ UNCHANGED <<services, registered, listening, marking, readyStore, saidReady, serving, panicked>>

\* Mutant: the channel is marked before the service has said anything.
AwaitReady_NoWait(i) ==
  /\ setups[i].at = "ready"
  /\ setups' = [setups EXCEPT ![i].at = "ended"]
  /\ readyStore' = readyStore \cup {setups[i].chan}
  /\ UNCHANGED <<services, registered, listening, marking, saidReady, serving, panicked>>

\* It waits if the store does not have the channel as ready; nil hooks end the process.
AwaitReady(i) ==
  LET isReady == setups[i].chan \in readyStore IN
  /\ setups[i].at = "ready"
  /\ setups' = [setups EXCEPT ![i].at = IF isReady THEN "ended" ELSE "waiting"]
  /\ panicked' = (~isReady /\ setups[i].hooks = 0)
  /\ UNCHANGED <<services, registered, listening, marking, readyStore, saidReady, serving>>

\* The service says whether it is ready; the store takes what it says.
PutReady(i, said) ==
  /\ setups[i].at = "waiting"
  /\ setups' = [setups EXCEPT ![i].at = "ended"]
  /\ saidReady' = IF said THEN saidReady \cup {setups[i].hooks} ELSE saidReady
  /\ readyStore' = IF said THEN readyStore \cup {setups[i].chan} ELSE readyStore \ {setups[i].chan}
  /\ UNCHANGED <<services, registered, listening, marking, serving, panicked>>

\* A request sent on the channel is handed to the service that listens.
Serve(r, ch) ==
  /\ serving' = serving \cup {<<r, n>> : n \in {m \in listening : registered[m].chan = ch}}
  /\ UNCHANGED <<services, registered, listening, marking, readyStore, saidReady, setups, panicked>>

\* SendResponse and SendErrorResponse of the fabric core, called by the service.
Served(r, n) ==
  /\ <<r, n>> \in serving
  /\ serving' = serving \ {<<r, n>>}
  /\ UNCHANGED <<services, registered, listening, marking, readyStore, saidReady, setups, panicked>>

(***************************************************************************)
(* A channel is ready in the store only if the service registered there    *)
(* has no hooks, or its ready channel has delivered (initialize.go:131,    *)
(* server.go:304). The store keeps the entry when a service is             *)
(* unregistered, so this is about the first service of a channel.          *)
(***************************************************************************)
ReadyIsTrue ==
  \A n \in 1 .. Len(registered) :
    LET ch == registered[n].chan IN
    services[ch] = n /\ ch \in readyStore /\ registered[n].hooks =>
      n \in saidReady \/ \E m \in 1 .. n - 1 : registered[m].chan = ch
=============================================================================
