------------------------- MODULE TransactionPromise -------------------------
(***************************************************************************)
(* What the interface BusTransaction of bus/transaction.go promises its    *)
(* user: requests are added until the commit; each is answered once; when  *)
(* all are, the complete handlers are told; the first error before that    *)
(* ends the transaction and the error handlers are told instead.           *)
(***************************************************************************)
EXTENDS Integers

VARIABLES
  phase,   \* "uncommitted", "committed", "completed" or "aborted"
  size,    \* the number of requests
  answers, \* the requests answered
  told     \* the handlers told: "nobody", "complete" or "error"

promise == <<phase, size, answers, told>>

Init == phase = "uncommitted" /\ size = 0 /\ answers = {} /\ told = "nobody"

Add == phase = "uncommitted" /\ size' = size + 1 /\ UNCHANGED <<phase, answers, told>>

Commit == phase = "uncommitted" /\ size > 0 /\ phase' = "committed" /\ UNCHANGED <<size, answers, told>>

Answer(i) ==
  /\ phase = "committed" /\ i \notin answers
  /\ answers' = answers \cup {i}
  /\ phase' = IF answers' = 1 .. size THEN "completed" ELSE "committed"
  /\ UNCHANGED <<size, told>>

Complete == phase = "completed" /\ told = "nobody" /\ told' = "complete" /\ UNCHANGED <<phase, size, answers>>

Fail == phase = "committed" /\ phase' = "aborted" /\ told' = "error" /\ UNCHANGED <<size, answers>>

Next == Add \/ Commit \/ (\E i \in 1 .. size : Answer(i)) \/ Complete \/ Fail

Spec == Init /\ [][Next]_promise
=============================================================================
