---------------------------- MODULE MCStoreSync ----------------------------
(* An instance of StoreSync for TLC. *)
EXTENDS StoreSync

CONSTANTS c1, c2

\* Two clients; one that sees two changes; one that comes back; a store that is replaced, for one
\* client and for two; a monitor listener that is added.
MCBounds ==
  {[client |-> {c1, c2}, calls |-> {"Put"}, store |-> 1, version |-> 2,
    request |-> 2, subscription |-> 1, listener |-> 0],
   [client |-> {c1}, calls |-> {"Put", "Populate", "PutGalactic"}, store |-> 1, version |-> 3,
    request |-> 2, subscription |-> 1, listener |-> 0],
   [client |-> {c1}, calls |-> {"Put"}, store |-> 1, version |-> 2,
    request |-> 2, subscription |-> 2, listener |-> 0],
   [client |-> {c1}, calls |-> {"Put"}, store |-> 2, version |-> 2,
    request |-> 2, subscription |-> 1, listener |-> 0],
   [client |-> {c1, c2}, calls |-> {}, store |-> 2, version |-> 1,
    request |-> 2, subscription |-> 1, listener |-> 0],
   [client |-> {c1}, calls |-> {}, store |-> 1, version |-> 1,
    request |-> 1, subscription |-> 2, listener |-> 1]}
=============================================================================
