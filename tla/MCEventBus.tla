---------------------------- MODULE MCEventBus ----------------------------
(* Instances of EventBus for TLC. *)
EXTENDS EventBus, TLC

CONSTANTS h1, h2, ch, id1

MCSymmetry == Permutations(Client)
OneName == [h \in Handler |-> ch]
NoDest == [h \in Handler |-> NoId]
Passive == [h \in Handler |-> "nothing"]

\* h1 asks, h2 is a service that replies.
RequestMode == [h \in Handler |-> IF h = h1 THEN RequestOnce ELSE ListenRequestStream]
RequestDest == [h \in Handler |-> IF h = h1 THEN id1 ELSE NoId]
RequestDoes == [h \in Handler |-> IF h = h2 THEN "reply" ELSE "nothing"]

\* h1 listens once, h2 is a stream that closes itself at its first message.
StreamMode == [h \in Handler |-> IF h = h1 THEN ListenOnceForDestination ELSE ListenStream]
StreamDest == [h \in Handler |-> IF h = h1 THEN id1 ELSE NoId]
StreamDoes == [h \in Handler |-> IF h = h2 THEN "close" ELSE "nothing"]
StreamTraffic ==
  {[on |-> ch, dir |-> "response", dest |-> id1], [on |-> ch, dir |-> "error", dest |-> NoId]}

\* A once listener.
OnceMode == [h \in Handler |-> ListenOnce]
OnceTraffic == {[on |-> ch, dir |-> "response", dest |-> NoId]}
=============================================================================
