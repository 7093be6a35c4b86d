------------------------- MODULE MCFabricEndpoint -------------------------
(* An instance of FabricEndpoint for TLC: the topic and the queue of one channel, and *)
(* a destination that is not one of a channel. *)
EXTENDS FabricEndpoint

CONSTANTS ch1, c1, c2

MCDestination == {"topic", "queue", "other"}
MCChannelOf == [d \in Destination |-> IF d = "other" THEN NoChannel ELSE ch1]
MCTopic == [ch \in Channel |-> "topic"]
MCQueue == [ch \in Channel |-> "queue"]
\* Subscriptions that come and go; messages and Stop; requests on topic and queue;
\* subscriptions to a destination that is not joined.
MCUses ==
  {[conns |-> {c1, c2}, destinations |-> {"topic", "queue"}, calls |-> {"unsubscribe", "channels"}, messages |-> 0],
   [conns |-> {c1, c2}, destinations |-> {"topic"}, calls |-> {"stop"}, messages |-> 2],
   [conns |-> {c1}, destinations |-> {"topic", "queue"}, calls |-> {"send", "unsubscribe", "channels"}, messages |-> 2],
   [conns |-> {c1, c2}, destinations |-> {"topic", "other"}, calls |-> {"unsubscribe"}, messages |-> 0]}
=============================================================================
