SPECIFICATION FairSpec
CONSTANTS
  ch1 = ch1
  c1 = c1
  c2 = c2
  Conn = {c1, c2}
  SubId = {"s"}
  Destination <- MCDestination
  NoDestination = NoDestination
  EventCap = 2
  OutCap = 1
  ApiCap = 1
  Channel = {ch1}
  NoChannel = NoChannel
  Protected = {}
  ChannelOf <- MCChannelOf
  Topic <- MCTopic
  Queue <- MCQueue
  Uses <- MCUses
INVARIANTS
  
  GoneLeavesNothing
  StoppedMeansClosed

  
CHECK_DEADLOCK FALSE
