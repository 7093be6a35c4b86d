SPECIFICATION FairSpec
CONSTANTS
  a = a
  b = b
  k1 = k1
  k2 = k2
  k3 = k3
  r1 = r1
  r2 = r2
  r3 = r3
  ServiceChannel = {a, b}
  Key = {k1, k2, k3}
  PathPrefix = {k3}
  KeyChannel <- MCKeyChannel
  Request = {r1, r2, r3}
  PayloadCap = 1
  MaxMiddleware = 1
  MaxRest = 2
  Uses <- MCUses
CHECK_DEADLOCK FALSE
INVARIANTS
  
  RoutesFollow
  ReadyIsTrue
  
PROPERTIES
  ShutdownEnds
  
