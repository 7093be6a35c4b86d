SPECIFICATION Spec
CONSTANTS
  h1 = h1
  h2 = h2
  ch = ch
  id1 = id1
  Name = {ch}
  Handler = {h1}
  Client = {c1, c2}
  Id = {id1}
  NoId = NoId
  MaxObject = 1
  MaxMessage = 1
  Mode <- OnceMode
  On <- OneName
  Dest <- NoDest
  Does <- Passive
  NilError = {}
  Traffic <- OnceTraffic
INVARIANTS
  OnceUnsubscribes
