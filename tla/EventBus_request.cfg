SPECIFICATION FairSpec
CONSTANTS
  h1 = h1
  h2 = h2
  ch = ch
  id1 = id1
  Name = {ch}
  Handler = {h1, h2}
  Client = {c1, c2}
  Id = {id1}
  NoId = NoId
  MaxObject = 2
  MaxMessage = 0
  Mode <- RequestMode
  On <- OneName
  Dest <- RequestDest
  Does <- RequestDoes
  NilError = {}
  Traffic = {}
INVARIANTS
  TypeOK
  FireWaitsForReplies
  OnceUnsubscribes

  
