SPECIFICATION Spec
CONSTANTS
  h1 = h1
  h2 = h2
  ch = ch
  id1 = id1
  Name = {ch}
  Handler = {h1, h2}
  Client = {c1, c2}
  Id = {id1}
  NoId = NoId
  MaxObject = 1
  MaxMessage = 2
  Mode <- StreamMode
  On <- OneName
  Dest <- StreamDest
  Does <- StreamDoes
  NilError = {h2}
  Traffic <- StreamTraffic
SYMMETRY MCSymmetry
INVARIANTS
  OnceInvokedOnce
  ClosedIsSilent
