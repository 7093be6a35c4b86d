SPECIFICATION FairSpec
CONSTANTS
  c1 = c1
  c2 = c2
  Client = {c1, c2}
  Bounds <- MCBounds
  Id = {i1}
  Value = {v1}
  NoValue = NoValue
INVARIANTS
  
  NothingLeft
PROPERTIES
  
  LoopGoesOn
