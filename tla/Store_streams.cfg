SPECIFICATION FairSpec
CONSTANTS
  i1 = i1
  i2 = i2
  v1 = v1
  s1 = s1
  s2 = s2
  m1 = m1
  w1 = w1
  w2 = w2
  Id = {i1, i2}
  Value = {v1}
  State = {"a", "b"}
  NoValue = NoValue
  StoreStream = {s1, s2}
  MutationStream = {m1}
  RequestType = {"t", "u"}
  Filter <- MCFilter
  Population <- MCPopulation
  Watcher = {w1, w2}
  Uses <- MCUses
  MaxEvent = 2
  MaxReset = 1
INVARIANTS
  
  NewestTells
  PanicNeedsRace
PROPERTIES
  WatchersRun
