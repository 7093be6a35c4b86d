SPECIFICATION FairSpec
CONSTANTS
  Channel = {c1, c2}
  Store = {s1}
  Volatile = {c1, s1}
  MaxRequest = 3
  MaxHandler = 1
INVARIANTS
  TypeOK
  ToldOnce
  SyncOrder
PROPERTIES
  KeepsPromise
  AnsweredEnds
