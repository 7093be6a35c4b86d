SPECIFICATION FairSpec
CONSTANTS
  Channel = {c1, c2}
  Store = {}
  Volatile = {c2}
  MaxRequest = 2
  MaxHandler = 1
PROPERTIES
  ErrorAborts
