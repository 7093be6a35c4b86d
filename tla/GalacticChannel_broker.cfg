SPECIFICATION FairSpec
CONSTANTS
  Channel = {a, b}
  Destination = {d1, d2}
  MaxSub = 2
  MaxFrame = 1
  MaxEntry = 2

  
  
PROPERTIES
  ClientGoesOn
