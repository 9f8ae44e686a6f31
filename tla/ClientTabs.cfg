\* Two tabs, one of them with two calls at once, and three token pairs.
SPECIFICATION FairSpec
CONSTANTS
  x = x
  y = y
  c1 = c1
  c2 = c2
  c3 = c3
  Tabs = {x, y}
  Calls = {c1, c2, c3}
  TabOf <- Owner
  MaxTokens = 3
INVARIANTS
  TypeOK
  StoredIsUsable
  SignedOutStaysOut
PROPERTY
  EveryCallEnds
