CONSTANTS
  Threads = {t1}
  Finalizer = gc
  Delegates = {d1, d2}
  Handles = {h1}
  Bridges = {b1, b2}
  Closures = {c1, c2}
  Slots = {s1}
  Null = Null
  Empty = Empty
  Plain = Plain
  Rules <- AllRules
SPECIFICATION FairSpec
CHECK_DEADLOCK FALSE
PROPERTY LostAreCollected
