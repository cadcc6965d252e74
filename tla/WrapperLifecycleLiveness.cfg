CONSTANTS
  Threads = {t1}
  Finalizer = gc
  Wrappers = {w1, w2}
  Addresses = {a1, a2}
  Constructed = {"Root", "Derived"}
  Null = Null
  Rules <- AllRules
SPECIFICATION FairSpec
CHECK_DEADLOCK FALSE
PROPERTY OwnedGarbageIsFreed
