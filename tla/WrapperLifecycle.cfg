CONSTANTS
  Threads = {t1, t2}
  Finalizer = gc
  Wrappers = {w1, w2, w3}
  Addresses = {a1}
  Constructed = {"Root", "Derived"}
  Null = Null
  Rules <- AllRules
SPECIFICATION Spec
SYMMETRY Symmetry
CHECK_DEADLOCK FALSE
INVARIANTS
  TypeOK
  DispatchInv
  NoUseAfterFree
  OwnerRegistered
  OverrideDispatched
  RootDispatchNeverDefault
  OverrideOnUndisposed
PROPERTY DestroyIsSafe
