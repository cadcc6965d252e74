CONSTANTS
  Threads = {t1}
  Finalizer = gc
  Wrappers = {w1, w2}
  Addresses = {a1}
  Constructed = {"Root", "Derived"}
  Null = Null
  Rules <- AllRules
SPECIFICATION Spec
CHECK_DEADLOCK FALSE
INVARIANT NativeDispatchUsesManagedOverride
