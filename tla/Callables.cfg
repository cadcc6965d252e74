CONSTANTS
  Threads = {t1, t2}
  Finalizer = gc
  Delegates = {d1, d2}
  Handles = {h1, h2}
  Bridges = {b1, b2, b3}
  Closures = {c1, c2}
  Slots = {s1}
  Null = Null
  Empty = Empty
  Plain = Plain
  Rules <- AllRules
SPECIFICATION Spec
SYMMETRY Symmetry
CHECK_DEADLOCK FALSE
INVARIANTS
  TypeOK
  CountsExact
  CalleeExists
PROPERTY ImplementsLifetime
