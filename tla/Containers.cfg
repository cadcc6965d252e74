SPECIFICATION Spec
CONSTANTS
  Groups <- MCGroups
  Handles = {h1, h2}
  Wrappers = {w1, w2}
  Items = {1, 2}
  MaxItems = 2
  Rules = {"DistinctTypes", "SameItems", "NoNull", "Outlive", "Unchanged"}
  Null = Null
INVARIANTS DispatchMatches OwnedOnce EnumerationExact
SYMMETRY Symmetry
