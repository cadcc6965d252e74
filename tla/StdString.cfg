CONSTANTS
  Wrappers = {w1, w2}
  Objects = {o1, o2, s1}
  Static = {s1}
  Texts <- MCTexts
  Clean <- MCClean
  ToNative <- MCToNative
  ToManaged <- MCToManaged
  Null = Null
  Rules <- AllRules
SPECIFICATION Spec
CHECK_DEADLOCK FALSE
INVARIANTS
  TypeOK
  CacheCoherent
  IndexerAgrees
  SlicesAgree
