--------------------------- MODULE StdStringProofs ---------------------------
(***************************************************************************)
(* The cache of Std.String is coherent, for any number of strings and      *)
(* wrappers and any texts and conversions that meet the assumptions, in a  *)
(* program that keeps the five rules.                                      *)
(***************************************************************************)
EXTENDS StdStringText, SequenceTheorems, WellFoundedInduction, TLAPS

KeepsRules == Rules = {"WellFormed", "Exclusive", "NoOwnAppend", "QuietCalls", "Outlive"}

\* The conversions of clean texts, as the steps use them.
LEMMA Conversions ==
  /\ ToNative(<<>>) = <<>> /\ <<>> \in Clean /\ Clean \subseteq Texts
  /\ \A t \in Texts : ToNative(t) \in Seq(Int) /\ ToNative(t) # Null /\ t # Null
  /\ \A t \in Clean : ToManaged(ToNative(t)) = t
  /\ \A t, u \in Clean :
       /\ ToNative(t) \o ToNative(u) \in Seq(Int)
       /\ ToNative(t) \o ToNative(u) # Null
       /\ ToNative(t \o u) = ToNative(t) \o ToNative(u)
       /\ ToManaged(ToNative(t) \o ToNative(u)) = t \o u
       /\ t \o u \in Texts => t \o u \in Clean
<1>1. \A t \in Clean : t \in Texts BY CleanAssumption
<1>2. \A t \in Texts : ToNative(t) \in Seq(Int) /\ ToNative(t) # Null /\ t # Null
  BY ConversionAssumption, NullAssumption, CleanAssumption
<1>3. ASSUME NEW t \in Clean, NEW u \in Clean
      PROVE  ToNative(t) \o ToNative(u) \in Seq(Int) /\ ToNative(t) \o ToNative(u) # Null
  <2>1. ToNative(t) \in Seq(Int) /\ ToNative(u) \in Seq(Int) BY <1>1, <1>2
  <2>2. ToNative(t) \o ToNative(u) \in Seq(Int) BY <2>1
  <2> QED BY <2>2, NullAssumption
<1> QED BY <1>2, <1>3, ConversionAssumption, CleanAssumption

\* A live wrapper shows the text that its string holds, and the string holds a
\* clean text, unless a native call works on it.
LEMMA LiveText ==
  ASSUME IInv, NEW w \in Wrappers, Live(w)
  PROVE  /\ wrapper[w].object \in Objects
         /\ \E t \in Clean : Text(w) = ToNative(t)
         /\ \A t \in Clean : Text(w) = ToNative(t) /\ w \notin lent =>
              Shown(w, Text(w)) = t /\ (wrapper[w].cache # Null => wrapper[w].cache = t)
<1>1. wrapper[w].object \in Objects BY DEF IInv, TypeOK, Wrapper, Live
<1>2. \E t \in Clean : Text(w) = ToNative(t)
  BY <1>1 DEF IInv, TextsClean, OneOwner, Text
<1>3. ASSUME NEW t \in Clean, Text(w) = ToNative(t), w \notin lent
      PROVE  Shown(w, Text(w)) = t /\ (wrapper[w].cache # Null => wrapper[w].cache = t)
  <2>1. ToManaged(Text(w)) = t BY <1>3, Conversions
  <2>2. wrapper[w].cache # Null => wrapper[w].cache = t
    BY <1>3, <2>1 DEF IInv, CacheCoherent
  <2> QED BY <2>1, <2>2 DEF Shown
<1> QED BY <1>1, <1>2, <1>3

\* Init establishes the invariant.
LEMMA InitIInv == ASSUME Init PROVE IInv
<1>1. content \in [Objects -> Seq(Int) \cup {Null}]
  <2>1. <<>> \in Seq(Int) OBVIOUS
  <2> QED BY <2>1 DEF Init
<1>2. TypeOK BY <1>1 DEF Init, TypeOK, NoWrapper, Wrapper
<1>3. \A o \in Objects : content[o] # Null => content[o] = ToNative(<<>>)
  BY Conversions DEF Init
<1>4. \A w \in Wrappers : wrapper[w].object = Null /\ wrapper[w].cache = Null
  <2>1. NoWrapper.object = Null /\ NoWrapper.cache = Null BY DEF NoWrapper
  <2>2. \A w \in Wrappers : wrapper[w] = NoWrapper BY DEF Init
  <2> QED BY <2>1, <2>2
<1>5. TextsClean BY <1>3, <1>4, Conversions DEF TextsClean
<1> QED BY <1>2, <1>4, <1>5 DEF Init, IInv, LentLive, OneOwner, OwnedCached, CacheCoherent, Live

-----------------------------------------------------------------------------
(***************************************************************************)
(* One lemma per action.                                                   *)
(***************************************************************************)
\* A new string, empty or of a text that was converted.
LEMMA NewStep ==
  ASSUME IInv, KeepsRules, NEW w \in Wrappers, NEW o \in Objects \ Static, NEW t \in Clean,
         ~Live(w), content[o] = Null,
         content' = [content EXCEPT ![o] = ToNative(t)],
         NEW c \in {t, Null},
         wrapper' = [wrapper EXCEPT ![w] = [object |-> o, owned |-> TRUE, cache |-> c]],
         lent' = lent
  PROVE  IInv'
<1> USE DEF IInv
<1>1. /\ t \in Texts /\ ToNative(t) \in Seq(Int) /\ ToNative(t) # Null
      /\ ToManaged(ToNative(t)) = t
  BY Conversions
<1>2. o # Null BY NullAssumption
<1>3. \A v \in Wrappers : Live(v) => wrapper[v].object # o BY DEF OneOwner
<1>4. \A v \in Wrappers \ {w} : wrapper'[v] = wrapper[v]
  BY DEF TypeOK
<1>5. wrapper'[w] = [object |-> o, owned |-> TRUE, cache |-> c] BY DEF TypeOK
<1>6. \A p \in Objects \ {o} : content'[p] = content[p] BY DEF TypeOK
<1>7. content'[o] = ToNative(t) BY DEF TypeOK
<1>8. \A v \in Wrappers : wrapper[v].object \in Objects \cup {Null} BY DEF TypeOK, Wrapper
<1>a. TypeOK'
  <2>1. content' \in [Objects -> Seq(Int) \cup {Null}] BY <1>1 DEF TypeOK
  <2>2. wrapper' \in [Wrappers -> Wrapper] BY <1>1 DEF TypeOK, Wrapper
  <2> QED BY <2>1, <2>2 DEF TypeOK
<1>f. LentLive' BY <1>2, <1>4, <1>5 DEF LentLive, Live
<1>b. TextsClean' BY <1>4, <1>5, <1>6, <1>7 DEF TextsClean
<1>c. OneOwner' BY <1>1, <1>2, <1>3, <1>4, <1>5, <1>6, <1>7, <1>8 DEF OneOwner, Live
<1>d. OwnedCached' BY <1>2, <1>4, <1>5 DEF OwnedCached, Live
<1>e. CacheCoherent'
  <2> SUFFICES ASSUME NEW v \in Wrappers, Live(v)', v \notin lent', wrapper'[v].cache # Null
               PROVE  wrapper'[v].cache = ToManaged(content'[wrapper'[v].object])
    BY DEF CacheCoherent, Text
  <2>1. CASE v = w BY <2>1, <1>1, <1>5, <1>7
  <2>2. CASE v # w
    BY <2>2, <1>3, <1>4, <1>6, <1>8 DEF CacheCoherent, Text, Live
  <2> QED BY <2>1, <2>2
<1> QED BY <1>a, <1>b, <1>c, <1>d, <1>e, <1>f

\* What a step that makes and destroys nothing has to keep: clean texts, caches for
\* owned strings only, and coherence.
LEMMA ChangeStep ==
  ASSUME IInv,
         content' \in [Objects -> Seq(Int) \cup {Null}],
         \A o \in Objects : \/ content'[o] = content[o]
                            \/ /\ content[o] # Null /\ content'[o] # Null
                               /\ \E t \in Clean : content'[o] = ToNative(t),
         wrapper' \in [Wrappers -> Wrapper],
         \A v \in Wrappers : /\ wrapper'[v].object = wrapper[v].object
                             /\ wrapper'[v].owned = wrapper[v].owned
                             /\ wrapper'[v].cache \in Clean \cup {Null}
                             /\ wrapper'[v].cache # Null => Live(v) /\ wrapper[v].owned,
         lent' \subseteq {v \in Wrappers : Live(v)},
         CacheCoherent'
  PROVE  IInv'
<1> USE DEF IInv
<1>1. \A v \in Wrappers : Live(v) => wrapper[v].object \in Objects
  BY DEF TypeOK, Wrapper, Live
<1>2. TypeOK' /\ LentLive' BY DEF TypeOK, LentLive, Live
<1>3. TextsClean' BY DEF TextsClean
<1>4. OneOwner' BY <1>1 DEF OneOwner, Live
<1>5. OwnedCached' BY DEF OwnedCached, Live
<1> QED BY <1>2, <1>3, <1>4, <1>5

\* The cache of one wrapper changes, if it may have one.
LEMMA CachedFacts ==
  ASSUME TypeOK, NEW w \in Wrappers, NEW c \in Texts \cup {Null}
  PROVE  /\ Cached(w, c) \in [Wrappers -> Wrapper]
         /\ \A v \in Wrappers : /\ Cached(w, c)[v].object = wrapper[v].object
                                /\ Cached(w, c)[v].owned = wrapper[v].owned
                                /\ v # w => Cached(w, c)[v] = wrapper[v]
         /\ Cached(w, c)[w].cache = IF wrapper[w].owned THEN c ELSE Null
BY DEF TypeOK, Wrapper, Cached

\* A native text replaces or extends the text of w; its cache follows unless a
\* native call works on the string.
LEMMA WriteStep ==
  ASSUME IInv, NEW w \in Wrappers, Live(w), NEW t \in Clean, NEW c \in Clean \cup {Null},
         w \notin lent /\ c # Null => c = t,
         content' = [content EXCEPT ![wrapper[w].object] = ToNative(t)],
         wrapper' = Cached(w, c), lent' = lent
  PROVE  IInv'
<1> USE DEF IInv
<1> DEFINE o == wrapper[w].object
<1>1. o \in Objects /\ o # Null /\ content[o] # Null BY LiveText DEF OneOwner, Live
<1>2. /\ t \in Texts /\ ToNative(t) \in Seq(Int) /\ ToNative(t) # Null
      /\ ToManaged(ToNative(t)) = t
  BY Conversions
<1>3. content'[o] = ToNative(t) /\ \A p \in Objects \ {o} : content'[p] = content[p]
  BY <1>1 DEF TypeOK
<1>4. content' \in [Objects -> Seq(Int) \cup {Null}] BY <1>2 DEF TypeOK
<1>5. c \in Texts \cup {Null} BY Conversions
<1>6. /\ wrapper' \in [Wrappers -> Wrapper]
      /\ \A v \in Wrappers : /\ wrapper'[v].object = wrapper[v].object
                             /\ wrapper'[v].owned = wrapper[v].owned
                             /\ v # w => wrapper'[v] = wrapper[v]
      /\ wrapper'[w].cache = IF wrapper[w].owned THEN c ELSE Null
  BY <1>5, CachedFacts
<1>7. \A v \in Wrappers : /\ wrapper'[v].cache \in Clean \cup {Null}
                          /\ wrapper'[v].cache # Null => Live(v) /\ wrapper[v].owned
  BY <1>6 DEF TextsClean, OwnedCached
<1>8. CacheCoherent'
  <2> SUFFICES ASSUME NEW v \in Wrappers, Live(v)', v \notin lent', wrapper'[v].cache # Null
               PROVE  wrapper'[v].cache = ToManaged(content'[wrapper'[v].object])
    BY DEF CacheCoherent, Text
  <2>1. CASE v = w BY <2>1, <1>2, <1>3, <1>6
  <2>2. CASE v # w
    <3>1. Live(v) /\ wrapper[v].owned /\ wrapper[v].object # o
      BY <2>2, <1>6 DEF OneOwner, OwnedCached, Live
    <3>2. wrapper[v].object \in Objects BY <3>1, LiveText
    <3> QED BY <2>2, <3>1, <3>2, <1>3, <1>6 DEF CacheCoherent, Text
  <2> QED BY <2>1, <2>2
<1>9. lent' \subseteq {v \in Wrappers : Live(v)} BY DEF TypeOK, LentLive
<1>10. \A p \in Objects : \/ content'[p] = content[p]
                          \/ /\ content[p] # Null /\ content'[p] # Null
                             /\ \E u \in Clean : content'[p] = ToNative(u)
  BY <1>1, <1>2, <1>3
<1>11. \A v \in Wrappers : /\ wrapper'[v].object = wrapper[v].object
                           /\ wrapper'[v].owned = wrapper[v].owned
                           /\ wrapper'[v].cache \in Clean \cup {Null}
                           /\ wrapper'[v].cache # Null => Live(v) /\ wrapper[v].owned
  BY <1>6, <1>7
<1>12. wrapper' \in [Wrappers -> Wrapper] BY <1>6
<1> HIDE DEF o, IInv
<1> QED BY <1>4, <1>8, <1>9, <1>10, <1>11, <1>12, ChangeStep

\* ToString fills the cache with what the string holds.
LEMMA SnapshotStep ==
  ASSUME IInv, NEW w \in Wrappers, SnapshotManaged(w)
  PROVE  IInv'
<1> USE DEF IInv
<1>1. Live(w) /\ wrapper' = Cached(w, Shown(w, Text(w))) /\ content' = content /\ lent' = lent
  BY DEF SnapshotManaged
<1>2. PICK t \in Clean : Text(w) = ToNative(t) BY <1>1, LiveText
<1>3. wrapper[w].object \in Objects BY <1>1, LiveText
<1>4. ToManaged(Text(w)) = t BY <1>2, Conversions
<1>5. Shown(w, Text(w)) \in Clean
  BY <1>2, <1>4 DEF Shown, TextsClean
<1>6. wrapper[w].owned /\ wrapper[w].cache # Null => Shown(w, Text(w)) = wrapper[w].cache
  BY DEF Shown
<1>7. w \notin lent => Shown(w, Text(w)) = t BY <1>1, <1>2, LiveText
<1>8. /\ wrapper' \in [Wrappers -> Wrapper]
      /\ \A v \in Wrappers : /\ wrapper'[v].object = wrapper[v].object
                             /\ wrapper'[v].owned = wrapper[v].owned
                             /\ v # w => wrapper'[v] = wrapper[v]
      /\ wrapper'[w].cache = IF wrapper[w].owned THEN Shown(w, Text(w)) ELSE Null
  <2>1. Shown(w, Text(w)) \in Texts \cup {Null} BY <1>5, Conversions
  <2>2. TypeOK OBVIOUS
  <2> HIDE DEF IInv
  <2> QED BY <1>1, <2>1, <2>2, CachedFacts
<1>9. \A v \in Wrappers : /\ wrapper'[v].cache \in Clean \cup {Null}
                          /\ wrapper'[v].cache # Null => Live(v) /\ wrapper[v].owned
  BY <1>1, <1>5, <1>8 DEF TextsClean, OwnedCached
<1>10. CacheCoherent'
  <2> SUFFICES ASSUME NEW v \in Wrappers, Live(v)', v \notin lent', wrapper'[v].cache # Null
               PROVE  wrapper'[v].cache = ToManaged(content[wrapper[v].object])
    BY <1>1, <1>8 DEF CacheCoherent, Text
  <2>1. CASE v = w BY <2>1, <1>1, <1>4, <1>7, <1>8 DEF Text
  <2>2. CASE v # w
    <3>1. wrapper'[v] = wrapper[v] /\ Live(v) BY <2>2, <1>8 DEF Live
    <3> QED BY <3>1, <1>1 DEF CacheCoherent, Text
  <2> QED BY <2>1, <2>2
<1>11. content' \in [Objects -> Seq(Int) \cup {Null}] /\ lent' \subseteq {v \in Wrappers : Live(v)}
  BY <1>1 DEF TypeOK, LentLive
<1> HIDE DEF IInv
<1> QED BY <1>1, <1>8, <1>9, <1>10, <1>11, ChangeStep

\* A wrapper is lent, or comes back with its cache invalid.
LEMMA LendStep == ASSUME IInv, NEW w \in Wrappers, Lend(w) PROVE IInv'
<1> USE DEF IInv
<1>1. TypeOK' /\ LentLive' BY DEF Lend, TypeOK, LentLive, Live
<1>2. CacheCoherent' BY DEF Lend, CacheCoherent, Live, Text
<1> QED BY <1>1, <1>2 DEF Lend, TextsClean, OneOwner, OwnedCached, Live

LEMMA OnInvokedStep == ASSUME IInv, NEW w \in Wrappers, OnInvoked(w) PROVE IInv'
<1> USE DEF IInv
<1>1. /\ content' = content /\ lent' = lent \ {w}
      /\ wrapper' = [wrapper EXCEPT ![w].cache = Null]
  BY DEF OnInvoked, LentLive
<1>2. \A v \in Wrappers : /\ wrapper'[v].object = wrapper[v].object
                          /\ wrapper'[v].owned = wrapper[v].owned
                          /\ v # w => wrapper'[v] = wrapper[v]
  BY <1>1 DEF TypeOK, Wrapper
<1>3. wrapper'[w].cache = Null /\ wrapper' \in [Wrappers -> Wrapper]
  BY <1>1 DEF TypeOK, Wrapper
<1>4. \A v \in Wrappers : /\ wrapper'[v].cache \in Clean \cup {Null}
                          /\ wrapper'[v].cache # Null => Live(v) /\ wrapper[v].owned
  BY <1>2, <1>3 DEF TextsClean, OwnedCached
<1>5. CacheCoherent'
  BY <1>1, <1>2, <1>3 DEF CacheCoherent, Live, Text
<1>6. content' \in [Objects -> Seq(Int) \cup {Null}] /\ lent' \subseteq {v \in Wrappers : Live(v)}
  BY <1>1 DEF TypeOK, LentLive
<1> HIDE DEF IInv
<1> QED BY <1>1, <1>2, <1>3, <1>4, <1>5, <1>6, ChangeStep

\* A native call changes a string of its own or one that is lent.
LEMMA NativeStep ==
  ASSUME IInv, KeepsRules, NEW o \in Objects, NEW t \in Clean, NativeWrite(o, t)
  PROVE  IInv'
<1> USE DEF IInv
<1>1. /\ content[o] # Null /\ content' = [content EXCEPT ![o] = ToNative(t)]
      /\ wrapper' = wrapper /\ lent' = lent
      /\ o \in Static \cup {wrapper[w].object : w \in lent}
  BY DEF NativeWrite, KeepsRules
<1>2. ToNative(t) \in Seq(Int) /\ ToNative(t) # Null BY Conversions
<1>3. /\ content' \in [Objects -> Seq(Int) \cup {Null}]
      /\ content'[o] = ToNative(t) /\ \A p \in Objects \ {o} : content'[p] = content[p]
  BY <1>1, <1>2 DEF TypeOK
<1>4. CacheCoherent'
  <2> SUFFICES ASSUME NEW v \in Wrappers, Live(v), v \notin lent, wrapper[v].cache # Null
               PROVE  wrapper[v].cache = ToManaged(content'[wrapper[v].object])
    BY <1>1 DEF CacheCoherent, Text, Live
  <2>1. wrapper[v].owned BY DEF OwnedCached
  <2>2. wrapper[v].object \in Objects \ Static BY <2>1, LiveText DEF OneOwner
  <2>3. wrapper[v].object # o
    <3>1. \A w \in lent : w \in Wrappers /\ w # v BY DEF TypeOK
    <3> QED BY <1>1, <2>1, <2>2, <3>1 DEF OneOwner
  <2> QED BY <1>3, <2>2, <2>3 DEF CacheCoherent, Text
<1>5. \A p \in Objects : \/ content'[p] = content[p]
                         \/ /\ content[p] # Null /\ content'[p] # Null
                            /\ \E u \in Clean : content'[p] = ToNative(u)
  BY <1>1, <1>2, <1>3
<1>6. \A v \in Wrappers : /\ wrapper'[v].object = wrapper[v].object
                          /\ wrapper'[v].owned = wrapper[v].owned
                          /\ wrapper'[v].cache \in Clean \cup {Null}
                          /\ wrapper'[v].cache # Null => Live(v) /\ wrapper[v].owned
  BY <1>1 DEF TextsClean, OwnedCached
<1>7. wrapper' \in [Wrappers -> Wrapper] /\ lent' \subseteq {v \in Wrappers : Live(v)}
  BY <1>1 DEF TypeOK, LentLive
<1> HIDE DEF IInv
<1> QED BY <1>3, <1>4, <1>5, <1>6, <1>7, ChangeStep

\* Set, Clear and Append(string).
LEMMA SetStep == ASSUME IInv, NEW w \in Wrappers, NEW t \in Clean, Set(w, t) PROVE IInv'
<1>1. /\ Live(w) /\ wrapper' = Cached(w, t) /\ lent' = lent
      /\ content' = [content EXCEPT ![wrapper[w].object] = ToNative(t)]
  BY DEF Set
<1> QED BY <1>1, WriteStep

LEMMA AppendTextStep ==
  ASSUME IInv, NEW w \in Wrappers, NEW t \in Clean, Append_Text(w, t)
  PROVE  IInv'
<1> DEFINE bytes == Text(w) \o ToNative(t)
           old == wrapper[w].cache
           c == IF old # Null THEN old \o t ELSE ToManaged(bytes)
<1>1. /\ Live(w) /\ lent' = lent /\ wrapper' = Cached(w, c) /\ ToManaged(bytes) \in Texts
      /\ content' = [content EXCEPT ![wrapper[w].object] = bytes]
      /\ Cached(w, c)[w].cache \in Texts \cup {Null}
  BY DEF Append_Text, AfterAppend
<1>2. PICK x \in Clean : Text(w) = ToNative(x) BY <1>1, LiveText
<1>3. bytes = ToNative(x \o t) /\ ToManaged(bytes) = x \o t
  <2>1. bytes = ToNative(x) \o ToNative(t) BY <1>2
  <2> HIDE DEF bytes
  <2> QED BY <2>1, Conversions
<1>4. x \o t \in Clean BY <1>1, <1>3, Conversions
<1>5. w \notin lent /\ old # Null => old = x BY <1>1, <1>2, LiveText
<1>6. old \in Clean \cup {Null} /\ (old # Null => wrapper[w].owned)
  BY DEF IInv, TextsClean, OwnedCached
<1>7. old # Null => old \o t \in Clean
  <2> SUFFICES ASSUME old # Null PROVE old \o t \in Clean OBVIOUS
  <2>1. Cached(w, c)[w].cache = c BY <1>6 DEF IInv, TypeOK, Wrapper, Cached
  <2>2. old \o t \in Texts \cup {Null} BY <1>1, <2>1
  <2>3. old \o t # Null
    <3>1. old \in Seq(Int) /\ t \in Seq(Int) BY <1>6, CleanAssumption
    <3>2. old \o t \in Seq(Int) BY <3>1
    <3> QED BY <3>2, NullAssumption
  <2> QED BY <1>6, <2>2, <2>3, Conversions
<1>8. c \in Clean BY <1>3, <1>4, <1>7
<1>9. w \notin lent => c = x \o t BY <1>3, <1>5
<1> HIDE DEF bytes, old, c
<1> QED BY <1>1, <1>3, <1>4, <1>8, <1>9, WriteStep

\* Dispose: nothing else refers to the string of an owner, and no native call works on it.
LEMMA DisposeStep == ASSUME IInv, KeepsRules, NEW w \in Wrappers, Dispose(w) PROVE IInv'
<1> USE DEF IInv
<1> DEFINE o == wrapper[w].object
<1>1. /\ Live(w) /\ \A l \in lent : wrapper[l].object # o
      /\ wrapper[w].owned => \A v \in Wrappers \ {w} : wrapper[v].object # o
      /\ content' = IF wrapper[w].owned THEN [content EXCEPT ![o] = Null] ELSE content
      /\ wrapper' = [wrapper EXCEPT ![w] = NoWrapper] /\ lent' = lent
  BY DEF Dispose, Unused, KeepsRules
<1>2. o \in Objects BY <1>1, LiveText
<1>3. /\ wrapper'[w].object = Null /\ wrapper'[w].cache = Null
      /\ \A v \in Wrappers \ {w} : wrapper'[v] = wrapper[v]
  BY <1>1 DEF TypeOK, NoWrapper
<1>4. \A p \in Objects : \/ p = o /\ wrapper[w].owned /\ content'[p] = Null
                         \/ content'[p] = content[p]
  BY <1>1, <1>2 DEF TypeOK
<1>5. w \notin lent BY <1>1
<1>6. TypeOK'
  <2>1. content' \in [Objects -> Seq(Int) \cup {Null}] BY <1>1 DEF TypeOK
  <2>2. wrapper' \in [Wrappers -> Wrapper] BY <1>1 DEF TypeOK, Wrapper, NoWrapper
  <2> QED BY <1>1, <2>1, <2>2 DEF TypeOK
<1>12. LentLive' BY <1>1, <1>3, <1>5 DEF TypeOK, LentLive, Live
<1>7. TextsClean' BY <1>3, <1>4 DEF TextsClean
<1>8. \A v \in Wrappers : Live(v)' =>
        /\ v # w /\ Live(v) /\ wrapper'[v] = wrapper[v] /\ wrapper[v].object \in Objects
        /\ content'[wrapper[v].object] = content[wrapper[v].object]
  <2> SUFFICES ASSUME NEW v \in Wrappers, Live(v)'
               PROVE  /\ v # w /\ Live(v) /\ wrapper'[v] = wrapper[v]
                      /\ wrapper[v].object \in Objects
                      /\ content'[wrapper[v].object] = content[wrapper[v].object]
    OBVIOUS
  <2>1. v # w /\ wrapper'[v] = wrapper[v] /\ Live(v) BY <1>3 DEF Live
  <2>2. wrapper[v].object \in Objects BY <2>1, LiveText
  <2> QED BY <2>1, <2>2, <1>1, <1>4
<1>9. OneOwner' BY <1>3, <1>8 DEF OneOwner, Live
<1>10. OwnedCached' BY <1>3 DEF OwnedCached, Live
<1>11. CacheCoherent' BY <1>1, <1>8 DEF CacheCoherent, Text
<1> QED BY <1>6, <1>7, <1>9, <1>10, <1>11, <1>12

\* A borrowed wrapper of a string that native code owns.
LEMMA BorrowStep ==
  ASSUME IInv, KeepsRules, NEW w \in Wrappers, NEW o \in Objects, FromBorrowedHandle(w, o)
  PROVE  IInv'
<1> USE DEF IInv
<1>1. /\ ~Live(w) /\ content[o] # Null /\ o \in Static /\ content' = content /\ lent' = lent
      /\ wrapper' = [wrapper EXCEPT ![w] = [object |-> o, owned |-> FALSE, cache |-> Null]]
  BY DEF FromBorrowedHandle, KeepsRules
<1>2. /\ wrapper'[w] = [object |-> o, owned |-> FALSE, cache |-> Null]
      /\ \A v \in Wrappers \ {w} : wrapper'[v] = wrapper[v]
  BY <1>1 DEF TypeOK
<1>3. TypeOK'
  <2>1. wrapper' \in [Wrappers -> Wrapper] BY <1>1 DEF TypeOK, Wrapper
  <2> QED BY <1>1, <2>1 DEF TypeOK
<1>8. LentLive' BY <1>1, <1>2 DEF TypeOK, LentLive, Live
<1>4. TextsClean' BY <1>1, <1>2 DEF TextsClean
<1>5. OneOwner'
  <2>1. \A v \in Wrappers : Live(v) /\ wrapper[v].owned => wrapper[v].object # o
    BY <1>1 DEF OneOwner
  <2> QED BY <1>1, <1>2, <2>1 DEF OneOwner, Live
<1>6. OwnedCached' BY <1>2 DEF OwnedCached, Live
<1>7. CacheCoherent' BY <1>1, <1>2 DEF CacheCoherent, Text, Live
<1> QED BY <1>3, <1>4, <1>5, <1>6, <1>7, <1>8

\* Append(String), of another string that no native call works on.
LEMMA AppendStringStep ==
  ASSUME IInv, KeepsRules, NEW w \in Wrappers, NEW value \in Wrappers, Append_String(w, value)
  PROVE  IInv'
<1> DEFINE o == wrapper[w].object
           bytes == Text(w) \o Text(value)
           shown == Shown(value, Text(value))
           filled == Cached(value, shown)
           old == filled[w].cache
           c == IF ~wrapper[w].owned THEN Null
                ELSE IF old # Null THEN old \o shown ELSE ToManaged(bytes)
<1>1. /\ Live(w) /\ Live(value) /\ wrapper[value].object # o /\ value \notin lent
      /\ ToManaged(bytes) \in Texts
      /\ old # Null => old \o shown \in Texts
      /\ content' = [content EXCEPT ![o] = bytes]
      /\ wrapper' = [filled EXCEPT ![w].cache = c] /\ lent' = lent
  BY DEF Append_String, KeepsRules
<1>2. PICK x \in Clean : Text(w) = ToNative(x) BY <1>1, LiveText
<1>3. PICK u \in Clean : Text(value) = ToNative(u) BY <1>1, LiveText
<1>4. shown = u BY <1>1, <1>3, LiveText
<1>5. bytes = ToNative(x \o u) /\ ToManaged(bytes) = x \o u
  <2>1. bytes = ToNative(x) \o ToNative(u) BY <1>2, <1>3
  <2> HIDE DEF bytes
  <2> QED BY <2>1, Conversions
<1>6. x \o u \in Clean
  <2>1. x \o u \in Texts BY <1>1, <1>5
  <2> QED BY <2>1, Conversions
<1>7. bytes \in Seq(Int) /\ bytes # Null
  <2>1. x \o u \in Texts BY <1>6, Conversions
  <2> QED BY <1>5, <2>1, Conversions
<1>8. /\ filled \in [Wrappers -> Wrapper]
      /\ \A v \in Wrappers : /\ filled[v].object = wrapper[v].object
                             /\ filled[v].owned = wrapper[v].owned
                             /\ v # value => filled[v] = wrapper[v]
      /\ filled[value].cache = IF wrapper[value].owned THEN u ELSE Null
  <2>1. shown \in Texts \cup {Null} BY <1>4, Conversions
  <2>2. TypeOK BY DEF IInv
  <2> HIDE DEF shown
  <2> QED BY <1>4, <2>1, <2>2, CachedFacts
<1>9. w # value /\ old = wrapper[w].cache BY <1>1, <1>8
<1>10. old \in Clean \cup {Null} /\ (w \notin lent /\ old # Null => old = x)
  <2> HIDE DEF old
  <2> QED BY <1>1, <1>2, <1>9, LiveText DEF IInv, TextsClean
<1>11. c \in Clean \cup {Null} /\ (w \notin lent /\ c # Null => c = x \o u)
       /\ (c # Null => wrapper[w].owned)
  <2>1. old # Null => old \o u \in Texts BY <1>1, <1>4
  <2>2. old # Null => old \o shown \in Clean
    <3> HIDE DEF old, shown
    <3> QED BY <2>1, <1>4, <1>10, Conversions
  <2> HIDE DEF old, shown, bytes
  <2> QED BY <1>4, <1>5, <1>6, <1>10, <2>2
<1> HIDE DEF bytes, shown, filled, old, c
<1>12. /\ wrapper' \in [Wrappers -> Wrapper]
       /\ \A v \in Wrappers : /\ wrapper'[v].object = wrapper[v].object
                              /\ wrapper'[v].owned = wrapper[v].owned
                              /\ v \notin {w, value} => wrapper'[v] = wrapper[v]
       /\ wrapper'[w].cache = c
       /\ wrapper'[value].cache = IF wrapper[value].owned THEN u ELSE Null
  <2>1. c \in Texts \cup {Null} BY <1>11, Conversions
  <2>2. wrapper' \in [Wrappers -> Wrapper] BY <1>1, <1>8, <2>1 DEF Wrapper
  <2>3. /\ wrapper'[w].object = filled[w].object /\ wrapper'[w].owned = filled[w].owned
        /\ wrapper'[w].cache = c
        /\ \A v \in Wrappers \ {w} : wrapper'[v] = filled[v]
    BY <1>1, <1>8 DEF Wrapper
  <2> QED BY <1>8, <1>9, <2>2, <2>3
<1>13. o \in Objects /\ content[o] # Null
  BY <1>1, LiveText DEF IInv, OneOwner
<1>14. /\ content' \in [Objects -> Seq(Int) \cup {Null}]
       /\ content'[o] = bytes /\ \A p \in Objects \ {o} : content'[p] = content[p]
  BY <1>1, <1>7, <1>13 DEF IInv, TypeOK
<1>15. \A p \in Objects : \/ content'[p] = content[p]
                          \/ /\ content[p] # Null /\ content'[p] # Null
                             /\ \E t \in Clean : content'[p] = ToNative(t)
  BY <1>5, <1>6, <1>7, <1>13, <1>14
<1>16. \A v \in Wrappers : /\ wrapper'[v].object = wrapper[v].object
                           /\ wrapper'[v].owned = wrapper[v].owned
                           /\ wrapper'[v].cache \in Clean \cup {Null}
                           /\ wrapper'[v].cache # Null => Live(v) /\ wrapper[v].owned
  BY <1>1, <1>11, <1>12 DEF IInv, TextsClean, OwnedCached
<1>17. CacheCoherent'
  <2> SUFFICES ASSUME NEW v \in Wrappers, Live(v)', v \notin lent', wrapper'[v].cache # Null
               PROVE  wrapper'[v].cache = ToManaged(content'[wrapper'[v].object])
    BY DEF CacheCoherent, Text
  <2>1. CASE v = w BY <2>1, <1>1, <1>5, <1>11, <1>12, <1>14
  <2>2. CASE v = value
    <3>1. wrapper[value].object \in Objects /\ ToManaged(Text(value)) = u
      BY <1>1, <1>3, LiveText, Conversions
    <3> QED BY <2>2, <3>1, <1>1, <1>12, <1>14 DEF Text
  <2>3. CASE v \notin {w, value}
    <3>1. Live(v) /\ wrapper[v].owned /\ wrapper'[v] = wrapper[v]
      BY <2>3, <1>12, <1>16 DEF Live
    <3>2. wrapper[v].object # o BY <2>3, <3>1 DEF IInv, OneOwner
    <3>3. wrapper[v].object \in Objects BY <3>1, LiveText
    <3> QED BY <3>1, <3>2, <3>3, <1>1, <1>14 DEF IInv, CacheCoherent, Text
  <2> QED BY <2>1, <2>2, <2>3
<1>18. lent' \subseteq {v \in Wrappers : Live(v)} BY <1>1 DEF IInv, TypeOK, LentLive
<1> HIDE DEF o
<1> QED BY <1>12, <1>14, <1>15, <1>16, <1>17, <1>18, ChangeStep

-----------------------------------------------------------------------------
\* The invariant is inductive for a program that keeps the rules.
LEMMA NextIInv == ASSUME IInv, KeepsRules, [Next]_vars PROVE IInv'
<1>0. Written = Clean BY DEF Written, KeepsRules
<1>1. CASE \E w \in Wrappers, o \in Objects \ Static : New(w, o)
  <2> PICK w \in Wrappers, o \in Objects \ Static : New(w, o) BY <1>1
  <2>1. <<>> \in Clean /\ ToNative(<<>>) = <<>> BY Conversions
  <2> QED BY <2>1, NewStep DEF New
<1>2. CASE \E w \in Wrappers, o \in Objects \ Static, t \in Written : NewText(w, o, t)
  <2> PICK w \in Wrappers, o \in Objects \ Static, t \in Clean : NewText(w, o, t)
    BY <1>0, <1>2
  <2> QED BY NewStep DEF NewText
<1>3. CASE \E w \in Wrappers, o \in Objects : FromBorrowedHandle(w, o) BY <1>3, BorrowStep
<1>4. CASE \E w \in Wrappers : Dispose(w) BY <1>4, DisposeStep
<1>5. CASE \E w \in Wrappers : SnapshotManaged(w) BY <1>5, SnapshotStep
<1>6. CASE \E w \in Wrappers : Lend(w) BY <1>6, LendStep
<1>7. CASE \E w \in Wrappers : OnInvoked(w) BY <1>7, OnInvokedStep
<1>8. CASE \E w \in Wrappers, t \in Written : Set(w, t) BY <1>0, <1>8, SetStep
<1>9. CASE \E w \in Wrappers, t \in Written : Append_Text(w, t)
  BY <1>0, <1>9, AppendTextStep
<1>10. CASE \E w \in Wrappers, v \in Wrappers : Append_String(w, v)
  BY <1>10, AppendStringStep
<1>11. CASE \E o \in Objects, t \in Written : NativeWrite(o, t) BY <1>0, <1>11, NativeStep
<1>12. CASE UNCHANGED vars
  BY <1>12 DEF vars, IInv, TypeOK, LentLive, TextsClean, OneOwner, OwnedCached, CacheCoherent, Live, Text
<1> QED BY <1>1, <1>2, <1>3, <1>4, <1>5, <1>6, <1>7, <1>8, <1>9, <1>10, <1>11, <1>12 DEF Next

\* The strengthened invariant holds of every program that keeps the rules.
THEOREM StringInductive == ASSUME KeepsRules PROVE Spec => []IInv
<1>1. Init => IInv BY InitIInv
<1>2. IInv /\ [Next]_vars => IInv' BY NextIInv
<1> QED BY <1>1, <1>2, PTL DEF Spec

\* What ToString shows of an owned string is what native code sees, except while a
\* native call works on the string (csbind23_stl.String.partial.cs, whole file).
THEOREM StringCoherent == ASSUME KeepsRules PROVE Spec => []CacheCoherent
<1>1. IInv => CacheCoherent BY DEF IInv
<1> QED BY <1>1, StringInductive, PTL

\* Every variable keeps its type.
THEOREM StringTypes == ASSUME KeepsRules PROVE Spec => []TypeOK
<1>1. IInv => TypeOK BY DEF IInv
<1> QED BY <1>1, StringInductive, PTL

-----------------------------------------------------------------------------
(***************************************************************************)
(* Induction, and the bytes of a character.                                *)
(***************************************************************************)
LEMMA LeastNat ==
  ASSUME NEW S \in SUBSET Nat, S # {}
  PROVE  \E x \in S : \A y \in S : x <= y
<1>1. PICK x \in S : \A y \in S : ~(<<y, x>> \in OpToRel(<, Nat))
  BY NatLessThanWellFounded, WFMin
<1>2. \A y \in S : ~(y < x)
  BY <1>1 DEF OpToRel
<1> QED BY <1>2

\* Induction, over a set instead of a predicate.
LEMMA SetInduction ==
  ASSUME NEW S, 0 \in S, \A n \in Nat : n \in S => n + 1 \in S
  PROVE  Nat \subseteq S
<1> SUFFICES ASSUME Nat \ S # {} PROVE FALSE
  OBVIOUS
<1>1. PICK x \in Nat \ S : \A y \in Nat \ S : x <= y
  BY LeastNat
<1>2. x # 0 /\ x - 1 \in Nat /\ x - 1 < x
  BY <1>1
<1>3. x - 1 \in S
  BY <1>1, <1>2
<1>4. (x - 1) + 1 \in S /\ (x - 1) + 1 = x
  BY <1>2, <1>3
<1> QED BY <1>1, <1>4

\* The code points of characters other than NUL.
Character == {c \in Nat : c > 0 /\ c < 1114112 /\ c \notin Surrogates}

\* The bytes of a character: none is NUL, and the first is where the walk stops.
Width(c) == Len(CharBytes(c))

LEMMA CharBytesFacts ==
  ASSUME NEW c \in Character
  PROVE  /\ CharBytes(c) \in Seq(Int)
         /\ Width(c) \in 1..4
         /\ \A k \in 1..Width(c) : CharBytes(c)[k] \in 1..255
         /\ CharBytes(c)[1] < 128 \/ CharBytes(c)[1] >= 192
         /\ \A k \in 2..Width(c) : CharBytes(c)[k] \in 128..191
         /\ SequenceLength(CharBytes(c)[1]) = Width(c)
<1>0. c \in Nat /\ c > 0 /\ c < 1114112 /\ c \notin Surrogates
  BY DEF Character
<1>1. CASE c < 128
  <2>1. CharBytes(c) = <<c>>
    BY <1>0, <1>1 DEF CharBytes
  <2>2. SequenceLength(c) = 1
    BY <1>1 DEF SequenceLength
  <2> QED BY <1>0, <1>1, <2>1, <2>2 DEF Width
<1>2. CASE c >= 128 /\ c < 2048
  <2>1. CharBytes(c) = <<192 + (c \div 64), Trail(c, 1)>>
    BY <1>0, <1>2 DEF CharBytes
  <2>2. PICK a, b : a = 192 + (c \div 64) /\ b = Trail(c, 1)
    OBVIOUS
  <2>3. a \in 194..223 /\ b \in 128..191
    BY <1>0, <1>2, <2>2 DEF Trail
  <2>4. SequenceLength(a) = 2
    BY <2>3 DEF SequenceLength
  <2> QED BY <2>1, <2>2, <2>3, <2>4 DEF Width
<1>3. CASE c >= 2048 /\ c < 65536
  <2>1. CharBytes(c) = <<224 + (c \div 4096), Trail(c, 64), Trail(c, 1)>>
    BY <1>0, <1>3 DEF CharBytes
  <2>2. PICK a, b, d : a = 224 + (c \div 4096) /\ b = Trail(c, 64) /\ d = Trail(c, 1)
    OBVIOUS
  <2>3. a \in 224..239 /\ b \in 128..191 /\ d \in 128..191
    BY <1>0, <1>3, <2>2 DEF Trail
  <2>4. SequenceLength(a) = 3
    BY <2>3 DEF SequenceLength
  <2> QED BY <2>1, <2>2, <2>3, <2>4 DEF Width
<1>4. CASE c >= 65536
  <2>1. CharBytes(c) = <<240 + (c \div 262144), Trail(c, 4096), Trail(c, 64), Trail(c, 1)>>
    BY <1>0, <1>4 DEF CharBytes
  <2>2. PICK a, b, d, e : /\ a = 240 + (c \div 262144) /\ b = Trail(c, 4096)
                          /\ d = Trail(c, 64) /\ e = Trail(c, 1)
    OBVIOUS
  <2>3. a \in 240..247 /\ b \in 128..191 /\ d \in 128..191 /\ e \in 128..191
    BY <1>0, <1>4, <2>2 DEF Trail
  <2>4. SequenceLength(a) = 4
    BY <2>3 DEF SequenceLength
  <2> QED BY <2>1, <2>2, <2>3, <2>4 DEF Width
<1> QED BY <1>0, <1>1, <1>2, <1>3, <1>4

\* What DecodeAt reads back where the bytes of a character are.
LEMMA Decoded ==
  ASSUME NEW c \in Character, NEW bytes, NEW i \in Nat,
         \A k \in 1..Width(c) : bytes[i + (k - 1)] = CharBytes(c)[k]
  PROVE  DecodeAt(bytes, i) = c
<1>0. c \in Nat /\ c > 0 /\ c < 1114112 /\ c \notin Surrogates
  BY DEF Character
<1>i. i + 0 = i
  OBVIOUS
<1>1. CASE c < 128
  <2>1. CharBytes(c) = <<c>>
    BY <1>0, <1>1 DEF CharBytes
  <2>2. SequenceLength(c) = 1
    BY <1>1 DEF SequenceLength
  <2>3. bytes[i] = c
    BY <2>1, <1>i DEF Width
  <2> QED BY <2>2, <2>3 DEF DecodeAt
<1>2. CASE c >= 128 /\ c < 2048
  <2>1. PICK a, b : a = 192 + (c \div 64) /\ b = Trail(c, 1)
    OBVIOUS
  <2>2. CharBytes(c) = <<a, b>>
    BY <1>0, <1>2, <2>1 DEF CharBytes
  <2>3. bytes[i] = a /\ bytes[i + 1] = b
    BY <2>2, <1>i DEF Width
  <2>4. SequenceLength(a) = 2
    BY <1>0, <1>2, <2>1 DEF SequenceLength
  <2>5. (a % 32) * 64 + (b % 64) = c
    BY <1>0, <1>2, <2>1 DEF Trail
  <2> QED BY <2>3, <2>4, <2>5 DEF DecodeAt
<1>3. CASE c >= 2048 /\ c < 65536
  <2>1. PICK a, b, d : a = 224 + (c \div 4096) /\ b = Trail(c, 64) /\ d = Trail(c, 1)
    OBVIOUS
  <2>2. CharBytes(c) = <<a, b, d>>
    BY <1>0, <1>3, <2>1 DEF CharBytes
  <2>3. bytes[i] = a /\ bytes[i + 1] = b /\ bytes[i + 2] = d
    BY <2>2, <1>i DEF Width
  <2>4. SequenceLength(a) = 3
    BY <1>0, <1>3, <2>1 DEF SequenceLength
  <2>5. (a % 16) * 4096 + (b % 64) * 64 + (d % 64) = c
    BY <1>0, <1>3, <2>1 DEF Trail
  <2> QED BY <2>3, <2>4, <2>5 DEF DecodeAt
<1>4. CASE c >= 65536
  <2>1. PICK a, b, d, e : /\ a = 240 + (c \div 262144) /\ b = Trail(c, 4096)
                          /\ d = Trail(c, 64) /\ e = Trail(c, 1)
    OBVIOUS
  <2>2. CharBytes(c) = <<a, b, d, e>>
    BY <1>0, <1>4, <2>1 DEF CharBytes
  <2>3. bytes[i] = a /\ bytes[i + 1] = b /\ bytes[i + 2] = d /\ bytes[i + 3] = e
    BY <2>2, <1>i DEF Width
  <2>4. SequenceLength(a) = 4
    BY <1>0, <1>4, <2>1 DEF SequenceLength
  <2>5. (a % 8) * 262144 + (b % 64) * 4096 + (d % 64) * 64 + (e % 64) = c
    <3>1. PICK p, q, r \in Nat : p = c \div 64 /\ q = c \div 4096 /\ r = c \div 262144
      BY <1>0
    <3>2. /\ a % 8 = r /\ b % 64 = q % 64 /\ d % 64 = p % 64 /\ e % 64 = c % 64
      BY <1>0, <2>1, <3>1 DEF Trail
    <3>3. c = 64 * p + (c % 64)
      BY <1>0, <3>1
    <3>4. p = 64 * q + (p % 64)
      BY <1>0, <3>1
    <3>5. q = 64 * r + (q % 64)
      BY <1>0, <3>1
    <3> QED BY <1>0, <3>1, <3>2, <3>3, <3>4, <3>5
  <2> QED BY <2>3, <2>4, <2>5 DEF DecodeAt
<1> QED BY <1>0, <1>1, <1>2, <1>3, <1>4

\* A character that begins where another one does is the same.
LEMMA SameCharacter ==
  ASSUME NEW c \in Character, NEW d \in Character, CharBytes(c)[1] = CharBytes(d)[1],
         \A k \in 1..Width(c) : CharBytes(d)[k] = CharBytes(c)[k]
  PROVE  c = d
<1>1. Width(c) = Width(d)
  BY CharBytesFacts
<1>2. DecodeAt(CharBytes(c), 1) = c
  <2>1. \A k \in 1..Width(c) : CharBytes(c)[1 + (k - 1)] = CharBytes(c)[k]
    BY CharBytesFacts
  <2> QED BY <2>1, Decoded
<1>3. DecodeAt(CharBytes(c), 1) = d
  <2>1. \A k \in 1..Width(d) : CharBytes(c)[1 + (k - 1)] = CharBytes(d)[k]
    BY <1>1, CharBytesFacts
  <2> QED BY <2>1, Decoded
<1> QED BY <1>2, <1>3

-----------------------------------------------------------------------------
(***************************************************************************)
(* The bytes of a text: GetBytes is defined by a recursion, which is taken *)
(* apart here and not used again.                                          *)
(***************************************************************************)
\* f holds the bytes of the prefixes of t, up to n characters.
PrefixBytes(t, n, f) ==
  /\ f \in [0..n -> Seq(Int)] /\ f[0] = <<>>
  /\ \A i \in 1..n : f[i] = f[i - 1] \o CharBytes(t[i])

LEMMA TextFacts ==
  ASSUME NEW t \in Seq(Character)
  PROVE  /\ Len(t) \in Nat
         /\ \A i \in 1..Len(t) : /\ t[i] \in Character /\ CharBytes(t[i]) \in Seq(Int)
                                 /\ Width(t[i]) \in 1..4
BY CharBytesFacts

LEMMA MorePrefixes ==
  ASSUME NEW t \in Seq(Character), NEW n \in Nat, n + 1 <= Len(t), NEW f, PrefixBytes(t, n, f)
  PROVE  \E g : PrefixBytes(t, n + 1, g)
<1>1. /\ f \in [0..n -> Seq(Int)] /\ f[0] = <<>>
      /\ \A i \in 1..n : f[i] = f[i - 1] \o CharBytes(t[i])
  BY DEF PrefixBytes
<1>2. PICK x : x = f[n] \o CharBytes(t[n + 1])
  OBVIOUS
<1>3. x \in Seq(Int)
  <2>1. n + 1 \in 1..Len(t) /\ n \in 0..n
    BY TextFacts
  <2>2. f[n] \in Seq(Int) /\ CharBytes(t[n + 1]) \in Seq(Int)
    BY <1>1, <2>1, TextFacts
  <2> QED BY <1>2, <2>2
<1>4. PICK g : g = [i \in 0..n + 1 |-> IF i = n + 1 THEN x ELSE f[i]]
  OBVIOUS
<1>5. /\ g \in [0..n + 1 -> Seq(Int)] /\ g[n + 1] = x /\ \A i \in 0..n : g[i] = f[i]
  BY <1>1, <1>3, <1>4
<1>6. ASSUME NEW i \in 1..n + 1 PROVE g[i] = g[i - 1] \o CharBytes(t[i])
  <2>1. CASE i = n + 1
    <3>1. i - 1 = n /\ n \in 0..n
      BY <2>1
    <3> QED BY <1>2, <1>5, <2>1, <3>1
  <2>2. CASE i # n + 1
    <3>1. i \in 1..n /\ i \in 0..n /\ i - 1 \in 0..n
      BY <2>2
    <3>2. f[i] = f[i - 1] \o CharBytes(t[i]) /\ g[i] = f[i] /\ g[i - 1] = f[i - 1]
      BY <1>1, <1>5, <3>1
    <3> QED BY ONLY <3>2
  <2> QED BY <2>1, <2>2
<1>7. PrefixBytes(t, n + 1, g)
  <2>1. g[0] = <<>>
    BY <1>1, <1>5
  <2> QED BY <1>5, <1>6, <2>1 DEF PrefixBytes
<1> QED BY <1>7

LEMMA Prefixes ==
  ASSUME NEW t \in Seq(Character)
  PROVE  \E f : PrefixBytes(t, Len(t), f) /\ GetBytes(t) = f[Len(t)]
<1>0. Len(t) \in Nat
  BY TextFacts
<1>s. PICK S : S = {n \in Nat : n <= Len(t) => \E f : PrefixBytes(t, n, f)}
  OBVIOUS
<1>1. 0 \in S
  <2>1. PICK f : f = [i \in 0..0 |-> <<>>]
    OBVIOUS
  <2>2. f \in [0..0 -> Seq(Int)] /\ f[0] = <<>>
    BY <2>1
  <2>3. PrefixBytes(t, 0, f)
    BY <2>2 DEF PrefixBytes
  <2> QED BY <1>s, <2>3
<1>2. ASSUME NEW n \in Nat, n \in S PROVE n + 1 \in S
  <2>1. CASE n + 1 <= Len(t)
    <3>1. n <= Len(t)
      BY <1>0, <2>1
    <3>2. PICK f : PrefixBytes(t, n, f)
      BY <1>2, <1>s, <3>1
    <3>3. \E g : PrefixBytes(t, n + 1, g)
      BY <2>1, <3>2, MorePrefixes
    <3> QED BY <1>s, <3>3
  <2>2. CASE ~(n + 1 <= Len(t))
    BY <1>s, <2>2
  <2> QED BY <2>1, <2>2
<1>3. Len(t) \in S
  BY <1>0, <1>1, <1>2, SetInduction
<1>4. PICK f : PrefixBytes(t, Len(t), f)
  BY <1>0, <1>3, <1>s
<1>5. /\ f \in [0..Len(t) -> Seq(Int)] /\ f[0] = <<>>
      /\ \A i \in 1..Len(t) : f[i] = f[i - 1] \o CharBytes(t[i])
  BY <1>4 DEF PrefixBytes
<1> DEFINE G == CHOOSE bytes : bytes = [i \in 0..Len(t) |->
                    IF i = 0 THEN <<>> ELSE bytes[i - 1] \o CharBytes(t[i])]
<1>6. f = [i \in 0..Len(t) |-> IF i = 0 THEN <<>> ELSE f[i - 1] \o CharBytes(t[i])]
  <2>1. PICK h : h = [i \in 0..Len(t) |-> IF i = 0 THEN <<>> ELSE f[i - 1] \o CharBytes(t[i])]
    OBVIOUS
  <2>2. \A i \in 0..Len(t) : h[i] = f[i]
    <3> SUFFICES ASSUME NEW i \in 0..Len(t) PROVE h[i] = f[i]
      OBVIOUS
    <3>1. CASE i = 0
      BY <1>5, <2>1, <3>1
    <3>2. CASE i # 0
      <4>1. i \in 1..Len(t)
        BY <1>0, <3>2
      <4>2. f[i] = f[i - 1] \o CharBytes(t[i])
        BY <1>5, <4>1
      <4>3. h[i] = f[i - 1] \o CharBytes(t[i])
        BY <2>1, <3>2
      <4> QED BY <4>2, <4>3
    <3> QED BY <3>1, <3>2
  <2>3. h = f
    BY <1>5, <2>1, <2>2
  <2> QED BY <2>1, <2>3
<1>7. G = [i \in 0..Len(t) |-> IF i = 0 THEN <<>> ELSE G[i - 1] \o CharBytes(t[i])]
  <2>1. \E bytes : bytes = [i \in 0..Len(t) |->
                    IF i = 0 THEN <<>> ELSE bytes[i - 1] \o CharBytes(t[i])]
    BY <1>6
  <2> QED BY <2>1
<1>8. GetBytes(t) = G[Len(t)]
  BY DEF GetBytes
<1> HIDE DEF G
<1>e. PICK E : E = {i \in Nat : i <= Len(t) => G[i] = f[i]}
  OBVIOUS
<1>9. 0 \in E
  <2>1. G[0] = <<>>
    BY <1>0, <1>7
  <2> QED BY <1>5, <1>e, <2>1
<1>10. ASSUME NEW i \in Nat, i \in E PROVE i + 1 \in E
  <2> SUFFICES ASSUME i + 1 <= Len(t) PROVE G[i + 1] = f[i + 1]
    BY <1>e
  <2>1. i + 1 \in 0..Len(t) /\ i + 1 # 0 /\ (i + 1) - 1 = i /\ i + 1 \in 1..Len(t)
    BY <1>0
  <2>2. G[i] = f[i]
    BY <1>0, <1>10, <1>e
  <2>3. G[i + 1] = G[i] \o CharBytes(t[i + 1])
    BY <1>7, <2>1
  <2>4. f[i + 1] = f[i] \o CharBytes(t[i + 1])
    BY <1>5, <2>1
  <2> QED BY <2>2, <2>3, <2>4
<1>11. Len(t) \in E
  BY <1>0, <1>9, <1>10, SetInduction
<1>12. GetBytes(t) = f[Len(t)]
  BY <1>0, <1>8, <1>11, <1>e
<1> QED BY <1>4, <1>12

\* b holds the first n characters of t, one after another: character i is after pos[i - 1].
Encodes(b, t, n, pos) ==
  /\ pos \in [0..n -> Nat] /\ pos[0] = 0 /\ pos[n] = Len(b)
  /\ \A i \in 1..n :
       /\ pos[i] = pos[i - 1] + Width(t[i])
       /\ \A k \in 1..Width(t[i]) : b[pos[i - 1] + k] = CharBytes(t[i])[k]

\* The characters follow each other.
LEMMA Ordered ==
  ASSUME NEW t \in Seq(Character), NEW n \in Nat, n <= Len(t), NEW b, NEW pos,
         Encodes(b, t, n, pos)
  PROVE  \A i, j \in 0..n : /\ i < j => pos[i] < pos[j]
                            /\ i <= j => pos[i] <= pos[j]
<1>1. /\ pos \in [0..n -> Nat]
      /\ \A i \in 1..n : pos[i] = pos[i - 1] + Width(t[i]) /\ Width(t[i]) \in 1..4
  BY TextFacts DEF Encodes
<1>s. PICK S : S = {j \in Nat : j <= n => \A i \in 0..j : i < j => pos[i] < pos[j]}
  OBVIOUS
<1>2. 0 \in S
  BY <1>s
<1>3. ASSUME NEW j \in Nat, j \in S PROVE j + 1 \in S
  <2> SUFFICES ASSUME j + 1 <= n, NEW i \in 0..j PROVE pos[i] < pos[j + 1]
    BY <1>s
  <2>1. j + 1 \in 1..n /\ (j + 1) - 1 = j /\ j \in 0..n /\ i \in 0..n
    OBVIOUS
  <2>2. pos[j + 1] = pos[j] + Width(t[j + 1]) /\ Width(t[j + 1]) \in 1..4
    BY <1>1, <2>1
  <2>3. pos[i] \in Nat /\ pos[j] \in Nat
    BY <1>1, <2>1
  <2>4. i = j \/ pos[i] < pos[j]
    BY <1>3, <1>s, <2>1
  <2> QED BY <2>2, <2>3, <2>4
<1>4. ASSUME NEW i \in 0..n, NEW j \in 0..n, i < j PROVE pos[i] < pos[j]
  <2>1. j \in S
    BY <1>2, <1>3, SetInduction
  <2> QED BY <1>4, <1>s, <2>1
<1>5. \A i \in 0..n : pos[i] \in Nat
  BY <1>1
<1> QED BY <1>4, <1>5

\* Byte m is one of those of character i.
ByteOf(b, t, pos, m, i) ==
  \E k \in 1..Width(t[i]) : m = pos[i - 1] + k /\ b[m] = CharBytes(t[i])[k]

\* Every byte belongs to a character.
LEMMA Covered ==
  ASSUME NEW t \in Seq(Character), NEW n \in Nat, n <= Len(t), NEW b, NEW pos,
         Encodes(b, t, n, pos), NEW m \in 1..Len(b)
  PROVE  \E i \in 1..n : ByteOf(b, t, pos, m, i)
<1>1. /\ pos \in [0..n -> Nat] /\ pos[0] = 0 /\ pos[n] = Len(b)
      /\ \A i \in 1..n : pos[i] = pos[i - 1] + Width(t[i]) /\ Width(t[i]) \in 1..4
  BY TextFacts DEF Encodes
<1>s. PICK S : S = {j \in Nat : j <= n /\ m <= pos[j] =>
                      \E i \in 1..n : pos[i - 1] < m /\ m <= pos[i]}
  OBVIOUS
<1>2. 0 \in S
  BY <1>1, <1>s
<1>3. ASSUME NEW j \in Nat, j \in S PROVE j + 1 \in S
  <2> SUFFICES ASSUME j + 1 <= n, m <= pos[j + 1]
               PROVE  \E i \in 1..n : pos[i - 1] < m /\ m <= pos[i]
    BY <1>s
  <2>1. j + 1 \in 1..n /\ (j + 1) - 1 = j /\ j \in 0..n /\ pos[j] \in Nat
    BY <1>1
  <2>2. CASE m <= pos[j]
    BY <1>3, <1>s, <2>1, <2>2
  <2>3. CASE ~(m <= pos[j])
    <3>1. pos[(j + 1) - 1] < m
      BY <1>1, <2>1, <2>3
    <3> QED BY <2>1, <3>1
  <2> QED BY <2>2, <2>3
<1>4. PICK i \in 1..n : pos[i - 1] < m /\ m <= pos[i]
  <2>1. n \in S
    BY <1>2, <1>3, SetInduction
  <2> QED BY <1>1, <1>s, <2>1
<1>5. PICK k \in 1..Width(t[i]) : m = pos[i - 1] + k
  <2>1. pos[i - 1] \in Nat /\ pos[i] = pos[i - 1] + Width(t[i]) /\ Width(t[i]) \in 1..4
    BY <1>1
  <2>2. PICK p, w, k : p = pos[i - 1] /\ w = Width(t[i]) /\ k = m - p
    OBVIOUS
  <2>3. p \in Nat /\ w \in Nat /\ m \in Nat /\ p < m /\ m <= p + w
    <3>1. Len(b) \in Nat
      BY <1>1
    <3> QED BY <1>4, <2>1, <2>2, <3>1
  <2>4. k \in 1..w /\ m = p + k
    <3>1. k = m - p
      BY <2>2
    <3>2. k \in Int
      BY <2>3, <3>1
    <3>3. k >= 1 /\ k <= w
      BY <2>3, <3>1
    <3>4. m = p + k
      BY <2>3, <3>1
    <3> QED BY <2>3, <3>2, <3>3, <3>4
  <2> QED BY <2>2, <2>4
<1>6. b[m] = CharBytes(t[i])[k]
  BY <1>5 DEF Encodes
<1> QED BY <1>5, <1>6 DEF ByteOf

\* One sequence after another.
LEMMA Joined ==
  ASSUME NEW T, NEW b \in Seq(T), NEW c \in Seq(T)
  PROVE  /\ b \o c \in Seq(T) /\ Len(b \o c) = Len(b) + Len(c)
         /\ \A m \in 1..Len(b) : (b \o c)[m] = b[m]
         /\ \A k \in 1..Len(c) : (b \o c)[Len(b) + k] = c[k]
OBVIOUS

LEMMA MoreEncoded ==
  ASSUME NEW t \in Seq(Character), NEW n \in Nat, n + 1 <= Len(t), NEW b \in Seq(Int), NEW pos,
         Encodes(b, t, n, pos)
  PROVE  \E q : Encodes(b \o CharBytes(t[n + 1]), t, n + 1, q)
<1>1. /\ pos \in [0..n -> Nat] /\ pos[0] = 0 /\ pos[n] = Len(b)
      /\ \A i \in 1..n : pos[i] = pos[i - 1] + Width(t[i]) /\ Width(t[i]) \in 1..4
      /\ \A i \in 1..n : \A k \in 1..Width(t[i]) : b[pos[i - 1] + k] = CharBytes(t[i])[k]
  BY TextFacts DEF Encodes
<1>2. PICK c : c = CharBytes(t[n + 1])
  OBVIOUS
<1>3. c \in Seq(Int) /\ Len(c) = Width(t[n + 1]) /\ Len(c) \in 1..4
  BY <1>2, TextFacts DEF Width
<1>4. PICK d : d = b \o c
  OBVIOUS
<1>5. /\ Len(d) = Len(b) + Len(c) /\ \A m \in 1..Len(b) : d[m] = b[m]
      /\ \A k \in 1..Len(c) : d[Len(b) + k] = c[k]
  BY <1>3, <1>4, Joined
<1>6. PICK q : q = [i \in 0..n + 1 |-> IF i = n + 1 THEN Len(d) ELSE pos[i]]
  OBVIOUS
<1>7. /\ q \in [0..n + 1 -> Nat] /\ q[n + 1] = Len(d) /\ \A i \in 0..n : q[i] = pos[i]
  BY <1>1, <1>3, <1>5, <1>6
<1>8. ASSUME NEW i \in 1..n + 1
      PROVE  /\ q[i] = q[i - 1] + Width(t[i])
             /\ \A k \in 1..Width(t[i]) : d[q[i - 1] + k] = CharBytes(t[i])[k]
  <2>1. CASE i = n + 1
    <3>1. i - 1 = n /\ q[n] = Len(b)
      BY <1>1, <1>7, <2>1
    <3> QED BY <1>2, <1>3, <1>5, <1>7, <2>1, <3>1
  <2>2. CASE i # n + 1
    <3>1. i \in 1..n /\ i \in 0..n /\ i - 1 \in 0..n
      BY <2>2
    <3>2. q[i] = pos[i] /\ q[i - 1] = pos[i - 1] /\ pos[i - 1] \in Nat
      BY <1>1, <1>7, <3>1
    <3>3. pos[i] <= Len(b)
      <4>1. \A x, y \in 0..n : x <= y => pos[x] <= pos[y]
        BY Ordered
      <4> QED BY <1>1, <3>1, <4>1
    <3>4. \A k \in 1..Width(t[i]) : pos[i - 1] + k \in 1..Len(b)
      <4>1. PICK p, w : p = pos[i - 1] /\ w = Width(t[i])
        OBVIOUS
      <4>2. p \in Nat /\ w \in Nat /\ p + w <= Len(b) /\ Len(b) \in Nat
        <5>1. pos[i] = p + w /\ w \in 1..4
          BY <1>1, <3>1, <4>1
        <5> QED BY <3>2, <3>3, <4>1, <5>1
      <4>3. \A k \in 1..w : p + k \in 1..Len(b)
        BY <4>2
      <4> QED BY <4>1, <4>3
    <3> QED BY <1>1, <1>5, <3>1, <3>2, <3>4
  <2> QED BY <2>1, <2>2
<1>9. Encodes(d, t, n + 1, q)
  BY <1>1, <1>7, <1>8 DEF Encodes
<1> QED BY <1>2, <1>4, <1>9

LEMMA Encoded ==
  ASSUME NEW t \in Seq(Character)
  PROVE  GetBytes(t) \in Seq(Int) /\ \E pos : Encodes(GetBytes(t), t, Len(t), pos)
<1>0. Len(t) \in Nat
  BY TextFacts
<1>1. PICK f : PrefixBytes(t, Len(t), f) /\ GetBytes(t) = f[Len(t)]
  BY Prefixes
<1>2. /\ f \in [0..Len(t) -> Seq(Int)] /\ f[0] = <<>>
      /\ \A i \in 1..Len(t) : f[i] = f[i - 1] \o CharBytes(t[i])
  BY <1>1 DEF PrefixBytes
<1>s. PICK S : S = {n \in Nat : n <= Len(t) => \E pos : Encodes(f[n], t, n, pos)}
  OBVIOUS
<1>3. 0 \in S
  <2>1. PICK pos : pos = [i \in 0..0 |-> 0]
    OBVIOUS
  <2>2. pos \in [0..0 -> Nat] /\ pos[0] = 0
    BY <2>1
  <2>3. Encodes(f[0], t, 0, pos)
    BY <1>2, <2>2 DEF Encodes
  <2> QED BY <1>s, <2>3
<1>4. ASSUME NEW n \in Nat, n \in S PROVE n + 1 \in S
  <2> SUFFICES ASSUME n + 1 <= Len(t) PROVE \E pos : Encodes(f[n + 1], t, n + 1, pos)
    BY <1>s
  <2>1. n \in 0..Len(t) /\ n <= Len(t) /\ n + 1 \in 1..Len(t) /\ (n + 1) - 1 = n
    BY <1>0
  <2>2. PICK pos : Encodes(f[n], t, n, pos)
    BY <1>4, <1>s, <2>1
  <2>3. \E q : Encodes(f[n] \o CharBytes(t[n + 1]), t, n + 1, q)
    BY <1>2, <2>1, <2>2, MoreEncoded
  <2>4. f[n + 1] = f[n] \o CharBytes(t[n + 1])
    BY <1>2, <2>1
  <2> QED BY <2>3, <2>4
<1>5. Len(t) \in S
  BY <1>0, <1>3, <1>4, SetInduction
<1>6. GetBytes(t) \in Seq(Int)
  BY <1>0, <1>1, <1>2
<1> QED BY <1>0, <1>1, <1>5, <1>6, <1>s

-----------------------------------------------------------------------------
(***************************************************************************)
(* The one encoding of a text, as the positions where its characters end.  *)
(***************************************************************************)
\* b is the text t, whose characters end at the positions pos.
Encoding(b, t, pos) ==
  t \in Seq(Character) /\ b \in Seq(Int) /\ Encodes(b, t, Len(t), pos)

LEMMA EncodingFacts ==
  ASSUME NEW b, NEW t, NEW pos, Encoding(b, t, pos)
  PROVE  /\ t \in Seq(Character) /\ b \in Seq(Int) /\ Len(t) \in Nat /\ Len(b) \in Nat
         /\ pos \in [0..Len(t) -> Nat] /\ pos[0] = 0 /\ pos[Len(t)] = Len(b)
         /\ \A i, j \in 0..Len(t) : (i < j => pos[i] < pos[j]) /\ (i <= j => pos[i] <= pos[j])
<1>1. t \in Seq(Character) /\ b \in Seq(Int) /\ Encodes(b, t, Len(t), pos)
  BY DEF Encoding
<1>2. Len(t) \in Nat /\ Len(b) \in Nat
  BY <1>1
<1>3. \A i, j \in 0..Len(t) : (i < j => pos[i] < pos[j]) /\ (i <= j => pos[i] <= pos[j])
  BY <1>1, <1>2, Ordered
<1> QED BY <1>1, <1>2, <1>3 DEF Encodes

LEMMA EncodingStep ==
  ASSUME NEW b, NEW t, NEW pos, Encoding(b, t, pos), NEW i \in 1..Len(t)
  PROVE  /\ t[i] \in Character /\ Width(t[i]) \in 1..4 /\ pos[i] = pos[i - 1] + Width(t[i])
         /\ \A k \in 1..Width(t[i]) : b[pos[i - 1] + k] = CharBytes(t[i])[k]
BY TextFacts DEF Encoding, Encodes

LEMMA EncodingCover ==
  ASSUME NEW b, NEW t, NEW pos, Encoding(b, t, pos), NEW m \in 1..Len(b)
  PROVE  \E i \in 1..Len(t) : ByteOf(b, t, pos, m, i)
<1>1. t \in Seq(Character) /\ b \in Seq(Int) /\ Encodes(b, t, Len(t), pos)
  BY DEF Encoding
<1>2. Len(t) \in Nat /\ Len(t) <= Len(t)
  BY <1>1
<1> QED BY <1>1, <1>2, Covered

LEMMA GetBytesEncodes ==
  ASSUME NEW t \in Seq(Character)
  PROVE  \E pos : Encoding(GetBytes(t), t, pos)
BY Encoded DEF Encoding

\* There is one encoding of a text.
LEMMA EncodingUnique ==
  ASSUME NEW b, NEW t, NEW p, Encoding(b, t, p)
  PROVE  GetBytes(t) = b
<1>1. /\ t \in Seq(Character) /\ b \in Seq(Int) /\ Len(t) \in Nat
      /\ p \in [0..Len(t) -> Nat] /\ p[0] = 0 /\ p[Len(t)] = Len(b)
  BY EncodingFacts
<1>3. PICK d : d = GetBytes(t)
  OBVIOUS
<1>2. PICK q : Encoding(d, t, q)
  BY <1>1, <1>3, GetBytesEncodes
<1>4. /\ d \in Seq(Int)
      /\ q \in [0..Len(t) -> Nat] /\ q[0] = 0 /\ q[Len(t)] = Len(d)
  BY <1>2, EncodingFacts
<1>s. PICK S : S = {i \in Nat : i <= Len(t) => p[i] = q[i]}
  OBVIOUS
<1>5. 0 \in S
  BY <1>1, <1>4, <1>s
<1>6. ASSUME NEW i \in Nat, i \in S PROVE i + 1 \in S
  <2> SUFFICES ASSUME i + 1 <= Len(t) PROVE p[i + 1] = q[i + 1]
    BY <1>s
  <2>1. i + 1 \in 1..Len(t) /\ (i + 1) - 1 = i /\ i <= Len(t)
    BY <1>1
  <2>2. p[i] = q[i]
    BY <1>6, <1>s, <2>1
  <2>3. p[i + 1] = p[i] + Width(t[i + 1])
    BY <2>1, EncodingStep
  <2>4. q[i + 1] = q[i] + Width(t[i + 1])
    BY <1>2, <2>1, EncodingStep
  <2> QED BY <2>2, <2>3, <2>4
<1>7. \A i \in 0..Len(t) : p[i] = q[i]
  <2>1. Nat \subseteq S
    BY <1>5, <1>6, SetInduction
  <2> QED BY <1>1, <1>s, <2>1
<1>8. Len(b) = Len(d)
  <2>1. Len(t) \in 0..Len(t)
    BY <1>1
  <2>2. p[Len(t)] = q[Len(t)]
    BY <1>7, <2>1
  <2> QED BY <1>1, <1>4, <2>2
<1>9. ASSUME NEW m \in 1..Len(b) PROVE b[m] = d[m]
  <2>1. PICK i \in 1..Len(t) : ByteOf(b, t, p, m, i)
    BY EncodingCover
  <2>2. PICK k \in 1..Width(t[i]) : m = p[i - 1] + k /\ b[m] = CharBytes(t[i])[k]
    BY <2>1 DEF ByteOf
  <2>3. d[q[i - 1] + k] = CharBytes(t[i])[k]
    BY <1>2, <2>1, <2>2, EncodingStep
  <2>4. p[i - 1] = q[i - 1]
    BY <1>1, <1>7, <2>1
  <2> QED BY <2>2, <2>3, <2>4
<1> QED BY <1>1, <1>3, <1>4, <1>8, <1>9, SeqEqual

\* A character begins with byte m.
StartsAt(t, p, m) == \E i \in 0..Len(t) - 1 : m = p[i] + 1

\* No byte of a text is NUL.
LEMMA NoNul ==
  ASSUME NEW b, NEW t, NEW p, Encoding(b, t, p), NEW m \in 1..Len(b)
  PROVE  b[m] \in 1..255
<1>1. PICK i \in 1..Len(t) : ByteOf(b, t, p, m, i)
  BY EncodingCover
<1>2. PICK k \in 1..Width(t[i]) : m = p[i - 1] + k /\ b[m] = CharBytes(t[i])[k]
  BY <1>1 DEF ByteOf
<1>3. PICK c \in Character : c = t[i]
  BY <1>1, EncodingStep
<1>4. \A x \in 1..Width(c) : CharBytes(c)[x] \in 1..255
  BY <1>3, CharBytesFacts
<1> QED BY <1>2, <1>3, <1>4

\* A byte that is not a trailing one begins a character.
LEMMA LeadStarts ==
  ASSUME NEW b, NEW t, NEW p, Encoding(b, t, p), NEW m \in 1..Len(b), b[m] \notin 128..191
  PROVE  StartsAt(t, p, m)
<1>1. PICK i \in 1..Len(t) : ByteOf(b, t, p, m, i)
  BY EncodingCover
<1>2. PICK k \in 1..Width(t[i]) : m = p[i - 1] + k /\ b[m] = CharBytes(t[i])[k]
  BY <1>1 DEF ByteOf
<1>3. t[i] \in Character /\ Width(t[i]) \in 1..4 /\ Len(t) \in Nat
  BY <1>1, EncodingFacts, EncodingStep
<1>4. k = 1
  <2>1. \A x \in 2..Width(t[i]) : CharBytes(t[i])[x] \in 128..191
    <3>1. PICK c \in Character : c = t[i]
      BY <1>3
    <3>2. \A x \in 2..Width(c) : CharBytes(c)[x] \in 128..191
      BY CharBytesFacts
    <3> QED BY <3>1, <3>2
  <2>2. ~(k \in 2..Width(t[i]))
    <3>1. CharBytes(t[i])[k] \notin 128..191
      BY <1>2
    <3> QED BY <2>1, <3>1
  <2> QED BY <1>2, <1>3, <2>2
<1>5. m = p[i - 1] + 1 /\ i - 1 \in 0..Len(t) - 1
  BY <1>1, <1>2, <1>3, <1>4
<1> QED BY <1>5 DEF StartsAt

\* A text of characters passes a `const char*` whole.
LEMMA NativeText ==
  ASSUME NEW t \in Seq(Character)
  PROVE  StringToNative(t) = GetBytes(t)
<1>b. PICK b : b = GetBytes(t)
  OBVIOUS
<1>1. PICK p : Encoding(b, t, p)
  BY <1>b, GetBytesEncodes
<1>2. \A i \in 1..Len(b) : b[i] # 0
  <2>1. \A i \in 1..Len(b) : b[i] \in 1..255
    BY <1>1, NoNul
  <2>2. \A x \in 1..255 : x # 0
    OBVIOUS
  <2> QED BY <2>1, <2>2
<1>3. {i \in 1..Len(b) : b[i] = NUL} = {}
  BY <1>2 DEF NUL
<1> QED BY <1>b, <1>3 DEF StringToNative, UpToNul

\* A character of a text, and where the next one begins.
LEMMA CharacterAt ==
  ASSUME NEW b, NEW t, NEW p, Encoding(b, t, p), NEW i \in 0..Len(t) - 1
  PROVE  /\ p[i] + 1 \in 1..Len(b) /\ t[i + 1] \in Character
         /\ SequenceLength(b[p[i] + 1]) = Width(t[i + 1])
         /\ (p[i] + 1) + SequenceLength(b[p[i] + 1]) = p[i + 1] + 1
         /\ b[p[i] + 1] = CharBytes(t[i + 1])[1]
         /\ DecodeAt(b, p[i] + 1) = t[i + 1]
<1>1. /\ Len(t) \in Nat /\ p \in [0..Len(t) -> Nat] /\ p[Len(t)] = Len(b)
      /\ \A x, y \in 0..Len(t) : x < y => p[x] < p[y]
  BY EncodingFacts
<1>2. i + 1 \in 1..Len(t) /\ (i + 1) - 1 = i /\ i \in 0..Len(t) /\ i < Len(t)
  BY <1>1
<1>3. /\ t[i + 1] \in Character /\ Width(t[i + 1]) \in 1..4
      /\ p[i + 1] = p[i] + Width(t[i + 1])
      /\ \A k \in 1..Width(t[i + 1]) : b[p[i] + k] = CharBytes(t[i + 1])[k]
  BY <1>2, EncodingStep
<1>4. p[i] \in Nat /\ p[i] < Len(b) /\ Len(b) \in Nat
  BY <1>1, <1>2
<1>5. b[p[i] + 1] = CharBytes(t[i + 1])[1]
  BY <1>3
<1>6. SequenceLength(b[p[i] + 1]) = Width(t[i + 1])
  BY <1>3, <1>5, CharBytesFacts
<1>7. DecodeAt(b, p[i] + 1) = t[i + 1]
  <2>1. \A k \in 1..Width(t[i + 1]) : b[(p[i] + 1) + (k - 1)] = CharBytes(t[i + 1])[k]
    <3> SUFFICES ASSUME NEW k \in 1..Width(t[i + 1])
                 PROVE  b[(p[i] + 1) + (k - 1)] = CharBytes(t[i + 1])[k]
      OBVIOUS
    <3>1. k \in Int
      BY <1>3
    <3>2. (p[i] + 1) + (k - 1) = p[i] + k
      BY <1>4, <3>1
    <3> QED BY <1>3, <3>2
  <2>2. p[i] + 1 \in Nat
    BY <1>4
  <2> QED BY <1>3, <2>1, <2>2, Decoded
<1>8. (p[i] + 1) + Width(t[i + 1]) = p[i + 1] + 1
  BY <1>3, <1>4
<1> QED BY <1>3, <1>4, <1>5, <1>6, <1>7, <1>8

\* Where the bytes of a character are.
LEMMA ByteRange ==
  ASSUME NEW b, NEW t, NEW p, Encoding(b, t, p), NEW i \in 1..Len(t), NEW k \in 1..Width(t[i])
  PROVE  /\ p[i - 1] \in Nat /\ p[i] \in Nat /\ k \in Nat /\ k >= 1
         /\ p[i - 1] + k <= p[i] /\ p[i - 1] + k \in 1..Len(b)
<1>1. /\ Len(t) \in Nat /\ Len(b) \in Nat /\ p \in [0..Len(t) -> Nat] /\ p[Len(t)] = Len(b)
      /\ \A x, y \in 0..Len(t) : x <= y => p[x] <= p[y]
  BY EncodingFacts
<1>2. Width(t[i]) \in 1..4 /\ p[i] = p[i - 1] + Width(t[i])
  BY EncodingStep
<1>3. i \in 0..Len(t) /\ i - 1 \in 0..Len(t) /\ Len(t) \in 0..Len(t) /\ i <= Len(t)
  BY <1>1
<1>4. p[i - 1] \in Nat /\ p[i] \in Nat /\ p[i] <= Len(b)
  BY <1>1, <1>3
<1>5. PICK x, w : x = p[i - 1] /\ w = Width(t[i])
  OBVIOUS
<1>6. w \in Nat /\ x \in Nat /\ k \in 1..w /\ x + w <= Len(b)
  BY <1>2, <1>4, <1>5
<1>7. k \in Nat /\ k >= 1 /\ x + k <= x + w /\ x + k \in 1..Len(b)
  BY <1>1, <1>6
<1> QED BY <1>2, <1>4, <1>5, <1>7

LEMMA EncodingConcat ==
  ASSUME NEW b, NEW t, NEW p, Encoding(b, t, p), NEW c, NEW u, NEW q, Encoding(c, u, q)
  PROVE  \E r : Encoding(b \o c, t \o u, r)
<1>1. /\ t \in Seq(Character) /\ b \in Seq(Int) /\ Len(t) \in Nat /\ Len(b) \in Nat
      /\ p \in [0..Len(t) -> Nat] /\ p[0] = 0 /\ p[Len(t)] = Len(b)
  BY EncodingFacts
<1>2. /\ u \in Seq(Character) /\ c \in Seq(Int) /\ Len(u) \in Nat /\ Len(c) \in Nat
      /\ q \in [0..Len(u) -> Nat] /\ q[0] = 0 /\ q[Len(u)] = Len(c)
  BY EncodingFacts
<1>3. PICK n, m : n = Len(t) /\ m = Len(u)
  OBVIOUS
<1>4. PICK d, s : d = b \o c /\ s = t \o u
  OBVIOUS
<1>5. /\ d \in Seq(Int) /\ Len(d) = Len(b) + Len(c) /\ \A x \in 1..Len(b) : d[x] = b[x]
      /\ \A x \in 1..Len(c) : d[Len(b) + x] = c[x]
  BY <1>1, <1>2, <1>4, Joined
<1>6. /\ s \in Seq(Character) /\ Len(s) = n + m /\ \A x \in 1..n : s[x] = t[x]
      /\ \A x \in 1..m : s[n + x] = u[x]
  BY <1>1, <1>2, <1>3, <1>4, Joined
<1>7. PICK r : r = [i \in 0..n + m |-> IF i <= n THEN p[i] ELSE Len(b) + q[i - n]]
  OBVIOUS
<1>8. r \in [0..n + m -> Nat]
  <2> SUFFICES ASSUME NEW i \in 0..n + m
               PROVE  (IF i <= n THEN p[i] ELSE Len(b) + q[i - n]) \in Nat
    BY <1>7
  <2>1. CASE i <= n
    <3>1. i \in 0..Len(t)
      BY <1>1, <1>3, <2>1
    <3>2. p[i] \in Nat
      BY <1>1, <3>1
    <3> QED BY <2>1, <3>2
  <2>2. CASE ~(i <= n)
    <3>1. i - n \in 0..m
      BY <1>1, <1>2, <1>3, <2>2
    <3>2. q[i - n] \in Nat
      BY <1>2, <1>3, <3>1
    <3> QED BY <1>1, <2>2, <3>2
  <2> QED BY <2>1, <2>2
<1>9. \A i \in 0..n : r[i] = p[i]
  BY <1>1, <1>2, <1>3, <1>7
<1>10. \A j \in 0..m : r[n + j] = Len(b) + q[j]
  <2> SUFFICES ASSUME NEW j \in 0..m PROVE r[n + j] = Len(b) + q[j]
    OBVIOUS
  <2>1. CASE j = 0
    <3>1. r[n + 0] = p[n]
      BY <1>1, <1>3, <1>9
    <3> QED BY <1>1, <1>2, <1>3, <2>1, <3>1
  <2>2. CASE j # 0
    <3>1. n + j \in 0..n + m /\ ~(n + j <= n) /\ (n + j) - n = j
      BY <1>1, <1>2, <1>3, <2>2
    <3> QED BY <1>7, <3>1
  <2> QED BY <2>1, <2>2
<1>11. r[0] = 0 /\ r[n + m] = Len(d)
  <2>1. 0 \in 0..n /\ m \in 0..m
    BY <1>1, <1>2, <1>3
  <2> QED BY <1>1, <1>2, <1>3, <1>5, <1>9, <1>10, <2>1
<1>12. ASSUME NEW i \in 1..n + m
       PROVE  /\ r[i] = r[i - 1] + Width(s[i])
              /\ \A k \in 1..Width(s[i]) : d[r[i - 1] + k] = CharBytes(s[i])[k]
  <2>1. CASE i <= n
    <3>1. i \in 1..Len(t) /\ i \in 0..n /\ i - 1 \in 0..n
      BY <1>1, <1>3, <2>1
    <3>2. r[i] = p[i] /\ r[i - 1] = p[i - 1] /\ s[i] = t[i]
      BY <1>3, <1>6, <1>9, <3>1
    <3>3. p[i] = p[i - 1] + Width(t[i])
      BY <3>1, EncodingStep
    <3>4. ASSUME NEW k \in 1..Width(t[i]) PROVE d[p[i - 1] + k] = CharBytes(t[i])[k]
      <4>1. p[i - 1] + k \in 1..Len(b)
        BY <3>1, ByteRange
      <4>2. b[p[i - 1] + k] = CharBytes(t[i])[k]
        BY <3>1, EncodingStep
      <4> QED BY <1>5, <4>1, <4>2
    <3> QED BY <3>2, <3>3, <3>4
  <2>2. CASE ~(i <= n)
    <3>1. PICK j : j = i - n
      OBVIOUS
    <3>2. j \in 1..m /\ j \in 1..Len(u) /\ i = n + j /\ i - 1 = n + (j - 1)
          /\ j \in 0..m /\ j - 1 \in 0..m
      BY <1>1, <1>2, <1>3, <2>2, <3>1
    <3>3. r[i] = Len(b) + q[j] /\ r[i - 1] = Len(b) + q[j - 1] /\ s[i] = u[j]
      BY <1>6, <1>10, <3>2
    <3>4. q[j] = q[j - 1] + Width(u[j]) /\ Width(u[j]) \in 1..4 /\ q[j - 1] \in Nat
      <4>1. q[j] = q[j - 1] + Width(u[j]) /\ Width(u[j]) \in 1..4
        BY <3>2, EncodingStep
      <4>2. q[j - 1] \in Nat
        BY <1>2, <1>3, <3>2
      <4> QED BY <4>1, <4>2
    <3>5. ASSUME NEW k \in 1..Width(u[j])
          PROVE  d[(Len(b) + q[j - 1]) + k] = CharBytes(u[j])[k]
      <4>1. q[j - 1] + k \in 1..Len(c) /\ k \in Nat
        BY <3>2, ByteRange
      <4>2. c[q[j - 1] + k] = CharBytes(u[j])[k]
        BY <3>2, EncodingStep
      <4>3. (Len(b) + q[j - 1]) + k = Len(b) + (q[j - 1] + k)
        BY <1>1, <3>4, <4>1
      <4> QED BY <1>5, <4>1, <4>2, <4>3
    <3>6. Len(b) + q[j] = (Len(b) + q[j - 1]) + Width(u[j])
      BY <1>1, <3>4
    <3> QED BY <3>3, <3>5, <3>6
  <2> QED BY <2>1, <2>2
<1>13. Len(s) = n + m
  BY <1>6
<1>14. Encodes(d, s, n + m, r)
  BY <1>8, <1>11, <1>12 DEF Encodes
<1>15. Encoding(d, s, r)
  BY <1>5, <1>6, <1>13, <1>14 DEF Encoding
<1> QED BY <1>4, <1>15

\* The bytes of one text after another.
LEMMA BytesConcat ==
  ASSUME NEW t \in Seq(Character), NEW u \in Seq(Character)
  PROVE  GetBytes(t \o u) = GetBytes(t) \o GetBytes(u)
<1>1. PICK p : Encoding(GetBytes(t), t, p)
  BY GetBytesEncodes
<1>2. PICK q : Encoding(GetBytes(u), u, q)
  BY GetBytesEncodes
<1>3. PICK r : Encoding(GetBytes(t) \o GetBytes(u), t \o u, r)
  BY <1>1, <1>2, EncodingConcat
<1> QED BY <1>3, EncodingUnique

\* A part of a sequence.
LEMMA Part ==
  ASSUME NEW T, NEW s \in Seq(T), NEW i \in Nat, NEW j \in Nat, i <= j, j <= Len(s)
  PROVE  /\ SubSeq(s, i + 1, j) \in Seq(T) /\ Len(SubSeq(s, i + 1, j)) = j - i
         /\ \A k \in 1..j - i : SubSeq(s, i + 1, j)[k] = s[i + k]
<1>1. Len(s) \in Nat /\ \A k \in 1..Len(s) : s[k] \in T
  OBVIOUS
<1>2. i + 1 \in Int /\ j \in Int /\ \A k \in i + 1..j : s[k] \in T
  BY <1>1
<1>3. PICK d : d = SubSeq(s, i + 1, j)
  OBVIOUS
<1>4. /\ d \in Seq(T) /\ Len(d) = (IF i + 1 <= j THEN j - (i + 1) + 1 ELSE 0)
      /\ \A k \in 1..j - (i + 1) + 1 : d[k] = s[(i + 1) + k - 1]
  BY <1>2, <1>3, SubSeqProperties
<1>5. Len(d) = j - i
  BY <1>4
<1>6. ASSUME NEW k \in 1..j - i PROVE d[k] = s[i + k]
  <2>1. k \in 1..j - (i + 1) + 1 /\ (i + 1) + k - 1 = i + k
    OBVIOUS
  <2> QED BY <1>4, <2>1
<1> QED BY <1>3, <1>4, <1>5, <1>6

LEMMA EncodingSlice ==
  ASSUME NEW b, NEW t, NEW p, Encoding(b, t, p), NEW i \in 0..Len(t), NEW j \in i..Len(t)
  PROVE  \E r : Encoding(SubSeq(b, p[i] + 1, p[j]), SubSeq(t, i + 1, j), r)
<1>1. /\ t \in Seq(Character) /\ b \in Seq(Int) /\ Len(t) \in Nat /\ Len(b) \in Nat
      /\ p \in [0..Len(t) -> Nat] /\ p[0] = 0 /\ p[Len(t)] = Len(b)
      /\ \A x, y \in 0..Len(t) : x <= y => p[x] <= p[y]
  BY EncodingFacts
<1>2. i \in Nat /\ j \in Nat /\ i <= j /\ j <= Len(t) /\ j \in 0..Len(t)
  BY <1>1
<1>3. p[i] \in Nat /\ p[j] \in Nat /\ p[i] <= p[j] /\ p[j] <= Len(b)
  <2>1. Len(t) \in 0..Len(t)
    BY <1>1
  <2> QED BY <1>1, <1>2, <2>1
<1>4. PICK d, s : d = SubSeq(b, p[i] + 1, p[j]) /\ s = SubSeq(t, i + 1, j)
  OBVIOUS
<1>5. /\ d \in Seq(Int) /\ Len(d) = p[j] - p[i]
      /\ \A k \in 1..p[j] - p[i] : d[k] = b[p[i] + k]
  <2>1. PICK e, f : e = p[i] /\ f = p[j]
    OBVIOUS
  <2>2. e \in Nat /\ f \in Nat /\ e <= f /\ f <= Len(b) /\ d = SubSeq(b, e + 1, f)
    BY <1>3, <1>4, <2>1
  <2>3. d \in Seq(Int) /\ Len(d) = f - e /\ \A k \in 1..f - e : d[k] = b[e + k]
    BY <1>1, <2>2, Part
  <2> QED BY <2>1, <2>3
<1>6. /\ s \in Seq(Character) /\ Len(s) = j - i /\ \A k \in 1..j - i : s[k] = t[i + k]
  BY <1>1, <1>2, <1>4, Part
<1>7. PICK r : r = [x \in 0..j - i |-> p[i + x] - p[i]]
  OBVIOUS
<1>8. \A x \in 0..j - i : p[i + x] - p[i] \in Nat /\ p[i + x] \in Nat
  <2> SUFFICES ASSUME NEW x \in 0..j - i PROVE p[i + x] - p[i] \in Nat /\ p[i + x] \in Nat
    OBVIOUS
  <2>1. i + x \in 0..Len(t) /\ i <= i + x
    BY <1>2
  <2>2. p[i + x] \in Nat /\ p[i] <= p[i + x]
    BY <1>1, <2>1
  <2> QED BY <1>3, <2>2
<1>9. /\ r \in [0..j - i -> Nat] /\ \A x \in 0..j - i : r[x] = p[i + x] - p[i]
  BY <1>7, <1>8
<1>10. r[0] = 0 /\ r[j - i] = Len(d)
  <2>1. 0 \in 0..j - i /\ j - i \in 0..j - i /\ i + 0 = i /\ i + (j - i) = j
    BY <1>2
  <2> QED BY <1>3, <1>5, <1>9, <2>1
<1>11. ASSUME NEW x \in 1..j - i
       PROVE  /\ r[x] = r[x - 1] + Width(s[x])
              /\ \A k \in 1..Width(s[x]) : d[r[x - 1] + k] = CharBytes(s[x])[k]
  <2>1. PICK y : y = i + x
    OBVIOUS
  <2>2. /\ y \in 1..Len(t) /\ y - 1 = i + (x - 1) /\ x \in 0..j - i /\ x - 1 \in 0..j - i
        /\ y \in 0..Len(t) /\ y <= j
    BY <1>2, <2>1
  <2>3. r[x] = p[y] - p[i] /\ r[x - 1] = p[y - 1] - p[i] /\ s[x] = t[y]
    BY <1>6, <1>9, <2>1, <2>2
  <2>4. p[y] = p[y - 1] + Width(t[y]) /\ Width(t[y]) \in 1..4 /\ p[y - 1] \in Nat /\ p[y] \in Nat
        /\ p[y - 1] - p[i] \in Nat
    <3>1. p[y] = p[y - 1] + Width(t[y]) /\ Width(t[y]) \in 1..4
      BY <2>2, EncodingStep
    <3>2. p[y - 1] \in Nat /\ p[y - 1] - p[i] \in Nat /\ p[y] \in Nat
      BY <1>8, <2>1, <2>2
    <3> QED BY <3>1, <3>2
  <2>5. p[y] <= p[j]
    BY <1>1, <1>2, <2>2
  <2>6. ASSUME NEW k \in 1..Width(t[y]) PROVE d[(p[y - 1] - p[i]) + k] = CharBytes(t[y])[k]
    <3>1. p[y - 1] + k <= p[y] /\ k \in Nat /\ k >= 1
      BY <2>2, ByteRange
    <3>2. PICK z : z = (p[y - 1] - p[i]) + k
      OBVIOUS
    <3>3. z \in 1..p[j] - p[i] /\ p[i] + z = p[y - 1] + k
      <4>1. PICK a, e, f, g : a = p[y - 1] /\ e = p[i] /\ f = p[y] /\ g = p[j]
        OBVIOUS
      <4>2. a \in Nat /\ e \in Nat /\ f \in Nat /\ g \in Nat /\ a - e \in Nat
            /\ f <= g /\ a + k <= f /\ z = (a - e) + k
        BY <1>3, <2>4, <2>5, <3>1, <3>2, <4>1
      <4>3. z \in 1..g - e /\ e + z = a + k
        BY <3>1, <4>2
      <4> QED BY <4>1, <4>3
    <3>4. b[p[y - 1] + k] = CharBytes(t[y])[k]
      BY <2>2, EncodingStep
    <3> QED BY <1>5, <3>2, <3>3, <3>4
  <2>7. p[y] - p[i] = (p[y - 1] - p[i]) + Width(t[y])
    <3>1. PICK a, e, f, w : a = p[y - 1] /\ e = p[i] /\ f = p[y] /\ w = Width(t[y])
      OBVIOUS
    <3>2. a \in Nat /\ e \in Nat /\ f \in Nat /\ w \in Nat /\ f = a + w
      BY <1>3, <2>4, <3>1
    <3>3. f - e = (a - e) + w
      BY <3>2
    <3> QED BY <3>1, <3>3
  <2> QED BY <2>3, <2>6, <2>7
<1>12. Encodes(d, s, j - i, r)
  BY <1>9, <1>10, <1>11 DEF Encodes
<1>13. Encoding(d, s, r)
  BY <1>5, <1>6, <1>12 DEF Encoding
<1> QED BY <1>4, <1>13

\* The bytes of a part of a text.
LEMMA BytesSlice ==
  ASSUME NEW b, NEW t, NEW p, Encoding(b, t, p), NEW i \in 0..Len(t), NEW j \in i..Len(t)
  PROVE  /\ SubSeq(t, i + 1, j) \in Seq(Character)
         /\ GetBytes(SubSeq(t, i + 1, j)) = SubSeq(b, p[i] + 1, p[j])
<1>1. PICK r : Encoding(SubSeq(b, p[i] + 1, p[j]), SubSeq(t, i + 1, j), r)
  BY EncodingSlice
<1> QED BY <1>1, EncodingFacts, EncodingUnique

-----------------------------------------------------------------------------
(***************************************************************************)
(* UTF-8 synchronises itself: to search bytes is to search characters.     *)
(***************************************************************************)
\* Where the bytes of a text are found, whole characters are, and they are its own:
\* the k first characters of u are in t after character i.
Matches(t, u, p, q, m, i, k) ==
  i + k <= Len(t) /\ p[i + k] = m + q[k] /\ \A l \in 1..k : t[i + l] = u[l]

LEMMA MoreMatches ==
  ASSUME NEW b, NEW t, NEW p, Encoding(b, t, p), NEW c, NEW u, NEW q, Encoding(c, u, q),
         NEW m \in Nat, m + Len(c) <= Len(b), \A x \in 1..Len(c) : b[m + x] = c[x],
         NEW i \in Nat, NEW k \in Nat, k + 1 <= Len(u), Matches(t, u, p, q, m, i, k)
  PROVE  Matches(t, u, p, q, m, i, k + 1)
<1>1. /\ Len(t) \in Nat /\ Len(b) \in Nat
      /\ p \in [0..Len(t) -> Nat] /\ p[Len(t)] = Len(b)
  BY EncodingFacts
<1>2. /\ Len(u) \in Nat /\ Len(c) \in Nat
      /\ q \in [0..Len(u) -> Nat] /\ q[Len(u)] = Len(c)
      /\ \A x, y \in 0..Len(u) : x < y => q[x] < q[y]
  BY EncodingFacts
<1>3. i + k <= Len(t) /\ p[i + k] = m + q[k] /\ \A l \in 1..k : t[i + l] = u[l]
  BY DEF Matches
<1>4. k \in 0..Len(u) - 1 /\ k \in 0..Len(u) /\ Len(u) \in 0..Len(u) /\ k < Len(u)
  BY <1>2
<1>5. q[k] \in Nat /\ q[k] < Len(c)
  BY <1>2, <1>4
<1>6. i + k \in 0..Len(t) - 1
  <2>1. p[i + k] # p[Len(t)]
    BY <1>1, <1>3, <1>5
  <2>2. i + k # Len(t)
    BY <2>1
  <2> QED BY <1>1, <1>3, <2>2
<1>7. PICK x, y : x = t[i + k + 1] /\ y = u[k + 1]
  OBVIOUS
<1>8. /\ x \in Character /\ Width(x) \in 1..4 /\ p[i + k + 1] = p[i + k] + Width(x)
      /\ \A z \in 1..Width(x) : b[p[i + k] + z] = CharBytes(x)[z]
  <2>1. i + k + 1 \in 1..Len(t) /\ (i + k + 1) - 1 = i + k
    BY <1>1, <1>6
  <2> QED BY <1>7, <2>1, EncodingStep
<1>9. /\ y \in Character /\ Width(y) \in 1..4 /\ q[k + 1] = q[k] + Width(y)
      /\ \A z \in 1..Width(y) : c[q[k] + z] = CharBytes(y)[z]
  <2>1. k + 1 \in 1..Len(u) /\ (k + 1) - 1 = k
    BY <1>2, <1>4
  <2> QED BY <1>7, <2>1, EncodingStep
<1>10. ASSUME NEW z \in 1..Width(y)
       PROVE  b[p[i + k] + z] = CharBytes(y)[z]
  <2>1. q[k] + z \in 1..Len(c) /\ z \in Nat
    <3>1. k + 1 \in 1..Len(u) /\ (k + 1) - 1 = k
      BY <1>2, <1>4
    <3> QED BY <1>7, <3>1, ByteRange
  <2>2. b[m + (q[k] + z)] = c[q[k] + z]
    BY <2>1
  <2>3. m + (q[k] + z) = p[i + k] + z
    <3>1. PICK e : e = q[k]
      OBVIOUS
    <3>2. e \in Nat /\ z \in Nat /\ p[i + k] = m + e
      BY <1>3, <1>5, <2>1, <3>1
    <3>3. m + (e + z) = (m + e) + z
      BY <3>2
    <3> QED BY <3>1, <3>2, <3>3
  <2> QED BY <1>9, <2>2, <2>3
<1>11. CharBytes(x)[1] = CharBytes(y)[1]
  BY <1>8, <1>9, <1>10
<1>12. Width(x) = Width(y)
  BY <1>8, <1>9, <1>11, CharBytesFacts
<1>13. x = y
  <2>1. \A z \in 1..Width(x) : CharBytes(y)[z] = CharBytes(x)[z]
    BY <1>8, <1>10, <1>12
  <2> QED BY <1>8, <1>9, <1>11, <2>1, SameCharacter
<1>14. i + (k + 1) <= Len(t) /\ i + (k + 1) = i + k + 1
  BY <1>1, <1>6
<1>15. p[i + (k + 1)] = m + q[k + 1]
  <2>1. PICK e, w : e = q[k] /\ w = Width(x)
    OBVIOUS
  <2>2. e \in Nat /\ w \in Nat
    BY <1>5, <1>8, <2>1
  <2>3. p[i + (k + 1)] = (m + e) + w
    BY <1>3, <1>8, <1>14, <2>1
  <2>4. q[k + 1] = e + w
    BY <1>9, <1>12, <2>1
  <2>5. (m + e) + w = m + (e + w)
    BY <2>2
  <2> QED BY <2>3, <2>4, <2>5
<1>16. \A l \in 1..k + 1 : t[i + l] = u[l]
  <2> SUFFICES ASSUME NEW l \in 1..k + 1 PROVE t[i + l] = u[l]
    OBVIOUS
  <2>1. CASE l = k + 1
    BY <1>7, <1>13, <1>14, <2>1
  <2>2. CASE l # k + 1
    BY <1>3, <2>2
  <2> QED BY <2>1, <2>2
<1> QED BY <1>14, <1>15, <1>16 DEF Matches

\* The text u is in t after i characters and m bytes, and its bytes are c.
FoundAt(t, u, p, c, m, i) ==
  /\ i \in 0..Len(t) - Len(u) /\ p[i] = m /\ p[i + Len(u)] = m + Len(c)
  /\ SubSeq(t, i + 1, i + Len(u)) = u

LEMMA Matched ==
  ASSUME NEW b, NEW t, NEW p, Encoding(b, t, p), NEW c, NEW u, NEW q, Encoding(c, u, q),
         u # <<>>, NEW m \in Nat, m + Len(c) <= Len(b), SubSeq(b, m + 1, m + Len(c)) = c
  PROVE  \E i : FoundAt(t, u, p, c, m, i)
<1>1. /\ t \in Seq(Character) /\ b \in Seq(Int) /\ Len(t) \in Nat /\ Len(b) \in Nat
      /\ p \in [0..Len(t) -> Nat] /\ p[Len(t)] = Len(b)
  BY EncodingFacts
<1>2. /\ u \in Seq(Character) /\ c \in Seq(Int) /\ Len(u) \in Nat /\ Len(c) \in Nat
      /\ q \in [0..Len(u) -> Nat] /\ q[0] = 0 /\ q[Len(u)] = Len(c)
      /\ \A x, y \in 0..Len(u) : x < y => q[x] < q[y]
  BY EncodingFacts
<1>3. Len(u) >= 1
  BY <1>2
<1>4. Len(c) >= 1
  <2>1. 0 \in 0..Len(u) /\ Len(u) \in 0..Len(u) /\ 0 < Len(u)
    BY <1>2, <1>3
  <2> QED BY <1>2, <2>1
<1>5. \A x \in 1..Len(c) : b[m + x] = c[x]
  <2>1. \A x \in 1..(m + Len(c)) - m : SubSeq(b, m + 1, m + Len(c))[x] = b[m + x]
    <3>1. m + Len(c) \in Nat /\ m <= m + Len(c)
      BY <1>2
    <3> QED BY <1>1, <3>1, Part
  <2>2. (m + Len(c)) - m = Len(c)
    BY <1>2
  <2> QED BY <2>1, <2>2
<1>6. PICK i \in 0..Len(t) - 1 : p[i] = m
  <2>1. c[1] \notin 128..191
    <3>1. 0 \in 0..Len(u) - 1 /\ q[0] + 1 = 1
      BY <1>2, <1>3
    <3>2. c[1] = CharBytes(u[0 + 1])[1] /\ u[0 + 1] \in Character
      BY <3>1, CharacterAt
    <3>3. CharBytes(u[0 + 1])[1] < 128 \/ CharBytes(u[0 + 1])[1] >= 192
      BY <3>2, CharBytesFacts
    <3>4. c[1] \in Int
      BY <1>2, <1>4
    <3>5. c[1] < 128 \/ c[1] >= 192
      BY <3>2, <3>3
    <3>6. PICK x : x = c[1]
      OBVIOUS
    <3>7. x \in Int /\ (x < 128 \/ x >= 192)
      BY <3>4, <3>5, <3>6
    <3>8. x \notin 128..191
      BY <3>7
    <3> QED BY <3>6, <3>8
  <2>2. b[m + 1] = c[1] /\ m + 1 \in 1..Len(b)
    BY <1>1, <1>2, <1>4, <1>5
  <2>3. PICK i \in 0..Len(t) - 1 : m + 1 = p[i] + 1
    <3>1. PICK x : x = m + 1
      OBVIOUS
    <3>2. x \in 1..Len(b) /\ b[x] \notin 128..191
      BY <2>1, <2>2, <3>1
    <3>3. StartsAt(t, p, x)
      BY <3>2, LeadStarts
    <3> QED BY <3>1, <3>3 DEF StartsAt
  <2>4. p[i] \in Nat
    BY <1>1, <2>3
  <2> QED BY <2>3, <2>4
<1>7. i \in Nat /\ i + 0 = i
  BY <1>1
<1>s. PICK S : S = {k \in Nat : k <= Len(u) => Matches(t, u, p, q, m, i, k)}
  OBVIOUS
<1>8. 0 \in S
  <2>1. Matches(t, u, p, q, m, i, 0)
    BY <1>1, <1>2, <1>6, <1>7 DEF Matches
  <2> QED BY <1>s, <2>1
<1>9. ASSUME NEW k \in Nat, k \in S PROVE k + 1 \in S
  <2> SUFFICES ASSUME k + 1 <= Len(u) PROVE Matches(t, u, p, q, m, i, k + 1)
    BY <1>s
  <2>1. Matches(t, u, p, q, m, i, k)
    BY <1>2, <1>9, <1>s
  <2> QED BY <1>5, <1>7, <2>1, MoreMatches
<1>10. Matches(t, u, p, q, m, i, Len(u))
  <2>1. Len(u) \in S
    BY <1>2, <1>8, <1>9, SetInduction
  <2> QED BY <1>2, <1>s, <2>1
<1>11. /\ i + Len(u) <= Len(t) /\ p[i + Len(u)] = m + Len(c)
       /\ \A l \in 1..Len(u) : t[i + l] = u[l]
  BY <1>2, <1>10 DEF Matches
<1>12. SubSeq(t, i + 1, i + Len(u)) = u
  <2>1. PICK d : d = SubSeq(t, i + 1, i + Len(u))
    OBVIOUS
  <2>2. i + Len(u) \in Nat /\ i <= i + Len(u) /\ (i + Len(u)) - i = Len(u)
    BY <1>2, <1>7
  <2>3. d \in Seq(Character) /\ Len(d) = Len(u) /\ \A k \in 1..Len(u) : d[k] = t[i + k]
    BY <1>1, <1>7, <1>11, <2>1, <2>2, Part
  <2> QED BY <1>2, <1>11, <2>1, <2>3, SeqEqual
<1>13. i \in 0..Len(t) - Len(u)
  BY <1>1, <1>2, <1>7, <1>11
<1> QED BY <1>6, <1>11, <1>12, <1>13 DEF FoundAt

\* And the other way round.
LEMMA MatchedBack ==
  ASSUME NEW b, NEW t, NEW p, Encoding(b, t, p), NEW c, NEW u, NEW q, Encoding(c, u, q),
         NEW i \in 0..Len(t) - Len(u), SubSeq(t, i + 1, i + Len(u)) = u
  PROVE  /\ p[i] \in Nat /\ p[i] + Len(c) <= Len(b) /\ p[i + Len(u)] = p[i] + Len(c)
         /\ SubSeq(b, p[i] + 1, p[i] + Len(c)) = c
<1>1. /\ t \in Seq(Character) /\ b \in Seq(Int) /\ Len(t) \in Nat /\ Len(b) \in Nat
      /\ p \in [0..Len(t) -> Nat] /\ p[Len(t)] = Len(b)
      /\ \A x, y \in 0..Len(t) : x <= y => p[x] <= p[y]
  BY EncodingFacts
<1>2. u \in Seq(Character) /\ Len(u) \in Nat /\ c \in Seq(Int) /\ Len(c) \in Nat
  BY EncodingFacts
<1>3. PICK j : j = i + Len(u)
  OBVIOUS
<1>4. i \in 0..Len(t) /\ j \in i..Len(t) /\ j \in 0..Len(t) /\ i <= j /\ Len(t) \in 0..Len(t)
      /\ j <= Len(t)
  BY <1>1, <1>2, <1>3
<1>5. GetBytes(u) = SubSeq(b, p[i] + 1, p[j])
  <2>1. GetBytes(SubSeq(t, i + 1, j)) = SubSeq(b, p[i] + 1, p[j])
    BY <1>4, BytesSlice
  <2>2. SubSeq(t, i + 1, j) = u
    BY <1>3
  <2> QED BY <2>1, <2>2
<1>6. c = SubSeq(b, p[i] + 1, p[j])
  BY <1>5, EncodingUnique
<1>7. p[i] \in Nat /\ p[j] \in Nat /\ p[i] <= p[j] /\ p[j] <= Len(b)
  BY <1>1, <1>4
<1>8. Len(c) = p[j] - p[i]
  <2>1. PICK e, f : e = p[i] /\ f = p[j]
    OBVIOUS
  <2>2. Len(SubSeq(b, e + 1, f)) = f - e
    <3>1. b \in Seq(Int) /\ e \in Nat /\ f \in Nat /\ e <= f /\ f <= Len(b)
      BY <1>1, <1>7, <2>1
    <3> QED BY <3>1, Part
  <2> QED BY <1>6, <2>1, <2>2
<1>9. p[j] = p[i] + Len(c)
  BY <1>2, <1>7, <1>8
<1> QED BY <1>3, <1>6, <1>7, <1>9

\* part is in s at position i.
Holds(s, part, i) == SubSeq(s, i + 1, i + Len(part)) = part

\* What a search finds: nothing, or the first place.
LEMMA FindFacts ==
  ASSUME NEW s, NEW part, NEW start \in Nat, Len(s) \in Nat, Len(part) \in Nat
  PROVE  \/ /\ FindFrom(s, part, start) = -1
            /\ \A i \in start..Len(s) - Len(part) : ~Holds(s, part, i)
         \/ /\ FindFrom(s, part, start) \in start..Len(s) - Len(part)
            /\ Holds(s, part, FindFrom(s, part, start))
            /\ \A i \in start..Len(s) - Len(part) :
                 Holds(s, part, i) => FindFrom(s, part, start) <= i
<1>1. PICK found : found = {i \in start..Len(s) - Len(part) : Holds(s, part, i)}
  OBVIOUS
<1>2. FindFrom(s, part, start) =
        IF found = {} THEN -1 ELSE CHOOSE i \in found : \A j \in found : i <= j
  BY <1>1 DEF FindFrom, Holds
<1>3. CASE found = {}
  BY <1>1, <1>2, <1>3
<1>4. CASE found # {}
  <2>1. found \in SUBSET Nat
    BY <1>1
  <2>2. \E i \in found : \A j \in found : i <= j
    BY <1>4, <2>1, LeastNat
  <2>3. PICK r : r = CHOOSE i \in found : \A j \in found : i <= j
    OBVIOUS
  <2>4. r \in found /\ \A j \in found : r <= j
    BY <2>2, <2>3
  <2>5. FindFrom(s, part, start) = r
    BY <1>2, <1>4, <2>3
  <2>6. r \in start..Len(s) - Len(part) /\ Holds(s, part, r)
    BY <1>1, <2>4
  <2>7. \A i \in start..Len(s) - Len(part) : Holds(s, part, i) => r <= i
    BY <1>1, <2>4
  <2> QED BY <2>5, <2>6, <2>7
<1> QED BY <1>3, <1>4

\* To search the bytes finds what to search the text finds.
LEMMA FindAgrees ==
  ASSUME NEW b, NEW t, NEW p, Encoding(b, t, p), NEW c, NEW u, NEW q, Encoding(c, u, q),
         u # <<>>, NEW j \in 0..Len(t)
  PROVE  \/ FindFrom(t, u, j) = -1 /\ FindFrom(b, c, p[j]) = -1
         \/ /\ FindFrom(t, u, j) \in j..Len(t) - Len(u)
            /\ FindFrom(b, c, p[j]) = p[FindFrom(t, u, j)]
            /\ p[FindFrom(t, u, j) + Len(u)] = p[FindFrom(t, u, j)] + Len(c)
            /\ Holds(t, u, FindFrom(t, u, j))
<1>1. /\ Len(t) \in Nat /\ Len(b) \in Nat /\ p \in [0..Len(t) -> Nat] /\ t \in Seq(Character)
      /\ \A x, y \in 0..Len(t) : (x < y => p[x] < p[y]) /\ (x <= y => p[x] <= p[y])
  BY EncodingFacts
<1>2. Len(u) \in Nat /\ Len(c) \in Nat
  BY EncodingFacts
<1>3. j \in Nat /\ p[j] \in Nat
  BY <1>1
<1>4. ASSUME NEW m \in p[j]..Len(b) - Len(c), Holds(b, c, m)
      PROVE  \E i \in j..Len(t) - Len(u) : Holds(t, u, i) /\ p[i] = m
  <2>1. m \in Nat /\ m + Len(c) <= Len(b)
    BY <1>1, <1>2, <1>3
  <2>2. SubSeq(b, m + 1, m + Len(c)) = c
    BY <1>4 DEF Holds
  <2>0. PICK i : FoundAt(t, u, p, c, m, i)
    BY <2>1, <2>2, Matched
  <2>3. /\ i \in 0..Len(t) - Len(u) /\ p[i] = m /\ p[i + Len(u)] = m + Len(c)
        /\ SubSeq(t, i + 1, i + Len(u)) = u
    BY <2>0 DEF FoundAt
  <2>4. i \in 0..Len(t)
    BY <1>1, <1>2, <2>3
  <2>5. i >= j
    <3> SUFFICES ASSUME i < j PROVE FALSE
      BY <1>1, <2>4
    <3>1. p[i] < p[j]
      BY <1>1, <2>4
    <3> QED BY <1>1, <1>2, <1>3, <2>3, <3>1
  <2>6. i \in j..Len(t) - Len(u)
    BY <1>1, <1>2, <1>3, <2>3, <2>5
  <2> QED BY <2>3, <2>6 DEF Holds
<1>5. ASSUME NEW i \in j..Len(t) - Len(u), Holds(t, u, i)
      PROVE  /\ p[i] \in p[j]..Len(b) - Len(c) /\ Holds(b, c, p[i])
             /\ p[i + Len(u)] = p[i] + Len(c)
  <2>1. i \in 0..Len(t) - Len(u) /\ i \in 0..Len(t) /\ j <= i
    BY <1>1, <1>2, <1>3
  <2>2. SubSeq(t, i + 1, i + Len(u)) = u
    BY <1>5 DEF Holds
  <2>3. /\ p[i] \in Nat /\ p[i] + Len(c) <= Len(b) /\ p[i + Len(u)] = p[i] + Len(c)
        /\ SubSeq(b, p[i] + 1, p[i] + Len(c)) = c
    BY <2>1, <2>2, MatchedBack
  <2>4. p[j] <= p[i]
    BY <1>1, <2>1
  <2>5. p[i] \in p[j]..Len(b) - Len(c)
    <3>1. PICK x, y : x = p[i] /\ y = p[j]
      OBVIOUS
    <3>2. x \in Nat /\ y \in Nat /\ y <= x /\ x + Len(c) <= Len(b)
      BY <1>3, <2>3, <2>4, <3>1
    <3>3. x \in y..Len(b) - Len(c)
      BY <1>1, <1>2, <3>2
    <3> QED BY <3>1, <3>3
  <2> QED BY <2>3, <2>5 DEF Holds
<1>6. PICK r, f : r = FindFrom(t, u, j) /\ f = FindFrom(b, c, p[j])
  OBVIOUS
<1>7. \/ r = -1 /\ \A i \in j..Len(t) - Len(u) : ~Holds(t, u, i)
      \/ /\ r \in j..Len(t) - Len(u) /\ Holds(t, u, r)
         /\ \A i \in j..Len(t) - Len(u) : Holds(t, u, i) => r <= i
  BY <1>1, <1>2, <1>3, <1>6, FindFacts
<1>8. \/ f = -1 /\ \A m \in p[j]..Len(b) - Len(c) : ~Holds(b, c, m)
      \/ /\ f \in p[j]..Len(b) - Len(c) /\ Holds(b, c, f)
         /\ \A m \in p[j]..Len(b) - Len(c) : Holds(b, c, m) => f <= m
  BY <1>1, <1>2, <1>3, <1>6, FindFacts
<1>9. CASE r = -1 /\ \A i \in j..Len(t) - Len(u) : ~Holds(t, u, i)
  <2>1. f = -1
    BY <1>4, <1>8, <1>9
  <2> QED BY <1>6, <1>9, <2>1
<1>10. CASE /\ r \in j..Len(t) - Len(u) /\ Holds(t, u, r)
            /\ \A i \in j..Len(t) - Len(u) : Holds(t, u, i) => r <= i
  <2>1. /\ p[r] \in p[j]..Len(b) - Len(c) /\ Holds(b, c, p[r])
        /\ p[r + Len(u)] = p[r] + Len(c)
    BY <1>5, <1>10
  <2>2. /\ f \in p[j]..Len(b) - Len(c) /\ Holds(b, c, f) /\ f <= p[r]
    BY <1>8, <2>1
  <2>3. PICK i \in j..Len(t) - Len(u) : Holds(t, u, i) /\ p[i] = f
    BY <1>4, <2>2
  <2>4. r <= i
    BY <1>10, <2>3
  <2>5. i \in 0..Len(t) /\ r \in 0..Len(t)
    BY <1>1, <1>2, <1>3, <1>10, <2>3
  <2>6. p[r] <= p[i] /\ p[r] \in Nat /\ p[i] \in Nat
    BY <1>1, <2>4, <2>5
  <2>7. f = p[r]
    BY <2>2, <2>3, <2>6
  <2> QED BY <1>6, <1>10, <2>1, <2>7
<1> QED BY <1>7, <1>9, <1>10

-----------------------------------------------------------------------------
(***************************************************************************)
(* The walks over the bytes, and Replace, are recursions too.              *)
(***************************************************************************)
\* f follows a recursion from hi down to lo, but not below k: it ends in Stop, with
\* base, and goes on elsewhere, with step, from a later place.
Recurs(f, lo, hi, k, V, Stop, next, base, step) ==
  /\ f \in [lo..hi -> V]
  /\ \A i \in lo..hi : i >= k => f[i] = IF i \in Stop THEN base[i] ELSE step[i][f[next[i]]]

\* A recursion that goes up ends: there is a function that follows it.
LEMMA UpwardRecursion ==
  ASSUME NEW lo \in Nat, NEW hi \in Nat, NEW V, NEW Stop, NEW next, NEW base, NEW step,
         V # {},
         \A i \in lo..hi : IF i \in Stop THEN base[i] \in V
                           ELSE next[i] \in i + 1..hi /\ \A v \in V : step[i][v] \in V
  PROVE  \E f : Recurs(f, lo, hi, lo, V, Stop, next, base, step)
<1>s. PICK S : S = {k \in Nat : \E f : Recurs(f, lo, hi, hi + 1 - k, V, Stop, next, base, step)}
  OBVIOUS
<1>1. 0 \in S
  <2>1. PICK v \in V : TRUE
    OBVIOUS
  <2>2. PICK f : f = [i \in lo..hi |-> v]
    OBVIOUS
  <2>3. f \in [lo..hi -> V] /\ \A i \in lo..hi : ~(i >= hi + 1 - 0)
    BY <2>2
  <2>4. Recurs(f, lo, hi, hi + 1 - 0, V, Stop, next, base, step)
    BY <2>3 DEF Recurs
  <2> QED BY <1>s, <2>4
<1>2. ASSUME NEW n \in Nat, n \in S PROVE n + 1 \in S
  <2>1. PICK k \in Int : k = hi + 1 - (n + 1)
    OBVIOUS
  <2>2. PICK f : Recurs(f, lo, hi, hi + 1 - n, V, Stop, next, base, step)
    BY <1>2, <1>s
  <2>3. hi + 1 - n = k + 1
    BY <2>1
  <2>4. /\ f \in [lo..hi -> V]
        /\ \A i \in lo..hi : i >= k + 1 =>
             f[i] = IF i \in Stop THEN base[i] ELSE step[i][f[next[i]]]
    BY <2>2, <2>3 DEF Recurs
  <2>5. PICK v : v = IF k \in Stop THEN base[k] ELSE step[k][f[next[k]]]
    OBVIOUS
  <2>6. PICK g : g = [i \in lo..hi |-> IF i = k THEN v ELSE f[i]]
    OBVIOUS
  <2>7. ASSUME NEW i \in lo..hi, i \notin Stop, i >= k
        PROVE  next[i] \in lo..hi /\ next[i] # k
    <3>1. next[i] \in i + 1..hi
      BY <2>7
    <3> QED BY <2>7, <3>1
  <2>8. k \in lo..hi => v \in V
    <3> SUFFICES ASSUME k \in lo..hi PROVE v \in V
      OBVIOUS
    <3>1. CASE k \in Stop
      BY <2>5, <3>1
    <3>2. CASE k \notin Stop
      <4>1. next[k] \in lo..hi
        BY <2>7, <3>2
      <4>2. f[next[k]] \in V
        BY <2>4, <4>1
      <4> QED BY <2>5, <3>2, <4>2
    <3> QED BY <3>1, <3>2
  <2>9. /\ g \in [lo..hi -> V] /\ \A i \in lo..hi : g[i] = IF i = k THEN v ELSE f[i]
    BY <2>4, <2>6, <2>8
  <2>10. ASSUME NEW i \in lo..hi, i >= k
         PROVE  g[i] = IF i \in Stop THEN base[i] ELSE step[i][g[next[i]]]
    <3>1. i \notin Stop => g[next[i]] = f[next[i]]
      BY <2>7, <2>9, <2>10
    <3>2. CASE i = k
      BY <2>5, <2>9, <3>1, <3>2
    <3>3. CASE i # k
      <4>1. i >= k + 1
        BY <2>10, <3>3
      <4> QED BY <2>4, <2>9, <3>1, <3>3, <4>1
    <3> QED BY <3>2, <3>3
  <2>11. Recurs(g, lo, hi, hi + 1 - (n + 1), V, Stop, next, base, step)
    BY <2>1, <2>9, <2>10 DEF Recurs
  <2> QED BY <1>s, <2>11
<1>3. hi + 1 \in S
  <2>1. Nat \subseteq S
    BY <1>1, <1>2, SetInduction
  <2> QED BY <2>1
<1>4. PICK f : Recurs(f, lo, hi, hi + 1 - (hi + 1), V, Stop, next, base, step)
  BY <1>3, <1>s
<1>5. Recurs(f, lo, hi, lo, V, Stop, next, base, step)
  <2>1. \A i \in lo..hi : i >= hi + 1 - (hi + 1)
    OBVIOUS
  <2> QED BY <1>4, <2>1 DEF Recurs
<1> QED BY <1>5

LEMMA LengthRange == \A x : SequenceLength(x) \in 1..4
BY DEF SequenceLength

\* The walk that counts the characters.
Counts(f, b) ==
  f = [i \in 1..Len(b) + 4 |-> IF i > Len(b) THEN 0 ELSE 1 + f[i + SequenceLength(b[i])]]

LEMMA CountDefined ==
  ASSUME NEW b, Len(b) \in Nat
  PROVE  \E f : Counts(f, b) /\ Utf8Length(b) = f[1]
<1>n. PICK n \in Nat : n = Len(b)
  OBVIOUS
<1>1. PICK next, base, step, Stop :
        /\ next = [i \in 1..n + 4 |-> i + SequenceLength(b[i])]
        /\ base = [i \in 1..n + 4 |-> 0]
        /\ step = [i \in 1..n + 4 |-> [v \in Nat |-> 1 + v]]
        /\ Stop = {i \in 1..n + 4 : i > n}
  OBVIOUS
<1>2. \A i \in 1..n + 4 : IF i \in Stop THEN base[i] \in Nat
                          ELSE next[i] \in i + 1..n + 4 /\ \A v \in Nat : step[i][v] \in Nat
  <2> SUFFICES ASSUME NEW i \in 1..n + 4, i \notin Stop
               PROVE  next[i] \in i + 1..n + 4 /\ \A v \in Nat : step[i][v] \in Nat
    BY <1>1
  <2>1. next[i] = i + SequenceLength(b[i]) /\ i <= n
    BY <1>1
  <2>2. PICK l \in 1..4 : l = SequenceLength(b[i])
    BY LengthRange
  <2>3. next[i] \in i + 1..n + 4
    BY <2>1, <2>2
  <2>4. \A v \in Nat : step[i][v] \in Nat
    BY <1>1
  <2> QED BY <2>3, <2>4
<1>3. PICK f : Recurs(f, 1, n + 4, 1, Nat, Stop, next, base, step)
  <2>1. n + 4 \in Nat /\ 1 \in Nat /\ Nat # {}
    OBVIOUS
  <2> QED BY <1>2, <2>1, UpwardRecursion
<1>4. f \in [1..n + 4 -> Nat]
  BY <1>3 DEF Recurs
<1>5. ASSUME NEW i \in 1..n + 4
      PROVE  f[i] = IF i > n THEN 0 ELSE 1 + f[i + SequenceLength(b[i])]
  <2>1. f[i] = IF i \in Stop THEN base[i] ELSE step[i][f[next[i]]]
    BY <1>3 DEF Recurs
  <2>2. CASE i > n
    BY <1>1, <2>1, <2>2
  <2>3. CASE ~(i > n)
    <3>1. i \notin Stop /\ next[i] = i + SequenceLength(b[i]) /\ next[i] \in i + 1..n + 4
      BY <1>1, <1>2, <2>3
    <3>2. f[next[i]] \in Nat
      <4>1. next[i] \in 1..n + 4
        BY <3>1
      <4> QED BY <1>4, <4>1
    <3>3. step[i][f[next[i]]] = 1 + f[next[i]]
      BY <1>1, <3>2
    <3> QED BY <2>1, <2>3, <3>1, <3>3
  <2> QED BY <2>2, <2>3
<1>6. Counts(f, b)
  <2>1. PICK g : g = [i \in 1..n + 4 |-> IF i > n THEN 0 ELSE 1 + f[i + SequenceLength(b[i])]]
    OBVIOUS
  <2>2. g = f
    BY <1>4, <1>5, <2>1
  <2> QED BY <1>n, <2>1, <2>2 DEF Counts
<1> DEFINE C == CHOOSE g : g = [i \in 1..Len(b) + 4 |->
                   IF i > Len(b) THEN 0 ELSE 1 + g[i + SequenceLength(b[i])]]
<1>7. Counts(C, b)
  BY <1>6 DEF Counts
<1>8. Utf8Length(b) = C[1]
  BY DEF Utf8Length
<1> HIDE DEF C
<1> QED BY <1>7, <1>8

\* Walking the bytes counts the characters.
LEMMA LengthAgrees ==
  ASSUME NEW b, NEW t, NEW p, Encoding(b, t, p)
  PROVE  Utf8Length(b) = Len(t)
<1>1. /\ Len(t) \in Nat /\ Len(b) \in Nat /\ p \in [0..Len(t) -> Nat] /\ p[0] = 0
      /\ p[Len(t)] = Len(b)
  BY EncodingFacts
<1>2. PICK f : Counts(f, b) /\ Utf8Length(b) = f[1]
  BY <1>1, CountDefined
<1>3. f = [i \in 1..Len(b) + 4 |-> IF i > Len(b) THEN 0 ELSE 1 + f[i + SequenceLength(b[i])]]
  BY <1>2 DEF Counts
<1>s. PICK S : S = {k \in Nat : k <= Len(t) => f[p[Len(t) - k] + 1] = k}
  OBVIOUS
<1>4. 0 \in S
  <2>1. Len(b) + 1 \in 1..Len(b) + 4 /\ Len(b) + 1 > Len(b) /\ Len(t) - 0 = Len(t)
    BY <1>1
  <2>2. f[Len(b) + 1] = 0
    BY <1>3, <2>1
  <2> QED BY <1>1, <1>s, <2>1, <2>2
<1>5. ASSUME NEW k \in Nat, k \in S PROVE k + 1 \in S
  <2> SUFFICES ASSUME k + 1 <= Len(t) PROVE f[p[Len(t) - (k + 1)] + 1] = k + 1
    BY <1>s
  <2>1. PICK i : i = Len(t) - (k + 1)
    OBVIOUS
  <2>2. i \in 0..Len(t) - 1 /\ i + 1 = Len(t) - k /\ k <= Len(t)
    BY <1>1, <2>1
  <2>3. /\ p[i] + 1 \in 1..Len(b)
        /\ (p[i] + 1) + SequenceLength(b[p[i] + 1]) = p[i + 1] + 1
    BY <2>2, CharacterAt
  <2>4. f[p[i + 1] + 1] = k
    BY <1>5, <1>s, <2>2
  <2>5. p[i] + 1 \in 1..Len(b) + 4 /\ ~(p[i] + 1 > Len(b))
    BY <1>1, <2>3
  <2>6. f[p[i] + 1] = 1 + f[p[i + 1] + 1]
    BY <1>3, <2>3, <2>5
  <2>7. f[p[i] + 1] = k + 1
    BY <2>4, <2>6
  <2> QED BY <2>1, <2>7
<1>6. Len(t) \in S
  BY <1>1, <1>4, <1>5, SetInduction
<1>7. f[p[0] + 1] = Len(t)
  <2>1. Len(t) - Len(t) = 0
    BY <1>1
  <2> QED BY <1>1, <1>6, <1>s, <2>1
<1> QED BY <1>1, <1>2, <1>7

\* f holds where the first n steps of a walk over b come, from the first byte.
Walk(f, b, n) ==
  /\ f \in [0..n -> Nat]
  /\ \A i \in 0..n : f[i] = IF i = 0 THEN 1 ELSE IF f[i - 1] > Len(b) THEN f[i - 1]
                            ELSE f[i - 1] + SequenceLength(b[f[i - 1]])

LEMMA WalkExists ==
  ASSUME NEW b, Len(b) \in Nat, NEW n \in Nat
  PROVE  \E f : Walk(f, b, n)
<1>s. PICK S : S = {k \in Nat : \E f : Walk(f, b, k)}
  OBVIOUS
<1>1. 0 \in S
  <2>1. PICK f : f = [i \in 0..0 |-> 1]
    OBVIOUS
  <2>2. Walk(f, b, 0)
    BY <2>1 DEF Walk
  <2> QED BY <1>s, <2>2
<1>2. ASSUME NEW k \in Nat, k \in S PROVE k + 1 \in S
  <2>1. PICK f : Walk(f, b, k)
    BY <1>2, <1>s
  <2>2. /\ f \in [0..k -> Nat]
        /\ \A i \in 0..k : f[i] = IF i = 0 THEN 1 ELSE IF f[i - 1] > Len(b) THEN f[i - 1]
                                  ELSE f[i - 1] + SequenceLength(b[f[i - 1]])
    BY <2>1 DEF Walk
  <2>3. PICK x : x = f[k]
    OBVIOUS
  <2>4. x \in Nat
    BY <2>2, <2>3
  <2>5. PICK l \in 1..4 : l = SequenceLength(b[x])
    BY LengthRange
  <2>6. PICK y \in Nat : y = IF x > Len(b) THEN x ELSE x + l
    BY <2>4
  <2>7. PICK g : g = [i \in 0..k + 1 |-> IF i = k + 1 THEN y ELSE f[i]]
    OBVIOUS
  <2>8. g \in [0..k + 1 -> Nat] /\ g[k + 1] = y /\ \A i \in 0..k : g[i] = f[i]
    BY <2>2, <2>7
  <2>9. ASSUME NEW i \in 0..k + 1
        PROVE  g[i] = IF i = 0 THEN 1 ELSE IF g[i - 1] > Len(b) THEN g[i - 1]
                      ELSE g[i - 1] + SequenceLength(b[g[i - 1]])
    <3>1. CASE i = k + 1
      <4>1. i # 0 /\ i - 1 = k /\ g[k] = x
        BY <2>3, <2>8, <3>1
      <4> QED BY <2>5, <2>6, <2>8, <3>1, <4>1
    <3>2. CASE i # k + 1
      <4>1. i \in 0..k /\ (i # 0 => i - 1 \in 0..k)
        BY <3>2
      <4> QED BY <2>2, <2>8, <4>1
    <3> QED BY <3>1, <3>2
  <2>10. Walk(g, b, k + 1)
    BY <2>8, <2>9 DEF Walk
  <2> QED BY <1>s, <2>10
<1>3. n \in S
  BY <1>1, <1>2, SetInduction
<1> QED BY <1>3, <1>s

\* What CharAt makes of the byte where its walk ends.
ShownAt(b, i) ==
  IF i > Len(b) THEN -1 ELSE IF DecodeAt(b, i) <= 65535 THEN DecodeAt(b, i) ELSE Replacement

LEMMA CharAtWalks ==
  ASSUME NEW b, Len(b) \in Nat, NEW n \in Nat
  PROVE  \E f : Walk(f, b, n) /\ CharAt(b, n) = ShownAt(b, f[n])
<1>1. PICK f : Walk(f, b, n)
  BY WalkExists
<1>2. /\ f \in [0..n -> Nat]
      /\ \A i \in 0..n : f[i] = IF i = 0 THEN 1 ELSE IF f[i - 1] > Len(b) THEN f[i - 1]
                                ELSE f[i - 1] + SequenceLength(b[f[i - 1]])
  BY <1>1 DEF Walk
<1>3. f = [i \in 0..n |-> IF i = 0 THEN 1 ELSE IF f[i - 1] > Len(b) THEN f[i - 1]
                          ELSE f[i - 1] + SequenceLength(b[f[i - 1]])]
  <2>1. PICK g : g = [i \in 0..n |-> IF i = 0 THEN 1 ELSE IF f[i - 1] > Len(b) THEN f[i - 1]
                          ELSE f[i - 1] + SequenceLength(b[f[i - 1]])]
    OBVIOUS
  <2>2. g = f
    BY <1>2, <2>1
  <2> QED BY <2>1, <2>2
<1> DEFINE G == CHOOSE g : g = [i \in 0..n |->
                  IF i = 0 THEN 1 ELSE IF g[i - 1] > Len(b) THEN g[i - 1]
                  ELSE g[i - 1] + SequenceLength(b[g[i - 1]])]
<1>4. G = [i \in 0..n |-> IF i = 0 THEN 1 ELSE IF G[i - 1] > Len(b) THEN G[i - 1]
                          ELSE G[i - 1] + SequenceLength(b[G[i - 1]])]
  <2>1. \E g : g = [i \in 0..n |-> IF i = 0 THEN 1 ELSE IF g[i - 1] > Len(b) THEN g[i - 1]
                                   ELSE g[i - 1] + SequenceLength(b[g[i - 1]])]
    BY <1>3
  <2> QED BY <2>1
<1>5. CharAt(b, n) = IF n < 0 \/ G[n] > Len(b) THEN -1
                     ELSE IF DecodeAt(b, G[n]) <= 65535 THEN DecodeAt(b, G[n]) ELSE Replacement
  BY DEF CharAt
<1> HIDE DEF G
<1>6. CharAt(b, n) = ShownAt(b, G[n])
  <2>1. ~(n < 0)
    OBVIOUS
  <2> QED BY <1>5, <2>1 DEF ShownAt
<1>s. PICK S : S = {i \in Nat : i <= n => G[i] = f[i]}
  OBVIOUS
<1>7. 0 \in S
  <2>1. G[0] = 1
    BY <1>4
  <2>2. f[0] = 1
    BY <1>2
  <2> QED BY <1>s, <2>1, <2>2
<1>8. ASSUME NEW i \in Nat, i \in S PROVE i + 1 \in S
  <2> SUFFICES ASSUME i + 1 <= n PROVE G[i + 1] = f[i + 1]
    BY <1>s
  <2>1. i + 1 \in 0..n /\ i + 1 # 0 /\ (i + 1) - 1 = i
    OBVIOUS
  <2>2. G[i] = f[i]
    BY <1>8, <1>s
  <2>3. G[i + 1] = IF G[i] > Len(b) THEN G[i] ELSE G[i] + SequenceLength(b[G[i]])
    BY <1>4, <2>1
  <2>4. f[i + 1] = IF f[i] > Len(b) THEN f[i] ELSE f[i] + SequenceLength(b[f[i]])
    BY <1>2, <2>1
  <2> QED BY <2>2, <2>3, <2>4
<1>9. G[n] = f[n]
  <2>1. n \in S
    BY <1>7, <1>8, SetInduction
  <2> QED BY <1>s, <2>1
<1> QED BY <1>1, <1>6, <1>9

\* Indexing the bytes finds the characters, and nothing after the last.
LEMMA CharAtAgrees ==
  ASSUME NEW b, NEW t, NEW p, Encoding(b, t, p), NEW n \in 0..Len(t)
  PROVE  CharAt(b, n) = IF n = Len(t) THEN -1
                        ELSE IF t[n + 1] <= 65535 THEN t[n + 1] ELSE Replacement
<1>1. /\ Len(t) \in Nat /\ Len(b) \in Nat /\ p \in [0..Len(t) -> Nat] /\ p[0] = 0
      /\ p[Len(t)] = Len(b)
  BY EncodingFacts
<1>2. n \in Nat /\ n <= Len(t)
  BY <1>1
<1>3. PICK f : Walk(f, b, n) /\ CharAt(b, n) = ShownAt(b, f[n])
  BY <1>1, <1>2, CharAtWalks
<1>4. \A i \in 0..n : f[i] = IF i = 0 THEN 1 ELSE IF f[i - 1] > Len(b) THEN f[i - 1]
                             ELSE f[i - 1] + SequenceLength(b[f[i - 1]])
  BY <1>3 DEF Walk
<1>s. PICK S : S = {i \in Nat : i <= n => f[i] = p[i] + 1}
  OBVIOUS
<1>5. 0 \in S
  <2>1. 0 \in 0..n
    BY <1>2
  <2>2. f[0] = 1
    BY <1>4, <2>1
  <2> QED BY <1>1, <1>s, <2>2
<1>6. ASSUME NEW i \in Nat, i \in S PROVE i + 1 \in S
  <2> SUFFICES ASSUME i + 1 <= n PROVE f[i + 1] = p[i + 1] + 1
    BY <1>s
  <2>1. i + 1 \in 0..n /\ i + 1 # 0 /\ (i + 1) - 1 = i /\ i \in 0..Len(t) - 1 /\ i <= n
    BY <1>1, <1>2
  <2>2. f[i] = p[i] + 1
    BY <1>6, <1>s, <2>1
  <2>3. p[i] + 1 \in 1..Len(b) /\ (p[i] + 1) + SequenceLength(b[p[i] + 1]) = p[i + 1] + 1
    BY <2>1, CharacterAt
  <2>4. ~(f[i] > Len(b))
    BY <1>1, <2>2, <2>3
  <2>5. f[i + 1] = f[i] + SequenceLength(b[f[i]])
    BY <1>4, <2>1, <2>4
  <2> QED BY <2>2, <2>3, <2>5
<1>7. f[n] = p[n] + 1
  <2>1. n \in S
    BY <1>2, <1>5, <1>6, SetInduction
  <2> QED BY <1>2, <1>s, <2>1
<1>8. CASE n = Len(t)
  <2>1. f[n] > Len(b)
    BY <1>1, <1>7, <1>8
  <2> QED BY <1>3, <1>8, <2>1 DEF ShownAt
<1>9. CASE n # Len(t)
  <2>1. n \in 0..Len(t) - 1
    BY <1>1, <1>2, <1>9
  <2>2. p[n] + 1 \in 1..Len(b) /\ DecodeAt(b, p[n] + 1) = t[n + 1]
    BY <2>1, CharacterAt
  <2>3. ~(f[n] > Len(b)) /\ DecodeAt(b, f[n]) = t[n + 1]
    BY <1>1, <1>7, <2>2
  <2> QED BY <1>3, <1>9, <2>3 DEF ShownAt
<1> QED BY <1>8, <1>9

\* f holds what Replace makes of s from each place on.
Replaces(f, s, old, new) ==
  f = [start \in 0..Len(s) |->
         IF FindFrom(s, old, start) = -1 THEN SubSeq(s, start + 1, Len(s))
         ELSE SubSeq(s, start + 1, FindFrom(s, old, start)) \o new
                \o f[FindFrom(s, old, start) + Len(old)]]

LEMMA ReplaceDefined ==
  ASSUME NEW T, NEW s \in Seq(T), NEW old \in Seq(T), NEW new \in Seq(T), old # <<>>
  PROVE  \E f \in [0..Len(s) -> Seq(T)] : Replaces(f, s, old, new) /\ Replace(s, old, new) = f[0]
<1>n. PICK n, m \in Nat : n = Len(s) /\ m = Len(old)
  OBVIOUS
<1>m. m >= 1
  BY <1>n
<1>h. PICK h : h = [i \in 0..n |-> FindFrom(s, old, i)]
  OBVIOUS
<1>g. \A i \in 0..n : h[i] = FindFrom(s, old, i)
  BY <1>h
<1>1. \A i \in 0..n : h[i] = -1 \/ h[i] \in i..n - m
  <2> SUFFICES ASSUME NEW i \in 0..n PROVE h[i] = -1 \/ h[i] \in i..n - m
    OBVIOUS
  <2>1. i \in Nat
    OBVIOUS
  <2>2. FindFrom(s, old, i) = -1 \/ FindFrom(s, old, i) \in i..Len(s) - Len(old)
    BY <1>n, <2>1, FindFacts
  <2> QED BY <1>n, <1>g, <2>2
<1>2. PICK next, base, step, Stop :
        /\ next = [i \in 0..n |-> h[i] + m]
        /\ base = [i \in 0..n |-> SubSeq(s, i + 1, n)]
        /\ step = [i \in 0..n |-> [v \in Seq(T) |-> SubSeq(s, i + 1, h[i]) \o new \o v]]
        /\ Stop = {i \in 0..n : h[i] = -1}
  OBVIOUS
<1>3. ASSUME NEW i \in 0..n
      PROVE  IF i \in Stop THEN base[i] \in Seq(T)
             ELSE next[i] \in i + 1..n /\ \A v \in Seq(T) : step[i][v] \in Seq(T)
  <2>1. CASE i \in Stop
    <3>1. SubSeq(s, i + 1, n) \in Seq(T)
      BY <1>n, Part
    <3> QED BY <1>2, <2>1, <3>1
  <2>2. CASE i \notin Stop
    <3>1. h[i] \in i..n - m
      BY <1>1, <1>2, <2>2
    <3>2. next[i] \in i + 1..n
      <4>1. next[i] = h[i] + m
        BY <1>2
      <4> QED BY <1>m, <3>1, <4>1
    <3>3. SubSeq(s, i + 1, h[i]) \in Seq(T)
      <4>1. h[i] \in Nat /\ i \in Nat /\ i <= h[i] /\ h[i] <= Len(s)
        BY <1>n, <3>1
      <4> QED BY <4>1, Part
    <3>4. ASSUME NEW v \in Seq(T) PROVE step[i][v] \in Seq(T)
      <4>1. step[i][v] = SubSeq(s, i + 1, h[i]) \o new \o v
        BY <1>2
      <4>2. SubSeq(s, i + 1, h[i]) \o new \in Seq(T)
        BY <3>3, ConcatProperties
      <4>3. (SubSeq(s, i + 1, h[i]) \o new) \o v \in Seq(T)
        BY <4>2, ConcatProperties
      <4> QED BY <4>1, <4>3
    <3> QED BY <2>2, <3>2, <3>4
  <2> QED BY <2>1, <2>2
<1>4. PICK f : Recurs(f, 0, n, 0, Seq(T), Stop, next, base, step)
  <2>1. 0 \in Nat /\ Seq(T) # {}
    OBVIOUS
  <2> QED BY <1>3, <2>1, UpwardRecursion
<1>5. f \in [0..n -> Seq(T)]
  BY <1>4 DEF Recurs
<1>6. ASSUME NEW i \in 0..n
      PROVE  f[i] = IF FindFrom(s, old, i) = -1 THEN SubSeq(s, i + 1, n)
                    ELSE SubSeq(s, i + 1, FindFrom(s, old, i)) \o new
                           \o f[FindFrom(s, old, i) + m]
  <2>1. f[i] = IF i \in Stop THEN base[i] ELSE step[i][f[next[i]]]
    BY <1>4 DEF Recurs
  <2>2. CASE h[i] = -1
    BY <1>2, <1>g, <2>1, <2>2
  <2>3. CASE h[i] # -1
    <3>1. i \notin Stop /\ next[i] = h[i] + m
      BY <1>2, <2>3
    <3>2. f[next[i]] \in Seq(T)
      <4>1. next[i] \in 0..n
        BY <1>3, <3>1
      <4> QED BY <1>5, <4>1
    <3>3. step[i][f[next[i]]] = SubSeq(s, i + 1, h[i]) \o new \o f[next[i]]
      BY <1>2, <3>2
    <3> QED BY <1>g, <2>1, <2>3, <3>1, <3>3
  <2> QED BY <2>2, <2>3
<1>7. Replaces(f, s, old, new)
  <2>1. PICK e : e = [i \in 0..n |-> IF FindFrom(s, old, i) = -1 THEN SubSeq(s, i + 1, n)
                    ELSE SubSeq(s, i + 1, FindFrom(s, old, i)) \o new
                           \o f[FindFrom(s, old, i) + m]]
    OBVIOUS
  <2>2. e = f
    BY <1>5, <1>6, <2>1
  <2> QED BY <1>n, <2>1, <2>2 DEF Replaces
<1> DEFINE G == CHOOSE g : g = [start \in 0..Len(s) |->
         IF FindFrom(s, old, start) = -1 THEN SubSeq(s, start + 1, Len(s))
         ELSE SubSeq(s, start + 1, FindFrom(s, old, start)) \o new
                \o g[FindFrom(s, old, start) + Len(old)]]
<1>8. Replaces(G, s, old, new)
  BY <1>7 DEF Replaces
<1>9. Replace(s, old, new) = G[0]
  BY DEF Replace
<1> HIDE DEF G
<1>10. G = [i \in 0..n |->
         IF FindFrom(s, old, i) = -1 THEN SubSeq(s, i + 1, n)
         ELSE SubSeq(s, i + 1, FindFrom(s, old, i)) \o new \o G[FindFrom(s, old, i) + m]]
  BY <1>8, <1>n DEF Replaces
<1>s. PICK S : S = {k \in Nat : \A i \in 0..n : i >= n - k => G[i] = f[i]}
  OBVIOUS
<1>11. ASSUME NEW i \in 0..n, \A j \in 0..n : j > i => G[j] = f[j]
       PROVE  G[i] = f[i]
  <2>1. G[i] = IF FindFrom(s, old, i) = -1 THEN SubSeq(s, i + 1, n)
               ELSE SubSeq(s, i + 1, FindFrom(s, old, i)) \o new \o G[FindFrom(s, old, i) + m]
    BY <1>10
  <2>2. CASE h[i] = -1
    BY <1>6, <1>g, <2>1, <2>2
  <2>3. CASE h[i] # -1
    <3>1. h[i] \in i..n - m
      BY <1>1, <2>3
    <3>2. h[i] + m \in 0..n /\ h[i] + m > i
      BY <1>m, <3>1
    <3>3. G[h[i] + m] = f[h[i] + m]
      BY <1>11, <3>2
    <3> QED BY <1>6, <1>g, <2>1, <2>3, <3>3
  <2> QED BY <2>2, <2>3
<1>12. 0 \in S
  <2>1. \A i \in 0..n : i >= n - 0 => \A j \in 0..n : ~(j > i)
    OBVIOUS
  <2> QED BY <1>11, <1>s, <2>1
<1>13. ASSUME NEW k \in Nat, k \in S PROVE k + 1 \in S
  <2> SUFFICES ASSUME NEW i \in 0..n, i >= n - (k + 1) PROVE G[i] = f[i]
    BY <1>s
  <2>1. \A j \in 0..n : j > i => G[j] = f[j]
    <3>1. \A j \in 0..n : j > i => j >= n - k
      OBVIOUS
    <3> QED BY <1>13, <1>s, <3>1
  <2> QED BY <1>11, <2>1
<1>14. G[0] = f[0]
  <2>1. n \in S
    BY <1>12, <1>13, SetInduction
  <2>2. 0 \in 0..n /\ 0 >= n - n
    OBVIOUS
  <2> QED BY <1>s, <2>1, <2>2
<1> QED BY <1>5, <1>7, <1>9, <1>14, <1>n

LEMMA SomeBytes ==
  ASSUME NEW c, NEW u, NEW q, Encoding(c, u, q), u # <<>>
  PROVE  c # <<>> /\ Len(c) >= 1 /\ Len(u) >= 1
<1>1. /\ u \in Seq(Character) /\ c \in Seq(Int) /\ Len(u) \in Nat /\ Len(c) \in Nat
      /\ q \in [0..Len(u) -> Nat] /\ q[0] = 0 /\ q[Len(u)] = Len(c)
      /\ \A x, y \in 0..Len(u) : x < y => q[x] < q[y]
  BY EncodingFacts
<1>2. Len(u) >= 1
  BY <1>1
<1>3. 0 \in 0..Len(u) /\ Len(u) \in 0..Len(u) /\ 0 < Len(u)
  BY <1>1, <1>2
<1>4. Len(c) >= 1
  BY <1>1, <1>3
<1> QED BY <1>1, <1>2, <1>4

LEMMA Widened ==
  ASSUME NEW C \in SUBSET Character, NEW t \in Seq(C)
  PROVE  t \in Seq(Character)
BY SeqMonotonic

\* To replace bytes gives the bytes of what replacing characters gives.
LEMMA ReplaceAgrees ==
  ASSUME NEW C \in SUBSET Character, NEW t \in Seq(C), NEW u \in Seq(C), NEW new \in Seq(C),
         u # <<>>
  PROVE  /\ Replace(t, u, new) \in Seq(C)
         /\ Replace(GetBytes(t), GetBytes(u), GetBytes(new)) = GetBytes(Replace(t, u, new))
<1>b. PICK b, c, d : b = GetBytes(t) /\ c = GetBytes(u) /\ d = GetBytes(new)
  OBVIOUS
<1>t. t \in Seq(Character) /\ u \in Seq(Character) /\ new \in Seq(Character)
  BY Widened
<1>p. PICK p : Encoding(b, t, p)
  BY <1>b, <1>t, GetBytesEncodes
<1>q. PICK q : Encoding(c, u, q)
  BY <1>b, <1>t, GetBytesEncodes
<1>d. d \in Seq(Int)
  BY <1>b, <1>t, Encoded
<1>1. /\ Len(t) \in Nat /\ Len(b) \in Nat /\ p \in [0..Len(t) -> Nat] /\ p[0] = 0
      /\ p[Len(t)] = Len(b) /\ b \in Seq(Int)
      /\ \A x, y \in 0..Len(t) : x <= y => p[x] <= p[y]
  BY <1>p, EncodingFacts
<1>2. c \in Seq(Int) /\ Len(c) \in Nat /\ Len(u) \in Nat
  BY <1>q, EncodingFacts
<1>3. c # <<>> /\ Len(c) >= 1 /\ Len(u) >= 1
  BY <1>q, SomeBytes
<1>4. PICK f \in [0..Len(t) -> Seq(C)] : Replaces(f, t, u, new) /\ Replace(t, u, new) = f[0]
  BY ReplaceDefined
<1>5. PICK g \in [0..Len(b) -> Seq(Int)] : Replaces(g, b, c, d) /\ Replace(b, c, d) = g[0]
  BY <1>1, <1>2, <1>3, <1>d, ReplaceDefined
<1>6. ASSUME NEW j \in 0..Len(t)
      PROVE  f[j] = IF FindFrom(t, u, j) = -1 THEN SubSeq(t, j + 1, Len(t))
                    ELSE SubSeq(t, j + 1, FindFrom(t, u, j)) \o new
                           \o f[FindFrom(t, u, j) + Len(u)]
  BY <1>4 DEF Replaces
<1>7. ASSUME NEW j \in 0..Len(b)
      PROVE  g[j] = IF FindFrom(b, c, j) = -1 THEN SubSeq(b, j + 1, Len(b))
                    ELSE SubSeq(b, j + 1, FindFrom(b, c, j)) \o d
                           \o g[FindFrom(b, c, j) + Len(c)]
  BY <1>5 DEF Replaces
<1>8. ASSUME NEW j \in 0..Len(t), \A k \in 0..Len(t) : k > j => g[p[k]] = GetBytes(f[k])
      PROVE  g[p[j]] = GetBytes(f[j])
  <2>1. Len(t) \in j..Len(t) /\ Len(t) \in 0..Len(t) /\ j \in Nat /\ j <= Len(t)
    BY <1>1
  <2>2. p[j] \in 0..Len(b) /\ p[j] \in Nat
    <3>1. p[j] \in Nat /\ p[j] <= p[Len(t)]
      BY <1>1, <2>1
    <3> QED BY <1>1, <3>1
  <2>3. PICK r, s : r = FindFrom(t, u, j) /\ s = FindFrom(b, c, p[j])
    OBVIOUS
  <2>4. \/ r = -1 /\ s = -1
        \/ /\ r \in j..Len(t) - Len(u) /\ s = p[r] /\ p[r + Len(u)] = p[r] + Len(c)
    BY <1>p, <1>q, <2>3, FindAgrees
  <2>5. CASE r = -1 /\ s = -1
    <3>1. f[j] = SubSeq(t, j + 1, Len(t))
      BY <1>6, <2>3, <2>5
    <3>2. g[p[j]] = SubSeq(b, p[j] + 1, Len(b))
      BY <1>7, <2>2, <2>3, <2>5
    <3>3. GetBytes(SubSeq(t, j + 1, Len(t))) = SubSeq(b, p[j] + 1, p[Len(t)])
      BY <1>p, <2>1, BytesSlice
    <3> QED BY <1>1, <3>1, <3>2, <3>3
  <2>6. CASE r \in j..Len(t) - Len(u) /\ s = p[r] /\ p[r + Len(u)] = p[r] + Len(c)
    <3>0. r # -1 /\ r \in j..Len(t) /\ r \in 0..Len(t) /\ r + Len(u) \in 0..Len(t)
          /\ r + Len(u) > j
      BY <1>1, <1>2, <1>3, <2>1, <2>6
    <3>s. s # -1 /\ s \in Nat
      BY <1>1, <2>6, <3>0
    <3>1. PICK x, y : x = SubSeq(t, j + 1, r) /\ y = f[r + Len(u)]
      OBVIOUS
    <3>2. x \in Seq(Character) /\ GetBytes(x) = SubSeq(b, p[j] + 1, p[r])
      BY <1>p, <3>0, <3>1, BytesSlice
    <3>3. y \in Seq(Character)
      <4>1. y \in Seq(C)
        BY <1>4, <3>0, <3>1
      <4> QED BY <4>1, Widened
    <3>4. f[j] = x \o new \o y
      BY <1>6, <2>3, <3>0, <3>1
    <3>5. g[p[j]] = GetBytes(x) \o d \o g[s + Len(c)]
      BY <1>7, <2>2, <2>3, <2>6, <3>2, <3>s
    <3>6. g[s + Len(c)] = GetBytes(y)
      <4>1. s + Len(c) = p[r + Len(u)]
        BY <2>6
      <4> QED BY <1>8, <3>0, <3>1, <4>1
    <3>7. GetBytes(x \o new) = GetBytes(x) \o d /\ x \o new \in Seq(Character)
      BY <1>b, <1>t, <3>2, BytesConcat, ConcatProperties
    <3>8. GetBytes((x \o new) \o y) = (GetBytes(x) \o d) \o GetBytes(y)
      BY <3>3, <3>7, BytesConcat
    <3> QED BY <3>4, <3>5, <3>6, <3>8
  <2> QED BY <2>4, <2>5, <2>6
<1>s. PICK S : S = {k \in Nat : \A j \in 0..Len(t) : j >= Len(t) - k => g[p[j]] = GetBytes(f[j])}
  OBVIOUS
<1>9. 0 \in S
  <2>1. \A j \in 0..Len(t) : j >= Len(t) - 0 => \A k \in 0..Len(t) : ~(k > j)
    BY <1>1
  <2> QED BY <1>8, <1>s, <2>1
<1>10. ASSUME NEW k \in Nat, k \in S PROVE k + 1 \in S
  <2> SUFFICES ASSUME NEW j \in 0..Len(t), j >= Len(t) - (k + 1) PROVE g[p[j]] = GetBytes(f[j])
    BY <1>s
  <2>1. \A i \in 0..Len(t) : i > j => g[p[i]] = GetBytes(f[i])
    <3>1. \A i \in 0..Len(t) : i > j => i >= Len(t) - k
      BY <1>1
    <3> QED BY <1>10, <1>s, <3>1
  <2> QED BY <1>8, <2>1
<1>11. g[p[0]] = GetBytes(f[0])
  <2>1. Len(t) \in S
    BY <1>1, <1>9, <1>10, SetInduction
  <2>2. 0 \in 0..Len(t) /\ 0 >= Len(t) - Len(t)
    BY <1>1
  <2> QED BY <1>s, <2>1, <2>2
<1>12. Replace(b, c, d) = GetBytes(Replace(t, u, new))
  BY <1>1, <1>4, <1>5, <1>11
<1>13. Replace(t, u, new) \in Seq(C)
  BY <1>1, <1>4
<1> QED BY <1>12, <1>13, <1>b

-----------------------------------------------------------------------------
(***************************************************************************)
(* UTF-8 loses nothing, so that a conversion back exists.                  *)
(***************************************************************************)
LEMMA SameBytes ==
  ASSUME NEW t \in Seq(Character), NEW u \in Seq(Character), GetBytes(t) = GetBytes(u)
  PROVE  t = u
<1>1. PICK b : b = GetBytes(t) /\ b = GetBytes(u)
  OBVIOUS
<1>p. PICK p : Encoding(b, t, p)
  BY <1>1, GetBytesEncodes
<1>q. PICK q : Encoding(b, u, q)
  BY <1>1, GetBytesEncodes
<1>2. /\ Len(t) \in Nat /\ Len(b) \in Nat /\ p \in [0..Len(t) -> Nat] /\ p[0] = 0
      /\ p[Len(t)] = Len(b) /\ b \in Seq(Int)
      /\ \A x, y \in 0..Len(t) : x < y => p[x] < p[y]
  BY <1>p, EncodingFacts
<1>3. /\ Len(u) \in Nat /\ q[0] = 0 /\ q[Len(u)] = Len(b)
      /\ \A x, y \in 0..Len(u) : x < y => q[x] < q[y]
  BY <1>q, EncodingFacts
<1>4. CASE u = <<>>
  <2>1. Len(u) = 0 /\ Len(b) = 0
    BY <1>3, <1>4
  <2>2. ~(0 < Len(t))
    <3>1. 0 \in 0..Len(t) /\ Len(t) \in 0..Len(t)
      BY <1>2
    <3>2. ~(p[0] < p[Len(t)])
      BY <1>2, <2>1
    <3> QED BY <1>2, <3>1, <3>2
  <2>3. Len(t) = 0
    BY <1>2, <2>2
  <2> QED BY <1>4, <2>3
<1>5. CASE u # <<>>
  <2>1. SubSeq(b, 0 + 1, 0 + Len(b)) = b /\ 0 + Len(b) <= Len(b)
    <3>1. 0 + 1 = 1 /\ 0 + Len(b) = Len(b) /\ Len(b) <= Len(b)
      BY <1>2
    <3>2. SubSeq(b, 1, Len(b)) = b
      BY <1>2, SubSeqFull
    <3> QED BY <3>1, <3>2
  <2>2. PICK i : FoundAt(t, u, p, b, 0, i)
    BY <1>p, <1>q, <1>5, <2>1, Matched
  <2>3. /\ i \in 0..Len(t) - Len(u) /\ p[i] = 0 /\ p[i + Len(u)] = 0 + Len(b)
        /\ SubSeq(t, i + 1, i + Len(u)) = u
    BY <2>2 DEF FoundAt
  <2>4. i = 0
    <3>1. 0 \in 0..Len(t) /\ i \in 0..Len(t) /\ i \in Nat
      BY <1>2, <1>3, <2>3
    <3>2. ~(p[0] < p[i])
      BY <1>2, <2>3
    <3> QED BY <1>2, <3>1, <3>2
  <2>5. Len(u) = Len(t)
    <3>1. Len(u) \in 0..Len(t) /\ Len(t) \in 0..Len(t) /\ i + Len(u) = Len(u)
      BY <1>2, <1>3, <2>3, <2>4
    <3>2. ~(p[Len(u)] < p[Len(t)])
      <4>1. p[Len(u)] = 0 + Len(b)
        BY <2>3, <3>1
      <4> QED BY <1>2, <4>1
    <3> QED BY <1>2, <1>3, <3>1, <3>2
  <2>6. SubSeq(t, 1, Len(t)) = u
    BY <1>2, <2>3, <2>4, <2>5
  <2>7. SubSeq(t, 1, Len(t)) = t
    BY SubSeqFull
  <2> QED BY <2>6, <2>7
<1> QED BY <1>4, <1>5

\* A text of characters is what its bytes are converted back to: there is a conversion
\* from bytes to text (the one that .NET has, csbind23.types.g.cs:18-39) that undoes
\* GetBytes.
THEOREM Decodable ==
  \E decode : \A t \in Seq(Character) : decode[GetBytes(t)] = t
<1>1. PICK E : E = {GetBytes(t) : t \in Seq(Character)}
  OBVIOUS
<1>2. PICK f : f = [bytes \in E |-> CHOOSE t \in Seq(Character) : GetBytes(t) = bytes]
  OBVIOUS
<1>3. ASSUME NEW t \in Seq(Character) PROVE f[GetBytes(t)] = t
  <2>1. PICK u : u = CHOOSE x \in Seq(Character) : GetBytes(x) = GetBytes(t)
    OBVIOUS
  <2>2. u \in Seq(Character) /\ GetBytes(u) = GetBytes(t)
    BY <2>1
  <2>3. u = t
    BY <2>2, SameBytes
  <2>4. f[GetBytes(t)] = u
    BY <1>1, <1>2, <2>1
  <2> QED BY <2>3, <2>4
<1> QED BY <1>3

-----------------------------------------------------------------------------
(***************************************************************************)
(* The texts of Std.String.                                                *)
(***************************************************************************)
\* The conversions of .NET, for texts of the characters C: UTF-8, as far as the first
\* NUL, and back.
Converts(C) ==
  /\ C \in SUBSET Character /\ Clean \in SUBSET Seq(C)
  /\ \A t \in Clean : ToNative(t) = StringToNative(t)
  /\ \A t \in Seq(C) : ToManaged(GetBytes(t)) = t

\* A std::string holds the encoding of what shows in managed code.
LEMMA ContentEncodes ==
  ASSUME NEW C, Converts(C), TextsClean, NEW o \in Objects, content[o] # Null
  PROVE  \E t \in Clean : /\ content[o] = GetBytes(t) /\ ToManaged(content[o]) = t
                          /\ t \in Seq(C)
<1>1. PICK t \in Clean : content[o] = ToNative(t)
  BY DEF TextsClean
<1>2. C \in SUBSET Character /\ t \in Seq(C)
  BY DEF Converts
<1>3. content[o] = GetBytes(t)
  <2>1. ToNative(t) = StringToNative(t)
    BY DEF Converts
  <2>2. t \in Seq(Character)
    BY <1>2, Widened
  <2> QED BY <1>1, <2>1, <2>2, NativeText
<1>4. ToManaged(GetBytes(t)) = t
  BY <1>2 DEF Converts
<1> QED BY <1>2, <1>3, <1>4

LEMMA IndexerState ==
  ASSUME NEW C, Converts(C), TextsClean
  PROVE  IndexerAgrees
<1> SUFFICES ASSUME NEW o \in Objects, content[o] # Null
             PROVE  /\ Utf8Length(content[o]) = Len(ToManaged(content[o]))
                    /\ \A i \in 1..Len(ToManaged(content[o])) :
                         CharAt(content[o], i - 1) =
                           IF ToManaged(content[o])[i] > 65535 THEN Replacement
                           ELSE ToManaged(content[o])[i]
                    /\ CharAt(content[o], Len(ToManaged(content[o]))) = -1
  BY DEF IndexerAgrees
<1>1. PICK t \in Clean : content[o] = GetBytes(t) /\ ToManaged(content[o]) = t /\ t \in Seq(C)
  BY ContentEncodes
<1>2. t \in Seq(Character)
  <2>1. C \in SUBSET Character
    BY DEF Converts
  <2> QED BY <1>1, <2>1, Widened
<1>3. PICK p : Encoding(content[o], t, p)
  BY <1>1, <1>2, GetBytesEncodes
<1>4. Utf8Length(content[o]) = Len(t)
  BY <1>3, LengthAgrees
<1>5. Len(t) \in Nat /\ Len(t) \in 0..Len(t) /\ \A i \in 1..Len(t) : t[i] \in Nat
  BY <1>2 DEF Character
<1>6. CharAt(content[o], Len(t)) = -1
  BY <1>3, <1>5, CharAtAgrees
<1>7. ASSUME NEW i \in 1..Len(t)
      PROVE  CharAt(content[o], i - 1) = IF t[i] > 65535 THEN Replacement ELSE t[i]
  <2>1. PICK n : n = i - 1
    OBVIOUS
  <2>2. n \in 0..Len(t) /\ n # Len(t) /\ n + 1 = i /\ t[i] \in Nat
    BY <1>5, <2>1
  <2>3. CharAt(content[o], n) = IF n = Len(t) THEN -1
                                ELSE IF t[n + 1] <= 65535 THEN t[n + 1] ELSE Replacement
    BY <1>3, <2>2, CharAtAgrees
  <2> QED BY <2>1, <2>2, <2>3
<1> QED BY <1>1, <1>4, <1>6, <1>7

\* What Substring makes of places that are in the sequence.
LEMMA Cut ==
  ASSUME NEW s, Len(s) \in Nat, NEW start \in Nat, NEW length \in Nat, start + length <= Len(s)
  PROVE  Substring(s, start, length)[1] = SubSeq(s, start + 1, start + length)
BY DEF Substring

\* The parts of a text around one that was found.
LEMMA Around ==
  ASSUME NEW C, NEW t \in Seq(C), NEW u \in Seq(C), NEW i \in 0..Len(t) - Len(u), Holds(t, u, i)
  PROVE  SubSeq(t, 1, i) \o u \o SubSeq(t, i + Len(u) + 1, Len(t)) = t
<1>1. Len(t) \in Nat /\ Len(u) \in Nat
  OBVIOUS
<1>2. PICK j : j = i + Len(u)
  OBVIOUS
<1>3. i \in 0..Len(t) /\ j \in i..Len(t) /\ i \in 1 - 1..Len(t) /\ 1 \in 1..Len(t) + 1
      /\ j \in 1 - 1..Len(t) /\ Len(t) \in j..Len(t)
  BY <1>1, <1>2
<1>4. u = SubSeq(t, i + 1, j)
  BY <1>2 DEF Holds
<1>5. SubSeq(t, 1, i) \o SubSeq(t, i + 1, j) = SubSeq(t, 1, j)
  BY <1>3, ConcatAdjacentSubSeq
<1>6. SubSeq(t, 1, j) \o SubSeq(t, j + 1, Len(t)) = SubSeq(t, 1, Len(t))
  BY <1>3, ConcatAdjacentSubSeq
<1>7. SubSeq(t, 1, Len(t)) = t
  BY SubSeqFull
<1> QED BY <1>2, <1>4, <1>5, <1>6, <1>7

\* What SlicesAgree says of the bytes b of a text t, and the bytes c of the part u.
Sliced(b, t, u, c, found) ==
  /\ found = -1 <=> IndexOf(t, u) = -1
  /\ found # -1 =>
       /\ ToManaged(Substring(b, found, Len(c))[1]) = u
       /\ ToManaged(Substring(b, 0, found)[1]) \o u
            \o ToManaged(Substring(b, found + Len(c), Len(b) - found - Len(c))[1]) = t
  /\ \A new \in Clean : ToManaged(Replace(b, c, ToNative(new))) = Replace(t, u, new)

LEMMA SlicesState ==
  ASSUME NEW C, Converts(C), TextsClean
  PROVE  SlicesAgree
<1>c. C \in SUBSET Character /\ \A x \in Clean : x \in Seq(C) /\ ToNative(x) = GetBytes(x)
  <2>1. C \in SUBSET Character /\ \A x \in Clean : x \in Seq(C) /\ ToNative(x) = StringToNative(x)
    BY DEF Converts
  <2>2. \A x \in Clean : x \in Seq(Character)
    BY <2>1, Widened
  <2> QED BY <2>1, <2>2, NativeText
<1>m. \A x \in Seq(C) : ToManaged(GetBytes(x)) = x
  BY DEF Converts
<1> SUFFICES ASSUME NEW o \in Objects, NEW u \in Clean, content[o] # Null, u # <<>>
             PROVE  Sliced(content[o], ToManaged(content[o]), u, ToNative(u),
                           IndexOf(content[o], ToNative(u)))
  BY DEF SlicesAgree, Sliced
<1>0. PICK b, t, c, found : b = content[o] /\ t = ToManaged(b) /\ c = ToNative(u)
                            /\ found = IndexOf(b, c)
  OBVIOUS
<1> SUFFICES Sliced(b, t, u, c, found)
  BY <1>0
<1>1. b = GetBytes(t) /\ t \in Seq(C)
  BY <1>0, ContentEncodes
<1>2. c = GetBytes(u) /\ u \in Seq(C)
  BY <1>0, <1>c
<1>3. t \in Seq(Character) /\ u \in Seq(Character)
  BY <1>1, <1>2, <1>c, Widened
<1>p. PICK p : Encoding(b, t, p)
  BY <1>1, <1>3, GetBytesEncodes
<1>q. PICK q : Encoding(c, u, q)
  BY <1>2, <1>3, GetBytesEncodes
<1>4. /\ Len(t) \in Nat /\ Len(b) \in Nat /\ p \in [0..Len(t) -> Nat] /\ p[0] = 0
      /\ p[Len(t)] = Len(b) /\ b \in Seq(Int) /\ Len(u) \in Nat /\ Len(c) \in Nat
      /\ \A x, y \in 0..Len(t) : x <= y => p[x] <= p[y]
  BY <1>p, <1>q, EncodingFacts
<1>5. PICK r : r = IndexOf(t, u)
  OBVIOUS
<1>6. \/ r = -1 /\ found = -1
      \/ /\ r \in 0..Len(t) - Len(u) /\ found = p[r] /\ p[r + Len(u)] = p[r] + Len(c)
         /\ Holds(t, u, r)
  <2>1. 0 \in 0..Len(t)
    BY <1>4
  <2>2. \/ FindFrom(t, u, 0) = -1 /\ FindFrom(b, c, p[0]) = -1
        \/ /\ FindFrom(t, u, 0) \in 0..Len(t) - Len(u)
           /\ FindFrom(b, c, p[0]) = p[FindFrom(t, u, 0)]
           /\ p[FindFrom(t, u, 0) + Len(u)] = p[FindFrom(t, u, 0)] + Len(c)
           /\ Holds(t, u, FindFrom(t, u, 0))
    BY <1>p, <1>q, <2>1, FindAgrees
  <2>3. r = FindFrom(t, u, 0) /\ found = FindFrom(b, c, p[0])
    BY <1>0, <1>4, <1>5 DEF IndexOf
  <2> QED BY <2>2, <2>3
<1>n. ASSUME NEW new \in Clean
      PROVE  ToManaged(Replace(b, c, ToNative(new))) = Replace(t, u, new)
  <2>1. new \in Seq(C) /\ ToNative(new) = GetBytes(new)
    BY <1>c
  <2>2. /\ Replace(t, u, new) \in Seq(C)
        /\ Replace(b, c, GetBytes(new)) = GetBytes(Replace(t, u, new))
    BY <1>1, <1>2, <1>c, <2>1, ReplaceAgrees
  <2> QED BY <1>m, <2>1, <2>2
<1>7. CASE r = -1 /\ found = -1
  BY <1>5, <1>7, <1>n DEF Sliced
<1>8. CASE /\ r \in 0..Len(t) - Len(u) /\ found = p[r] /\ p[r + Len(u)] = p[r] + Len(c)
           /\ Holds(t, u, r)
  <2>1. PICK j : j = r + Len(u)
    OBVIOUS
  <2>2. r \in Nat /\ r \in 0..Len(t) /\ j \in 0..Len(t) /\ j \in r..Len(t) /\ r \in 0..Len(t)
        /\ Len(t) \in j..Len(t) /\ Len(t) \in 0..Len(t) /\ 0 \in 0..Len(t)
    BY <1>4, <1>8, <2>1
  <2>3. found \in Nat /\ p[j] = found + Len(c) /\ found + Len(c) <= Len(b)
    <3>1. p[r] \in Nat /\ p[j] <= p[Len(t)]
      BY <1>4, <2>2
    <3> QED BY <1>4, <1>8, <2>1, <3>1
  <2>4. PICK before, after : before = SubSeq(t, 1, r) /\ after = SubSeq(t, j + 1, Len(t))
    OBVIOUS
  <2>5. before \in Seq(C) /\ after \in Seq(C)
    <3>1. SubSeq(t, 0 + 1, r) \in Seq(C)
      BY <1>1, <1>4, <2>2, Part
    <3>2. SubSeq(t, j + 1, Len(t)) \in Seq(C)
      BY <1>1, <1>4, <2>2, Part
    <3> QED BY <2>4, <3>1, <3>2
  <2>6. Substring(b, 0, found)[1] = GetBytes(before)
    <3>1. Substring(b, 0, found)[1] = SubSeq(b, 0 + 1, 0 + found)
      BY <1>4, <2>3, Cut
    <3>2. GetBytes(SubSeq(t, 0 + 1, r)) = SubSeq(b, p[0] + 1, p[r])
      BY <1>p, <2>2, BytesSlice
    <3>3. 0 + 1 = 1 /\ 0 + found = found /\ p[0] + 1 = 1
      BY <1>4, <2>3
    <3>4. Substring(b, 0, found)[1] = SubSeq(b, 1, found)
      BY <3>1, <3>3
    <3>5. GetBytes(before) = SubSeq(b, 1, found)
      BY <1>8, <2>4, <3>2, <3>3
    <3> QED BY <3>4, <3>5
  <2>7. Substring(b, found, Len(c))[1] = c
    <3>0. PICK length : length = Len(c)
      OBVIOUS
    <3>1. Substring(b, found, Len(c))[1] = SubSeq(b, found + 1, found + Len(c))
      <4>1. length \in Nat /\ found + length <= Len(b)
        BY <1>4, <2>3, <3>0
      <4>2. Substring(b, found, length)[1] = SubSeq(b, found + 1, found + length)
        BY <1>4, <2>3, <4>1, Cut
      <4> QED BY <3>0, <4>2
    <3>2. SubSeq(t, r + 1, r + Len(u)) = u
      BY <1>8 DEF Holds
    <3>3. SubSeq(b, p[r] + 1, p[r] + Len(c)) = c
      BY <1>8, <1>p, <1>q, <3>2, MatchedBack
    <3> QED BY <1>8, <3>1, <3>3
  <2>8. Substring(b, found + Len(c), Len(b) - found - Len(c))[1] = GetBytes(after)
    <3>1. PICK start, length : start = found + Len(c) /\ length = Len(b) - found - Len(c)
      OBVIOUS
    <3>2. start \in Nat /\ length \in Nat /\ start + length = Len(b)
      <4>1. PICK n, m : n = Len(b) /\ m = Len(c)
        OBVIOUS
      <4>2. n \in Nat /\ m \in Nat /\ found + m <= n /\ start = found + m
            /\ length = n - found - m
        BY <1>4, <2>3, <3>1, <4>1
      <4>3. start \in Nat /\ length \in Nat /\ start + length = n
        BY <2>3, <4>2
      <4> QED BY <4>1, <4>3
    <3>3. Substring(b, start, length)[1] = SubSeq(b, start + 1, start + length)
      <4>1. Len(b) \in Nat /\ start + length <= Len(b)
        BY <1>4, <3>2
      <4> QED BY <3>2, <4>1, Cut
    <3>4. GetBytes(SubSeq(t, j + 1, Len(t))) = SubSeq(b, p[j] + 1, p[Len(t)])
      BY <1>p, <2>2, BytesSlice
    <3>5. start = p[j] /\ p[Len(t)] = start + length
      BY <1>4, <2>3, <3>1, <3>2
    <3>6. GetBytes(after) = SubSeq(b, start + 1, start + length)
      BY <2>4, <3>4, <3>5
    <3> QED BY <3>1, <3>3, <3>6
  <2>9. before \o u \o after = t
    BY <1>1, <1>2, <1>8, <2>1, <2>4, Around
  <2>10. ToManaged(c) = u /\ ToManaged(GetBytes(before)) = before
         /\ ToManaged(GetBytes(after)) = after
    BY <1>2, <1>m, <2>5
  <2>11. found # -1 /\ r # -1
    BY <2>2, <2>3
  <2>12. /\ ToManaged(Substring(b, found, Len(c))[1]) = u
         /\ ToManaged(Substring(b, 0, found)[1]) \o u
              \o ToManaged(Substring(b, found + Len(c), Len(b) - found - Len(c))[1]) = t
    BY <2>6, <2>7, <2>8, <2>9, <2>10
  <2> QED BY <1>5, <1>n, <2>11, <2>12 DEF Sliced
<1> QED BY <1>6, <1>7, <1>8

\* Indexing in native code and in managed code agree, whatever characters the texts are
\* made of (csbind23/std/string.hpp:82-118).
THEOREM IndexerCorrect ==
  ASSUME KeepsRules, NEW C, Converts(C) PROVE Spec => []IndexerAgrees
<1>1. IInv => IndexerAgrees
  BY IndexerState DEF IInv
<1> QED BY <1>1, StringInductive, PTL

\* No operation of std::string on bytes cuts a character in two, and what it finds,
\* cuts and replaces is what the operation on characters would
\* (csbind23/std/string.hpp:135-215).
THEOREM SlicesCorrect ==
  ASSUME KeepsRules, NEW C, Converts(C) PROVE Spec => []SlicesAgree
<1>1. IInv => SlicesAgree
  BY SlicesState DEF IInv
<1> QED BY <1>1, StringInductive, PTL
=============================================================================
