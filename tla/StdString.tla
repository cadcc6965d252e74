------------------------------ MODULE StdString ------------------------------
(***************************************************************************)
(* Std.String, the wrapper of std::string, keeps the text of a string that *)
(* it owns in a managed cache.  The cache must follow what the wrapper     *)
(* itself does, what native functions do to a string that is passed to     *)
(* them by reference or pointer, and never be used for a borrowed string,  *)
(* which native code may change at any time.  Conversions are parameters:  *)
(* ToNative makes the bytes of a std::string, ToManaged a managed string.  *)
(***************************************************************************)
EXTENDS Integers, Sequences

CONSTANTS
  Wrappers, Objects,      \* Std.String objects; addresses of std::string objects
  Static,                 \* the addresses that native code owns
  Texts, Clean,           \* managed texts; those that survive the conversions
  ToNative(_), ToManaged(_),
  Null,
  Rules                   \* the rules of use that the program keeps

ASSUME StaticAssumption == Static \subseteq Objects
ASSUME CleanAssumption == Clean \subseteq Texts /\ Texts \subseteq Seq(Int) /\ <<>> \in Clean
ASSUME NullAssumption == Null \notin Objects /\ Null \notin Seq(Int)
ASSUME RulesAssumption ==
  Rules \subseteq {"WellFormed", "Exclusive", "NoOwnAppend", "QuietCalls", "Outlive"}
ASSUME ConversionAssumption ==
  /\ ToNative(<<>>) = <<>>
  /\ \A t \in Texts : ToNative(t) \in Seq(Int)
  /\ \A t \in Clean : ToManaged(ToNative(t)) = t
  /\ \A t, u \in Clean :
       /\ ToNative(t \o u) = ToNative(t) \o ToNative(u)
       /\ ToManaged(ToNative(t) \o ToNative(u)) = t \o u
       /\ t \o u \in Texts => t \o u \in Clean

VARIABLES
  content,   \* the bytes of each std::string, Null where there is none
  wrapper,   \* the wrappers
  lent       \* wrappers passed by mutable reference to the native call that runs

vars == <<content, wrapper, lent>>

\* `cache` is _managedCache, or Null when it is not valid.
Wrapper == [object : Objects \cup {Null}, owned : BOOLEAN, cache : Texts \cup {Null}]
NoWrapper == [object |-> Null, owned |-> FALSE, cache |-> Null]

Live(w) == wrapper[w].object # Null

Text(w) == content[wrapper[w].object]

Init ==
  /\ content = [o \in Objects |-> IF o \in Static THEN <<>> ELSE Null]
  /\ wrapper = [w \in Wrappers |-> NoWrapper]
  /\ lent = {}

\* The texts that the program writes.
Written == IF "WellFormed" \in Rules THEN Clean ELSE Texts

\* ToString: what the wrapper shows.  It fills the cache of an owned string.
Shown(w, bytes) ==
  IF wrapper[w].owned /\ wrapper[w].cache # Null THEN wrapper[w].cache ELSE ToManaged(bytes)

\* The cache of w is t from now on, if w may have one.
Cached(w, t) == [wrapper EXCEPT ![w].cache = IF wrapper[w].owned THEN t ELSE Null]

-----------------------------------------------------------------------------
\* The default constructor, which neither fills nor validates the cache.
New(w, o) ==
  /\ ~Live(w) /\ content[o] = Null
  /\ content' = [content EXCEPT ![o] = <<>>]
  /\ wrapper' = [wrapper EXCEPT ![w] = [object |-> o, owned |-> TRUE, cache |-> Null]]
  /\ UNCHANGED lent

\* String(string): the default constructor, and then Set.  A result by value, a
\* clone and a concatenation are made this way, of a text that was converted.
NewText(w, o, t) ==
  /\ ~Live(w) /\ content[o] = Null
  /\ content' = [content EXCEPT ![o] = ToNative(t)]
  /\ wrapper' = [wrapper EXCEPT ![w] = [object |-> o, owned |-> TRUE, cache |-> t]]
  /\ UNCHANGED lent

\* A reference or a pointer that a native function returns: to a string of its own,
\* or, unless strings are exclusive, to one it was given.
FromBorrowedHandle(w, o) ==
  /\ ~Live(w) /\ content[o] # Null
  /\ "Exclusive" \in Rules => o \in Static
  /\ wrapper' = [wrapper EXCEPT ![w] = [object |-> o, owned |-> FALSE, cache |-> Null]]
  /\ UNCHANGED <<content, lent>>

\* No native call works on the string of w, and no other wrapper refers to it if w
\* is its owner.
Unused(w) ==
  /\ \A l \in lent : wrapper[l].object # wrapper[w].object
  /\ wrapper[w].owned => \A v \in Wrappers \ {w} : wrapper[v].object # wrapper[w].object

\* The generated Dispose, which looks at none of this, by the program or the finalizer.
Dispose(w) ==
  /\ Live(w)
  /\ "Outlive" \in Rules => Unused(w)
  /\ content' = IF wrapper[w].owned THEN [content EXCEPT ![wrapper[w].object] = Null]
                ELSE content
  /\ wrapper' = [wrapper EXCEPT ![w] = NoWrapper]
  /\ UNCHANGED lent

-----------------------------------------------------------------------------
\* Set, and Clear for the empty text: assign_utf8, then UpdateManagedCacheAfterSet.
Set(w, t) ==
  /\ Live(w)
  /\ content' = [content EXCEPT ![wrapper[w].object] = ToNative(t)]
  /\ wrapper' = Cached(w, t)
  /\ UNCHANGED lent

\* UpdateManagedCacheAfterAppend, for the text t and the bytes after the append.
AfterAppend(w, t, bytes) ==
  Cached(w, IF wrapper[w].cache # Null THEN wrapper[w].cache \o t ELSE ToManaged(bytes))

\* Mutant: the cache is brought up to date before the append and after it.
AppendTwice(w, t) ==
  /\ Live(w)
  /\ LET bytes == Text(w) \o ToNative(t) IN
     /\ ToManaged(bytes) \in Texts /\ AfterAppend(w, t, bytes)[w].cache \in Texts \cup {Null}
     /\ content' = [content EXCEPT ![wrapper[w].object] = bytes]
     /\ wrapper' = AfterAppend(w, t \o t, bytes)
  /\ UNCHANGED lent

\* Append(string).  Texts bounds what may come out of it.
Append_Text(w, t) ==
  /\ Live(w)
  /\ LET bytes == Text(w) \o ToNative(t) IN
     /\ ToManaged(bytes) \in Texts /\ AfterAppend(w, t, bytes)[w].cache \in Texts \cup {Null}
     /\ content' = [content EXCEPT ![wrapper[w].object] = bytes]
     /\ wrapper' = AfterAppend(w, t, bytes)
  /\ UNCHANGED lent

\* Append(String): the native append, then value.ToString(), which fills the cache
\* of value, and then the update of the own cache.  Strings are for one thread, and
\* nothing that the append calls comes back to it: no step runs between the two reads
\* of value.
Append_String(w, value) ==
  /\ Live(w) /\ Live(value)
  /\ "NoOwnAppend" \in Rules => wrapper[w].object # wrapper[value].object
  /\ "QuietCalls" \in Rules => value \notin lent
  /\ LET bytes == Text(w) \o Text(value)
         after == IF wrapper[w].object = wrapper[value].object THEN bytes ELSE Text(value)
         shown == Shown(value, after)
         filled == Cached(value, shown)
         old == filled[w].cache
     IN
     /\ ToManaged(bytes) \in Texts /\ shown \in Texts
     /\ old # Null => old \o shown \in Texts
     /\ content' = [content EXCEPT ![wrapper[w].object] = bytes]
     /\ wrapper' = [filled EXCEPT ![w].cache =
          IF ~wrapper[w].owned THEN Null
          ELSE IF old # Null THEN old \o shown ELSE ToManaged(bytes)]
  /\ UNCHANGED lent

\* ToString, and every operation that looks at the managed text.
SnapshotManaged(w) ==
  /\ Live(w)
  /\ wrapper' = Cached(w, Shown(w, Text(w)))
  /\ UNCHANGED <<content, lent>>

-----------------------------------------------------------------------------
(***************************************************************************)
(* A native function with a std::string& or std::string* parameter.  Other *)
(* operations may run meanwhile, in callbacks.                             *)
(***************************************************************************)
Lend(w) ==
  /\ Live(w) /\ w \notin lent
  /\ lent' = lent \cup {w}
  /\ UNCHANGED <<content, wrapper>>

\* Native code changes a string of its own or one it was given; unless strings are
\* exclusive it may have kept the address of any.
NativeWrite(o, t) ==
  /\ content[o] # Null
  /\ "Exclusive" \in Rules => o \in Static \cup {wrapper[w].object : w \in lent}
  /\ content' = [content EXCEPT ![o] = ToNative(t)]
  /\ UNCHANGED <<wrapper, lent>>

\* Mutant: the marshaller of a const reference is used.
OnInvokedNothing(w) ==
  /\ w \in lent
  /\ lent' = lent \ {w}
  /\ UNCHANGED <<content, wrapper>>

\* OnInvoked, when the call returns: InvalidateManagedCache, which throws for a string
\* that was disposed meanwhile.
OnInvoked(w) ==
  /\ w \in lent
  /\ wrapper' = IF Live(w) THEN [wrapper EXCEPT ![w].cache = Null] ELSE wrapper
  /\ lent' = lent \ {w}
  /\ UNCHANGED content

-----------------------------------------------------------------------------
Next ==
  \/ \E w \in Wrappers, o \in Objects \ Static :
       New(w, o) \/ \E t \in Written : NewText(w, o, t)
  \/ \E w \in Wrappers, o \in Objects : FromBorrowedHandle(w, o)
  \/ \E w \in Wrappers : \/ Dispose(w) \/ SnapshotManaged(w) \/ Lend(w) \/ OnInvoked(w)
                         \/ \E t \in Written : Set(w, t) \/ Append_Text(w, t)
                         \/ \E v \in Wrappers : Append_String(w, v)
  \/ \E o \in Objects, t \in Written : NativeWrite(o, t)

Spec == Init /\ [][Next]_vars

-----------------------------------------------------------------------------
TypeOK ==
  /\ content \in [Objects -> Seq(Int) \cup {Null}]
  /\ wrapper \in [Wrappers -> Wrapper]
  /\ lent \subseteq Wrappers

\* A valid cache shows what the std::string holds: it is not stale after anything
\* that the wrapper, another wrapper or a native call did, and text is appended to
\* it once (csbind23_stl.String.partial.cs:76-95, 160-171).  While a native call works
\* on the string by reference the cache is not known to be current.
CacheCoherent ==
  \A w \in Wrappers :
    Live(w) /\ w \notin lent /\ wrapper[w].cache # Null => wrapper[w].cache = ToManaged(Text(w))

\* Why the cache is coherent.  Every text on either side survives the conversions;
\* an owned string has one wrapper, only owned strings are cached, and what is lent
\* stays.
TextsClean ==
  /\ \A o \in Objects : content[o] # Null => \E t \in Clean : content[o] = ToNative(t)
  /\ \A w \in Wrappers : wrapper[w].cache \in Clean \cup {Null}

OneOwner ==
  \A w \in Wrappers : Live(w) =>
    /\ content[wrapper[w].object] # Null
    /\ wrapper[w].owned <=> wrapper[w].object \notin Static
    /\ wrapper[w].owned =>
         \A v \in Wrappers \ {w} : wrapper[v].object # wrapper[w].object

OwnedCached == \A w \in Wrappers : wrapper[w].cache # Null => Live(w) /\ wrapper[w].owned

LentLive == \A w \in lent : Live(w)

IInv == TypeOK /\ LentLive /\ TextsClean /\ OneOwner /\ OwnedCached /\ CacheCoherent
=============================================================================
