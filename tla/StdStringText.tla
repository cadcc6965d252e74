---------------------------- MODULE StdStringText ----------------------------
(***************************************************************************)
(* What native and managed code see of the same std::string: the bytes     *)
(* that the native functions index, search and cut are UTF-8, and the      *)
(* managed text is what the bytes stand for.                               *)
(***************************************************************************)
EXTENDS StdString, Utf8

\* Indexing a std::string by character in native code finds what its managed text
\* shows there, and as many characters (csbind23/std/string.hpp:82-118), for any mix
\* of characters of one to four bytes; those outside the BMP show as U+FFFD.
IndexerAgrees ==
  \A o \in Objects : content[o] # Null =>
    LET text == ToManaged(content[o]) IN
    /\ Utf8Length(content[o]) = Len(text)
    /\ \A i \in 1..Len(text) :
         CharAt(content[o], i - 1) = IF text[i] > 65535 THEN Replacement ELSE text[i]
    /\ CharAt(content[o], Len(text)) = -1

\* Search, cut and replace work on bytes (csbind23/std/string.hpp:135-215): where a
\* text is found, no character is cut in two, before it, in it or after it, and to
\* replace it gives what replacing characters gives.
SlicesAgree ==
  \A o \in Objects, part \in Clean : content[o] # Null /\ part # <<>> =>
    LET bytes == content[o]
        text == ToManaged(bytes)
        found == IndexOf(bytes, ToNative(part))
        cut == Len(ToNative(part))
    IN
    /\ found = -1 <=> IndexOf(text, part) = -1
    /\ found # -1 =>
         LET before == Substring(bytes, 0, found)
             inside == Substring(bytes, found, cut)
             after == Substring(bytes, found + cut, Len(bytes) - found - cut)
         IN /\ ToManaged(inside[1]) = part
            /\ ToManaged(before[1]) \o part \o ToManaged(after[1]) = text
    /\ \A new \in Clean :
         ToManaged(Replace(bytes, ToNative(part), ToNative(new))) = Replace(text, part, new)
=============================================================================
