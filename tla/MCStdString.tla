----------------------------- MODULE MCStdString -----------------------------
(***************************************************************************)
(* Instances of StdString for TLC, with the conversions of Utf8 and texts  *)
(* of characters of one to four bytes.                                     *)
(***************************************************************************)
EXTENDS StdStringText

\* a, e acute, the euro sign and an emoji; NUL and a lone surrogate.
GoodChars == {97, 233, 8364, 128512}

\* Few texts; some concatenations are among them.
MCClean == {<<>>, <<97>>, <<97, 97>>, <<97, 97, 97, 97>>, <<8364, 97>>, <<233, 128512>>}
MCTexts == MCClean \cup {<<0>>, <<97, 0>>, <<55357>>, <<Replacement>>}
AllRules == {"WellFormed", "Exclusive", "NoOwnAppend", "QuietCalls", "Outlive"}

\* Encoding.UTF8.GetString by the definition of UTF-8: bytes that make no character
\* of the instance show as U+FFFD.
GetString(bytes) ==
  LET lead(b) == b < 128 \/ b >= 192
      starts == {i \in 1..Len(bytes) : i = 1 \/ lead(bytes[i])}
      end(i) == CHOOSE j \in i..Len(bytes) :
                  /\ \A k \in i + 1..j : k \notin starts
                  /\ j = Len(bytes) \/ j + 1 \in starts
      char(i) ==
        LET those == {c \in GoodChars \cup {0} : CharBytes(c) = SubSeq(bytes, i, end(i))}
        IN IF those = {} THEN Replacement ELSE CHOOSE c \in those : TRUE
      text[i \in 0..Len(bytes)] ==
        IF i = 0 THEN <<>>
        ELSE IF i \in starts THEN Append(text[i - 1], char(i)) ELSE text[i - 1]
  IN text[Len(bytes)]

MCToNative(text) == StringToNative(text)
MCToManaged(bytes) == GetString(UpToNul(bytes))
=============================================================================
