-------------------------------- MODULE Utf8 --------------------------------
(***************************************************************************)
(* Text on both sides of the border.  Managed text is a sequence of code   *)
(* points (a surrogate pair counts as one, a lone surrogate as itself),    *)
(* native text a sequence of bytes.  std::string is indexed by walking the *)
(* bytes; .NET converts whole texts, and only up to the first NUL.         *)
(***************************************************************************)
EXTENDS Integers, Sequences

NUL == 0
Surrogates == 55296..57343   \* 0xD800..0xDFFF
Replacement == 65533         \* 0xFFFD

Trail(c, unit) == 128 + ((c \div unit) % 64)

\* Encoding.UTF8.GetBytes, which replaces what is not a character.
CharBytes(c) ==
  IF c \in Surrogates THEN <<239, 191, 189>>
  ELSE IF c < 128 THEN <<c>>
  ELSE IF c < 2048 THEN <<192 + (c \div 64), Trail(c, 1)>>
  ELSE IF c < 65536 THEN <<224 + (c \div 4096), Trail(c, 64), Trail(c, 1)>>
  ELSE <<240 + (c \div 262144), Trail(c, 4096), Trail(c, 64), Trail(c, 1)>>

GetBytes(text) ==
  LET bytes[i \in 0..Len(text)] ==
        IF i = 0 THEN <<>> ELSE bytes[i - 1] \o CharBytes(text[i])
  IN bytes[Len(text)]

\* What a `const char*` shows of a sequence.
UpToNul(s) ==
  LET ends == {i \in 1..Len(s) : s[i] = NUL} IN
  IF ends = {} THEN s ELSE SubSeq(s, 1, (CHOOSE i \in ends : \A j \in ends : i <= j) - 1)

StringToNative(text) == UpToNul(GetBytes(text))

-----------------------------------------------------------------------------
(***************************************************************************)
(* The walk over the bytes of a std::string (positions from 1).            *)
(***************************************************************************)
\* Mutant: three-byte sequences are taken for two-byte ones.
SequenceLengthShort(lead) == IF lead < 128 THEN 1 ELSE IF lead < 240 THEN 2 ELSE 4

SequenceLength(lead) ==
  IF lead < 128 THEN 1
  ELSE IF lead \div 32 = 6 THEN 2
  ELSE IF lead \div 16 = 14 THEN 3
  ELSE 4

DecodeAt(bytes, i) ==
  LET low(k) == bytes[i + k] % 64 IN
  IF SequenceLength(bytes[i]) = 1 THEN bytes[i]
  ELSE IF SequenceLength(bytes[i]) = 2 THEN (bytes[i] % 32) * 64 + low(1)
  ELSE IF SequenceLength(bytes[i]) = 3 THEN (bytes[i] % 16) * 4096 + low(1) * 64 + low(2)
  ELSE (bytes[i] % 8) * 262144 + low(1) * 4096 + low(2) * 64 + low(3)

Utf8Length(bytes) ==
  LET count[i \in 1..Len(bytes) + 4] ==
        IF i > Len(bytes) THEN 0 ELSE 1 + count[i + SequenceLength(bytes[i])]
  IN count[1]

\* The UTF-16 unit at an index; -1 stands for std::out_of_range.
CharAt(bytes, index) ==
  LET start[n \in 0..index] ==
        IF n = 0 THEN 1
        ELSE IF start[n - 1] > Len(bytes) THEN start[n - 1]
        ELSE start[n - 1] + SequenceLength(bytes[start[n - 1]])
  IN IF index < 0 \/ start[index] > Len(bytes) THEN -1
     ELSE IF DecodeAt(bytes, start[index]) <= 65535 THEN DecodeAt(bytes, start[index])
     ELSE Replacement

-----------------------------------------------------------------------------
(***************************************************************************)
(* Searching and cutting a std::string, at byte positions from 0.          *)
(***************************************************************************)
FindFrom(s, part, start) ==
  LET found == {i \in start..Len(s) - Len(part) : SubSeq(s, i + 1, i + Len(part)) = part} IN
  IF found = {} THEN -1 ELSE CHOOSE i \in found : \A j \in found : i <= j

IndexOf(s, part) == FindFrom(s, part, 0)

\* <<>> in place of a result stands for std::out_of_range.
Substring(s, start, length) ==
  IF length < 0 \/ start \notin 0..Len(s) \/ length > Len(s) - start
    THEN <<>> ELSE <<SubSeq(s, start + 1, start + length)>>

\* Mutant: the search goes on one byte after the match.
ReplaceByByte(s, old, new) ==
  LET from[start \in 0..Len(s)] ==
        LET i == FindFrom(s, old, start) IN
        IF i = -1 THEN SubSeq(s, start + 1, Len(s))
        ELSE SubSeq(s, start + 1, i) \o new \o from[i + 1]
  IN IF old = <<>> THEN s ELSE from[0]

\* What was put in is not searched again.
Replace(s, old, new) ==
  LET from[start \in 0..Len(s)] ==
        LET i == FindFrom(s, old, start) IN
        IF i = -1 THEN SubSeq(s, start + 1, Len(s))
        ELSE SubSeq(s, start + 1, i) \o new \o from[i + Len(old)]
  IN IF old = <<>> THEN s ELSE from[0]
=============================================================================
