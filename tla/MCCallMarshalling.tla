-------------------------- MODULE MCCallMarshalling --------------------------
EXTENDS MarshallingInvariant, TLC

MCForeign == Cells + 1

\* Two arrays of one count, of which the second is copied back; two texts and
\* a text result; a pinned array whose count a buffered one shares, and an array
\* result; a reference to an array.
Signatures ==
  {[args |-> <<"array", "inout">>, result |-> "plain", shared |-> TRUE],
   [args |-> <<"text", "text">>, result |-> "text", shared |-> FALSE],
   [args |-> <<"pinned", "inout">>, result |-> "array", shared |-> TRUE],
   [args |-> <<>>, result |-> "reference", shared |-> FALSE]}

MCCalls == [t \in Threads |-> Signatures]

MCCallbacks ==
  {[args |-> <<"plain">>, result |-> "text"], [args |-> <<"value">>, result |-> "plain"],
   [args |-> <<>>, result |-> "array"]}

MCMaxDepth == [t \in Threads |-> 3]
=============================================================================
