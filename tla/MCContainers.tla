---------------------------- MODULE MCContainers ----------------------------
EXTENDS Containers, TLC

Scalar(name) == [name |-> name, pointer |-> FALSE, scalar |-> TRUE]
Object(name) == [name |-> name, pointer |-> FALSE, scalar |-> FALSE]
Pointer(name) == [name |-> name, pointer |-> TRUE, scalar |-> FALSE]

\* Types like those that the tests register; and groups that no rule of use allows:
\* two types of one C# name, maps that only their keys tell apart, and one type for
\* the keys and the values of each map.
MCGroups ==
  {[kind |-> "Vector",
    of |-> <<<<Scalar("int")>>, <<Object("VectorItem")>>, <<Pointer("VectorItem")>>>>],
   [kind |-> "Map",
    of |-> <<<<Scalar("long"), Scalar("int")>>, <<Object("String"), Object("MapItem")>>>>],
   [kind |-> "UnorderedMap",
    of |-> <<<<Scalar("long"), Pointer("MapItem")>>, <<Scalar("long"), Object("MapItem")>>,
             <<Object("String"), Scalar("int")>>>>],
   [kind |-> "Vector", of |-> <<<<Scalar("byte")>>, <<Scalar("byte")>>, <<Scalar("int")>>>>],
   [kind |-> "Map",
    of |-> <<<<Object("Item"), Scalar("int")>>, <<Pointer("Item"), Scalar("int")>>,
             <<Scalar("int"), Object("Item")>>>>],
   [kind |-> "Map", of |-> <<<<Scalar("int"), Scalar("int")>>,
                             <<Object("String"), Object("String")>>>>]}

Symmetry == Permutations(Handles) \cup Permutations(Wrappers)
=============================================================================
