------------------------------ MODULE Bindings ------------------------------
(***************************************************************************)
(* The intermediate representation that a generator program builds         *)
(* (src/include/csbind23/ir.hpp) and what both emitters read from it       *)
(* (src/src/emit/emitter_ir_utils.cpp).  A module lists the modules it     *)
(* imports, its free functions, classes and enums, in the order of the     *)
(* program's calls.  Names are C++ names; how C# spells them is left out.  *)
(***************************************************************************)
EXTENDS Integers, FiniteSets, SequencesExt

CONSTANTS
    Stl,        \* the name of the module of the standard library
    Internal,   \* csbind23_internal, the module of the temporary memory
    Enums       \* the C++ enums that parameters may have as their type

\* The types that the emitters tell apart: enums, scalars of which
\* two have one C# name, and a type whose arguments are converted.
Types == Enums \cup {"int", "char", "unsigned char", "void*", "text"}

ResultTypes == Types \cup {"void"}

FunctionDecl(name, exported, result, params) ==
    [name |-> name, exported |-> exported, result |-> result, params |-> params, defaults |-> 0,
     ctor |-> FALSE, owned |-> FALSE, const |-> FALSE, virtual |-> FALSE, raw |-> FALSE]

ClassDecl(cpp, bases) == [cpp |-> cpp, bases |-> bases, overrides |-> FALSE, methods |-> <<>>]

ModuleDecl(name) ==
    [name |-> name, imports |-> {}, functions |-> <<>>, classes |-> <<>>, enums |-> {}]

\* The declarations there can be.
Decls ==
    [name : STRING, exported : STRING, result : ResultTypes, params : Seq(Types),
     defaults : Nat, ctor : BOOLEAN, owned : BOOLEAN, const : BOOLEAN, virtual : BOOLEAN,
     raw : BOOLEAN]

Classes == [cpp : STRING, bases : Seq(STRING), overrides : BOOLEAN, methods : Seq(Decls)]

Modules ==
    [name : STRING, imports : SUBSET STRING, functions : Seq(Decls), classes : Seq(Classes),
     enums : SUBSET Enums]

Names(ir) == {m.name : m \in Range(ir)}

\* A module sees itself, the standard library and what it imports; the standard
\* library sees every module.
Visible(ir, m) ==
    {v \in Range(ir) : m.name = Stl \/ v.name \in {m.name, Stl} \cup m.imports}

-----------------------------------------------------------------------------
(* Types: who binds them, and their names on the two sides.                 *)

Owners(modules, cpp) == {v \in modules : \E c \in Range(v.classes) : c.cpp = cpp}

\* The first class of the module that has the name.
ClassOf(m, cpp) ==
    m.classes[CHOOSE i \in DOMAIN m.classes :
                /\ m.classes[i].cpp = cpp
                /\ \A j \in DOMAIN m.classes : m.classes[j].cpp = cpp => i <= j]

EnumOwners(ir, m, t) == {v \in Visible(ir, m) : t \in v.enums}

AmbiguousType(ir, m, t) == t \in Enums /\ Cardinality(EnumOwners(ir, m, t)) > 1

CAbiName(t) == IF t \in Enums THEN "int" ELSE t

\* An enum that no visible module binds keeps its bare name.
PInvokeName(ir, m, t) ==
    CASE t \in {"char", "unsigned char"} -> <<"byte">>
      [] t \in Enums /\ EnumOwners(ir, m, t) # {} ->
            <<(CHOOSE v \in EnumOwners(ir, m, t) : TRUE).name, t>>
      [] OTHER -> <<t>>

-----------------------------------------------------------------------------
(* Bases.                                                                   *)

BaseOwners(ir, m, c, b) == Owners(Visible(ir, m), c.bases[b])

\* The positions, after the first, of the bases that a visible module binds.
SecondaryBases(ir, m, c) == {b \in 2..Len(c.bases) : BaseOwners(ir, m, c, b) # {}}

\* The class at a position, with its module.  Position 1 stands for the class itself.
Binding(ir, m, c, b) ==
    IF b = 1 THEN [module |-> m, class |-> c]
    ELSE LET v == CHOOSE v \in BaseOwners(ir, m, c, b) : TRUE
         IN  [module |-> v, class |-> ClassOf(v, c.bases[b])]

Parents(ir, cpp) == UNION {Range(ClassOf(v, cpp).bases) : v \in Owners(Range(ir), cpp)}

\* Each step but the last finds a class that was not met before.
Ancestors(ir, c) ==
    LET steps == Cardinality(UNION {Range(m.classes) : m \in Range(ir)})
        found[n \in 0..steps] ==
            IF n = 0 THEN Range(c.bases)
            ELSE found[n - 1] \cup UNION {Parents(ir, cpp) : cpp \in found[n - 1]}
    IN  found[steps]

ClassDerivesFrom(ir, c, cpp) == cpp \in Ancestors(ir, c)

\* The classes an object of static type cpp may have as its dynamic type; the
\* position of a class is its type id on both sides of the call.
PolymorphicAssignable(ir, cpp) ==
    LET derived(m) == SelectSeq(m.classes,
                        LAMBDA c : c.cpp # cpp /\ ClassDerivesFrom(ir, c, cpp))
    IN  <<cpp>> \o FlattenSeq([i \in DOMAIN ir |->
                      [j \in DOMAIN derived(ir[i]) |-> derived(ir[i])[j].cpp]])

\* find_unique_class_by_cpp_name, which every class goes through, throws.
BoundTwice(ir) ==
    \E m \in Range(ir) : \E c \in Range(m.classes) : Cardinality(Owners(Range(ir), c.cpp)) > 1

-----------------------------------------------------------------------------
(* The methods that are emitted for a class: its own, and those of its     *)
(* secondary bases whose key is new.  The two emitters ask with different  *)
(* options.                                                                *)

CAbiOptions   == [pinvoke |-> FALSE, excludeRaw |-> FALSE]
CSharpOptions == [pinvoke |-> TRUE,  excludeRaw |-> TRUE]

WrapperVisible(d, options) == ~d.ctor /\ ~(options.excludeRaw /\ d.raw)

\* The marks for const, pointers and references that the code adds to a name are
\* left out: they are the same for all types of Types that share a name.
SignatureKey(ir, m, d, options) ==
    LET named(t) == IF options.pinvoke THEN PInvokeName(ir, m, t) ELSE <<CAbiName(t)>>
    IN  [name |-> d.name, const |-> d.const, result |-> named(d.result),
         params |-> [i \in DOMAIN d.params |-> named(d.params[i])]]

\* The methods that are looked at, in the order of their places: those of the class,
\* then those of one base after the other.
Offered(ir, m, c) ==
    UNION {LET class == Binding(ir, m, c, b).class
           IN  {[at |-> <<b, k>>, owner |-> class.cpp, decl |-> class.methods[k]] :
                    k \in DOMAIN class.methods} :
            b \in {1} \cup SecondaryBases(ir, m, c)}

Inherited(e) == e.at[1] # 1

Before(e, f) == e.at[1] < f.at[1] \/ (e.at[1] = f.at[1] /\ e.at[2] < f.at[2])

Key(ir, m, c, e, options) ==
    SignatureKey(ir, Binding(ir, m, c, e.at[1]).module, e.decl, options)

\* A method before it has its key.
Hidden(ir, m, c, e, options) ==
    \E f \in Offered(ir, m, c) :
        /\ Before(f, e)
        /\ WrapperVisible(f.decl, options)
        /\ Key(ir, m, c, f, options) = Key(ir, m, c, e, options)

EmittedMethods(ir, m, c, options) ==
    {e \in Offered(ir, m, c) :
        \/ ~Inherited(e) /\ ~e.decl.ctor
        \/ /\ Inherited(e)
           /\ WrapperVisible(e.decl, options)
           /\ ~Hidden(ir, m, c, e, options)}

VirtualMethods(c, emitted) == {e \in emitted : e.decl.virtual /\ (c.overrides \/ Inherited(e))}

=============================================================================
