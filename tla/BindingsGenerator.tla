-------------------------- MODULE BindingsGenerator --------------------------
(***************************************************************************)
(* A generator program: a sequence of calls of the builders                *)
(* (src/include/csbind23/bindings_generator.hpp) that declare modules,     *)
(* classes, enums and functions, and the two calls that write the C ABI    *)
(* and the C# files (src/src/bindings_generator.cpp).                      *)
(***************************************************************************)
EXTENDS Emission

CONSTANTS
    ModuleNames,    \* the modules a program may declare
    ClassDecls,     \* the classes it may bind: a C++ name and the list of bases
    Methods,        \* the methods it may define
    Functions,      \* the free functions it may define
    Rules,          \* the rules of use the program keeps
    MaxCalls        \* bound on the number of declarations

VARIABLES
    modules,    \* the modules declared so far
    cabi,       \* the modules that the written C ABI was made of
    csharp,     \* the modules that the written C# files were made of
    failed      \* an exception has ended the program

vars == <<modules, cabi, csharp, failed>>

NotWritten == <<>>

ASSUME RulesAssumption ==
    Rules \subseteq {"SameKeys", "AllVisible", "PlainVirtuals", "Complete"}

\* Names are strings, and no module of a program has the name of the generator's own.
ASSUME NamesAssumption ==
    /\ ModuleNames \cup {Internal, Alloc.name, Free.name} \subseteq STRING
    /\ Internal \notin ModuleNames

ASSUME DeclsAssumption ==
    /\ Methods \subseteq Decls
    /\ Functions \subseteq Decls
    /\ ClassDecls \subseteq [cpp : STRING, bases : Seq(STRING)]

-----------------------------------------------------------------------------
(* Rules of use.                                                            *)

\* The methods that meet in the callback table of a class.
Meeting(ir, m, c) == {e \in Offered(ir, m, c) : ~e.decl.ctor}

\* SameKeys: methods of a class and its secondary bases have one C ABI signature
\* exactly if they have one C# signature.
SameKeys(ir, m, c) ==
    \A x, y \in Meeting(ir, m, c) :
        (Key(ir, m, c, x, CAbiOptions) = Key(ir, m, c, y, CAbiOptions))
        <=> (Key(ir, m, c, x, CSharpOptions) = Key(ir, m, c, y, CSharpOptions))

\* AllVisible: where there is a secondary base, no method is without a wrapper.
AllVisible(ir, m, c) ==
    SecondaryBases(ir, m, c) # {} => \A x \in Meeting(ir, m, c) : ~x.decl.raw

\* PlainVirtuals: a method that can be overridden is exported under its own name.
PlainVirtuals(c) == \A d \in Range(c.methods) : d.virtual => d.exported = d.name

MayGenerate(ir) ==
    \A m \in Range(ir) : \A c \in Range(m.classes) :
        /\ "SameKeys" \in Rules => SameKeys(ir, m, c)
        /\ "AllVisible" \in Rules => AllVisible(ir, m, c)
        /\ "PlainVirtuals" \in Rules => PlainVirtuals(c)

\* Complete: everything is declared before the first file is written.
MayDeclare == "Complete" \in Rules => cabi = NotWritten /\ csharp = NotWritten

-----------------------------------------------------------------------------
(* The builders.                                                            *)

Init ==
    /\ modules = <<>>
    /\ cabi = NotWritten
    /\ csharp = NotWritten
    /\ failed = FALSE

CallsOf(m) ==
    1 + Cardinality(m.imports) + Len(m.functions) + Cardinality(m.enums) + Len(m.classes)
      + FoldLeft(LAMBDA n, c : n + Len(c.methods), 0, m.classes)

Running ==
    /\ ~failed
    /\ MayDeclare
    /\ FoldLeft(LAMBDA n, m : n + CallsOf(m), 0, modules) < MaxCalls

Declare(new) == modules' = new /\ UNCHANGED <<cabi, csharp, failed>>

Throw == failed' = TRUE /\ UNCHANGED <<modules, cabi, csharp>>

upsert_module(name) ==
    /\ Running
    /\ name \notin Names(modules)
    /\ Declare(Append(modules, ModuleDecl(name)))

import_module(i, name) ==
    /\ Running
    /\ name \notin modules[i].imports
    /\ IF name = modules[i].name THEN Throw
       ELSE Declare([modules EXCEPT ![i].imports = @ \cup {name}])

class_(i, class) ==
    /\ Running
    /\ Declare([modules EXCEPT ![i].classes = Append(@, ClassDecl(class.cpp, class.bases))])

enum_(i, t) ==
    /\ Running
    /\ t \notin modules[i].enums
    /\ Declare([modules EXCEPT ![i].enums = @ \cup {t}])

\* The types of a declaration are looked up at once, in the modules seen so far.
Ambiguous(ir, m, d) == \E t \in Range(d.params) \cup {d.result} : AmbiguousType(ir, m, t)

add_method(class, d) ==
    [class EXCEPT !.methods = Append(@, d), !.overrides = @ \/ d.virtual]

def(i, j, d) ==
    /\ Running
    /\ ~d.ctor
    /\ IF Ambiguous(modules, modules[i], d) THEN Throw
       ELSE Declare([modules EXCEPT ![i].classes[j] = add_method(@, d)])

ctor(i, j, d) ==
    /\ Running
    /\ d.ctor
    /\ IF Ambiguous(modules, modules[i], d) THEN Throw
       ELSE Declare([modules EXCEPT ![i].classes[j].methods = Append(@, d)])

def_impl(i, d) ==
    /\ Running
    /\ IF Ambiguous(modules, modules[i], d) THEN Throw
       ELSE Declare([modules EXCEPT ![i].functions =
                    Append(@, [d EXCEPT !.defaults = NormalizedDefaults(d)])])

-----------------------------------------------------------------------------
(* Generation, on a copy of the declared modules.                           *)

append_internal_modules(ir) ==
    IF ir = <<>> \/ Internal \in Names(ir) THEN ir ELSE Append(ir, InternalModule)

UnknownImport(ir) == \E m \in Range(ir) : ~(m.imports \subseteq Names(ir))

\* The types are looked up again, with every module declared.
TypesThrow(ir) ==
    \E m \in Range(ir) :
        \E d \in Range(m.functions) \cup UNION {Range(c.methods) : c \in Range(m.classes)} :
            Ambiguous(ir, m, d)

Throws(ir) == UnknownImport(ir) \/ TypesThrow(ir) \/ BoundTwice(ir)

generate_cabi ==
    /\ ~failed
    /\ cabi = NotWritten
    /\ modules # <<>>
    /\ LET ir == append_internal_modules(modules)
       IN  /\ MayGenerate(ir)
           /\ IF Throws(ir) THEN Throw
              ELSE cabi' = ir /\ UNCHANGED <<modules, csharp, failed>>

generate_csharp ==
    /\ ~failed
    /\ csharp = NotWritten
    /\ modules # <<>>
    /\ LET ir == append_internal_modules(modules)
       IN  /\ MayGenerate(ir)
           /\ IF Throws(ir) THEN Throw
              ELSE csharp' = ir /\ UNCHANGED <<modules, cabi, failed>>

Next ==
    \/ \E name \in ModuleNames : upsert_module(name)
    \/ \E i \in DOMAIN modules :
        \/ \E name \in ModuleNames : import_module(i, name)
        \/ \E class \in ClassDecls : class_(i, class)
        \/ \E t \in Enums : enum_(i, t)
        \/ \E d \in Functions : def_impl(i, d)
        \/ \E j \in DOMAIN modules[i].classes : \E d \in Methods :
            def(i, j, d) \/ ctor(i, j, d)
    \/ generate_cabi
    \/ generate_csharp

Spec == Init /\ [][Next]_vars

-----------------------------------------------------------------------------
(* Properties.                                                              *)

Built == cabi # NotWritten /\ csharp # NotWritten /\ NativeCompiles(cabi)

\* Every function the C# code calls is declared there, and every function
\* declared there is exported by the C ABI under the same symbol, with the same
\* arguments, for the same C++ declaration.
ImportsExported ==
    Built =>
        /\ Calls(csharp) \subseteq Imports(csharp)
        /\ Imports(csharp) \subseteq Exports(cabi)

\* The index of a callback in the table.
Place(slots, e) == Cardinality({s \in slots : Before(s, e)})

\* The callback that C# passes at an index is the one of the method whose slot
\* the native side fills from this index, and a type id means one class on both
\* sides.
SlotsAgree ==
    Built =>
        \A m \in Range(csharp) : \A c \in Range(m.classes) :
            \E n \in Range(cabi) : \E k \in Range(n.classes) :
                LET native == NativeSlots(cabi, n, k)
                    managed == ManagedSlots(csharp, m, c)
                IN  /\ <<n.name, k.cpp>> = <<m.name, c.cpp>>
                    /\ \A e \in managed : \E s \in native :
                        /\ Place(native, s) = Place(managed, e)
                        /\ <<s.owner, s.decl>> = <<e.owner, e.decl>>
                    /\ PolymorphicAssignable(csharp, c.cpp) = PolymorphicAssignable(cabi, c.cpp)

=============================================================================
