------------------------------ MODULE Emission ------------------------------
(***************************************************************************)
(* What the two emitters make of the intermediate representation: the      *)
(* functions that the C ABI exports (src/src/emit/cabi_emitter.cpp), those *)
(* that the C# side declares and those its code calls                      *)
(* (src/src/emit/csharp_emitter.cpp), and the callback tables of           *)
(* directors on the two sides.  A function is its symbol, the types of its *)
(* arguments in the C ABI and the C++ declaration that it stands for.      *)
(***************************************************************************)
EXTENDS Bindings

Symbol(m, class, name) == [module |-> m.name, class |-> class, name |-> name,
                           base |-> FALSE, omitted |-> 0]

Function(symbol, params, target) ==
    [symbol |-> symbol, params |-> [i \in DOMAIN params |-> CAbiName(params[i])],
     target |-> target]

\* d and its overloads without the last k arguments, for k up to n, under the
\* symbol with the suffix __default_k.
Overloads(symbol, d, n, target) ==
    {Function([symbol EXCEPT !.omitted = k], SubSeq(d.params, 1, Len(d.params) - k), target) :
        k \in 0..n}

BaseCall(symbol, d, target) == Function([symbol EXCEPT !.base = TRUE], d.params, target)

\* The functions that the emitters make themselves for a class.
ClassFunction(m, c, name, params) == Function(Symbol(m, c.cpp, name), params, <<c.cpp, name>>)

TypeIdFunctions(m, c) ==
    {ClassFunction(m, c, "static_type_id", <<>>),
     ClassFunction(m, c, "dynamic_type_id", <<"void*">>),
     ClassFunction(m, c, "cast", <<"void*", "int">>)}

DirectorFunctions(m, c) ==
    {ClassFunction(m, c, "connect_director", <<"void*", "void*", "int">>),
     ClassFunction(m, c, "disconnect_director", <<"void*">>)}

EmitsOwnedInstance(c) == \E d \in Range(c.methods) : d.ctor /\ d.owned

Constructors(c) == {d \in Range(c.methods) : d.ctor}

SmallerOf(a, b) == IF a < b THEN a ELSE b

NormalizedDefaults(d) == SmallerOf(d.defaults, Len(d.params))

\* Trailing arguments can be left out in C# up to the first that is converted.
FreeFunctionDefaults(d) ==
    LET n == Len(d.params)
        given == {k \in 0..NormalizedDefaults(d) :
                    \A i \in n - k + 1..n : d.params[i] # "text"}
    IN  CHOOSE k \in given : \A x \in given : x <= k

-----------------------------------------------------------------------------
(* The C ABI of a module.                                                   *)

NativeMethods(ir, m, c) == EmittedMethods(ir, m, c, CAbiOptions)

NativeSlots(ir, m, c) == VirtualMethods(c, NativeMethods(ir, m, c))

FunctionExports(m) ==
    UNION {Overloads(Symbol(m, "", d.exported), d, NormalizedDefaults(d), <<"", d>>) :
            d \in Range(m.functions)}

MethodOverloads(m, c, e) ==
    Overloads(Symbol(m, c.cpp, e.decl.exported), e.decl, NormalizedDefaults(e.decl),
              <<e.owner, e.decl>>)

DefaultOf(m, c, e) ==
    BaseCall(Symbol(m, c.cpp, e.decl.exported), e.decl, <<e.owner, e.decl>>)

\* Mutant: only the class's own methods have a default that can be called.
MethodExportsOwnDefaults(ir, m, c) ==
    LET emitted == NativeMethods(ir, m, c)
    IN  (UNION {MethodOverloads(m, c, e) : e \in emitted})
        \cup {DefaultOf(m, c, e) : e \in {x \in emitted :
                x.decl.virtual /\ ~Inherited(x) /\ NativeSlots(ir, m, c) # {}}}

MethodExports(ir, m, c) ==
    LET emitted == NativeMethods(ir, m, c)
    IN  (UNION {MethodOverloads(m, c, e) : e \in emitted})
        \cup {DefaultOf(m, c, e) :
                e \in {x \in emitted : x.decl.virtual /\ NativeSlots(ir, m, c) # {}}}

ClassExports(ir, m, c) ==
    TypeIdFunctions(m, c)
    \cup (IF NativeSlots(ir, m, c) # {} THEN DirectorFunctions(m, c) ELSE {})
    \cup (IF EmitsOwnedInstance(c) THEN {ClassFunction(m, c, "destroy", <<"void*">>)} ELSE {})
    \cup MethodExports(ir, m, c)
    \cup UNION {Overloads(Symbol(m, c.cpp, "create"), d, NormalizedDefaults(d), <<c.cpp, d>>) :
                    d \in Constructors(c)}

Exports(ir) ==
    UNION {FunctionExports(m) \cup UNION {ClassExports(ir, m, c) : c \in Range(m.classes)} :
            m \in Range(ir)}

\* A symbol defined twice, or a callback table with two members of one name, is
\* an error of the C++ compiler.
Distinct(s) == \A i, j \in DOMAIN s : s[i] = s[j] => i = j

NativeCompiles(ir) ==
    \A m \in Range(ir) :
        /\ Distinct([i \in DOMAIN m.functions |-> m.functions[i].exported])
        /\ Distinct([i \in DOMAIN m.classes |-> m.classes[i].cpp])
        /\ \A c \in Range(m.classes) :
            /\ \A x, y \in NativeMethods(ir, m, c) : x.decl.exported = y.decl.exported => x = y
            /\ \A x, y \in NativeSlots(ir, m, c) : x.decl.name = y.decl.name => x = y
            /\ Len(SelectSeq(c.methods, LAMBDA d : d.ctor)) <= 1

-----------------------------------------------------------------------------
(* The C# side of a module.                                                 *)

ManagedMethods(ir, m, c) == EmittedMethods(ir, m, c, CSharpOptions)

\* Mutant: the methods without a wrapper get no callback.
ManagedSlotsWrapped(ir, m, c) ==
    {e \in VirtualMethods(c, ManagedMethods(ir, m, c)) : ~e.decl.raw}

ManagedSlots(ir, m, c) == VirtualMethods(c, ManagedMethods(ir, m, c))

\* What the module's native class declares for a class.
ClassImports(ir, m, c) ==
    LET emitted == ManagedMethods(ir, m, c)
        connected == ManagedSlots(ir, m, c) # {}
    IN  TypeIdFunctions(m, c)
        \cup (IF connected THEN DirectorFunctions(m, c) ELSE {})
        \cup (IF EmitsOwnedInstance(c) THEN {ClassFunction(m, c, "destroy", <<"void*">>)} ELSE {})
        \cup {Function(Symbol(m, c.cpp, "create"), d.params, <<c.cpp, d>>) : d \in Constructors(c)}
        \cup {Function(Symbol(m, c.cpp, e.decl.exported), e.decl.params, <<e.owner, e.decl>>) :
                e \in emitted}
        \cup {DefaultOf(m, c, e) : e \in {x \in emitted : connected /\ x.decl.virtual}}

FunctionImports(m) ==
    UNION {Overloads(Symbol(m, "", d.exported), d, FreeFunctionDefaults(d), <<"", d>>) :
            d \in Range(m.functions)}

Imports(ir) ==
    UNION {FunctionImports(m) \cup UNION {ClassImports(ir, m, c) : c \in Range(m.classes)} :
            m \in Range(ir)}

\* What a wrapper class calls: its constructors, methods and type functions, and
\* from a callback without an override the default of the virtual method.
ClassCalls(ir, m, c) ==
    LET slots == ManagedSlots(ir, m, c)
    IN  TypeIdFunctions(m, c)
        \cup (IF slots # {} THEN DirectorFunctions(m, c) ELSE {})
        \cup (IF EmitsOwnedInstance(c) THEN {ClassFunction(m, c, "destroy", <<"void*">>)} ELSE {})
        \cup {Function(Symbol(m, c.cpp, "create"), d.params, <<c.cpp, d>>) : d \in Constructors(c)}
        \cup {Function(Symbol(m, c.cpp, e.decl.exported), e.decl.params, <<e.owner, e.decl>>) :
                e \in {x \in ManagedMethods(ir, m, c) : ~x.decl.raw}}
        \cup {BaseCall(Symbol(m, c.cpp, e.decl.name), e.decl, <<e.owner, e.decl>>) : e \in slots}

FunctionCalls(m) ==
    UNION {Overloads(Symbol(m, "", d.exported), d, FreeFunctionDefaults(d), <<"", d>>) :
            d \in {x \in Range(m.functions) : ~x.raw}}

\* The support files call the functions of the internal module.
Alloc == FunctionDecl("Alloc", "Alloc", "void*", <<"int">>)
Free  == FunctionDecl("Free", "Free", "void", <<"void*">>)

InternalModule == [ModuleDecl(Internal) EXCEPT !.functions = <<Alloc, Free>>]

Calls(ir) ==
    FunctionCalls(InternalModule)
    \cup UNION {FunctionCalls(m) \cup UNION {ClassCalls(ir, m, c) : c \in Range(m.classes)} :
                    m \in Range(ir)}

=============================================================================
