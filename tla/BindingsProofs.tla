--------------------------- MODULE BindingsProofs ---------------------------
(***************************************************************************)
(* The two files that a generator program writes agree, for any modules,   *)
(* classes, methods and functions: in a program that keeps the four rules  *)
(* of use, both emitters find the same methods for each class, so the C#   *)
(* code declares what it calls, the C ABI exports what is declared, and    *)
(* the callback tables of a class are the same on both sides.              *)
(***************************************************************************)
EXTENDS BindingsGenerator, WellFoundedInduction, TLAPS

KeepsRules == {"SameKeys", "AllVisible", "PlainVirtuals", "Complete"} \subseteq Rules

\* What a generation starts from.
Kept(ir) ==
    /\ ir \in Seq(Modules)
    /\ InternalModule \in Range(ir)
    /\ \A m \in Range(ir) : \A c \in Range(m.classes) :
        SameKeys(ir, m, c) /\ AllVisible(ir, m, c) /\ PlainVirtuals(c)

-----------------------------------------------------------------------------
(* Sequences.                                                               *)

LEMMA RangeOf ==
    ASSUME NEW S, NEW s \in Seq(S)
    PROVE  /\ Range(s) \subseteq S
           /\ \A i \in DOMAIN s : s[i] \in Range(s)
BY DEF Range

LEMMA RangeAppend ==
    ASSUME NEW S, NEW s \in Seq(S), NEW x \in S
    PROVE  Append(s, x) \in Seq(S) /\ Range(Append(s, x)) = Range(s) \cup {x}
<1>1. Append(s, x) \in Seq(S) /\ Len(Append(s, x)) = Len(s) + 1 /\ Len(s) \in Nat
  OBVIOUS
<1>2. \A i \in 1 .. Len(s) : Append(s, x)[i] = s[i]
  OBVIOUS
<1>3. Append(s, x)[Len(s) + 1] = x
  OBVIOUS
<1>4. DOMAIN s = 1 .. Len(s) /\ DOMAIN Append(s, x) = 1 .. Len(s) + 1
  BY <1>1
<1> QED BY <1>1, <1>2, <1>3, <1>4 DEF Range

LEMMA LeastOf ==
    ASSUME NEW S \in SUBSET Nat, S # {}
    PROVE  \E x \in S : \A y \in S : x <= y
<1>1. PICK x \in S : \A y \in S : ~(<<y, x>> \in OpToRel(<, Nat))
  BY NatLessThanWellFounded, WFMin
<1>2. \A y \in S : ~(y < x)
  BY <1>1 DEF OpToRel
<1> QED BY <1>2

-----------------------------------------------------------------------------
(* The methods that are looked at for a class.                              *)

\* The class at each position is one of the modules' classes.
LEMMA ClassFound ==
    ASSUME NEW m \in Modules, NEW cpp, \E c \in Range(m.classes) : c.cpp = cpp
    PROVE  ClassOf(m, cpp) \in Range(m.classes)
<1> DEFINE S == {i \in DOMAIN m.classes : m.classes[i].cpp = cpp}
<1>1. m.classes \in Seq(Classes)
  BY DEF Modules
<1>2. S # {} /\ S \in SUBSET Nat
  BY <1>1 DEF Range
<1>3. PICK i \in S : \A j \in S : i <= j
  BY <1>2, LeastOf
<1>4. \E j \in DOMAIN m.classes :
        /\ m.classes[j].cpp = cpp
        /\ \A k \in DOMAIN m.classes : m.classes[k].cpp = cpp => j <= k
  BY <1>3
<1> QED BY <1>4 DEF ClassOf, Range

LEMMA BindingFound ==
    ASSUME NEW ir \in Seq(Modules), NEW m \in Range(ir), NEW c \in Range(m.classes),
           NEW b \in {1} \cup SecondaryBases(ir, m, c)
    PROVE  /\ Binding(ir, m, c, b).module \in Range(ir)
           /\ Binding(ir, m, c, b).class \in Range(Binding(ir, m, c, b).module.classes)
<1>1. CASE b = 1
  BY <1>1 DEF Binding
<1>2. CASE b # 1
  <2>1. BaseOwners(ir, m, c, b) # {}
    BY <1>2 DEF SecondaryBases
  <2>2. PICK v : v = CHOOSE x \in BaseOwners(ir, m, c, b) : TRUE
    OBVIOUS
  <2>3. v \in BaseOwners(ir, m, c, b)
    BY <2>1, <2>2
  <2>4. v \in Range(ir) /\ \E k \in Range(v.classes) : k.cpp = c.bases[b]
    BY <2>3 DEF BaseOwners, Owners, Visible
  <2>5. ClassOf(v, c.bases[b]) \in Range(v.classes)
    BY <2>4, RangeOf, ClassFound
  <2>6. Binding(ir, m, c, b) = [module |-> v, class |-> ClassOf(v, c.bases[b])]
    BY <1>2, <2>2 DEF Binding
  <2> QED BY <2>4, <2>5, <2>6
<1> QED BY <1>1, <1>2

LEMMA OfferedFacts ==
    ASSUME NEW ir \in Seq(Modules), NEW m \in Range(ir), NEW c \in Range(m.classes),
           NEW e \in Offered(ir, m, c)
    PROVE  /\ Inherited(e) => SecondaryBases(ir, m, c) # {}
           /\ e.decl \in Decls
           /\ \E n \in Range(ir) : \E k \in Range(n.classes) : e.decl \in Range(k.methods)
<1>1. PICK b \in {1} \cup SecondaryBases(ir, m, c) :
        \E k \in DOMAIN Binding(ir, m, c, b).class.methods :
          e = [at |-> <<b, k>>, owner |-> Binding(ir, m, c, b).class.cpp,
               decl |-> Binding(ir, m, c, b).class.methods[k]]
  BY DEF Offered
<1>2. PICK n : n = Binding(ir, m, c, b).module
  OBVIOUS
<1>3. PICK class : class = Binding(ir, m, c, b).class
  OBVIOUS
<1>4. n \in Range(ir) /\ class \in Range(n.classes)
  BY <1>2, <1>3, BindingFound
<1>5. PICK k \in DOMAIN class.methods :
        e = [at |-> <<b, k>>, owner |-> class.cpp, decl |-> class.methods[k]]
  BY <1>1, <1>3
<1>6. n \in Modules /\ n.classes \in Seq(Classes)
  <2>1. n \in Modules
    BY <1>4, RangeOf
  <2> QED BY <2>1 DEF Modules
<1>7. class \in Classes /\ class.methods \in Seq(Decls)
  <2>1. class \in Classes
    BY <1>4, <1>6, RangeOf
  <2> QED BY <2>1 DEF Classes
<1>8. e.decl \in Range(class.methods) /\ e.decl \in Decls
  BY <1>5, <1>7, RangeOf
<1>9. Inherited(e) => b # 1
  BY <1>5 DEF Inherited
<1> QED BY <1>1, <1>4, <1>8, <1>9

\* The options of the two emitters make no difference.
LEMMA SameMethods ==
    ASSUME NEW ir, Kept(ir), NEW m \in Range(ir), NEW c \in Range(m.classes)
    PROVE  /\ ManagedMethods(ir, m, c) = NativeMethods(ir, m, c)
           /\ ManagedSlots(ir, m, c) = NativeSlots(ir, m, c)
<1>1. ir \in Seq(Modules) /\ SameKeys(ir, m, c) /\ AllVisible(ir, m, c)
  BY DEF Kept
<1>2. ASSUME NEW e \in Offered(ir, m, c), SecondaryBases(ir, m, c) # {}
      PROVE  /\ WrapperVisible(e.decl, CSharpOptions) <=> WrapperVisible(e.decl, CAbiOptions)
             /\ WrapperVisible(e.decl, CAbiOptions) => e \in Meeting(ir, m, c)
  <2>1. ~e.decl.ctor => ~e.decl.raw
    BY <1>1, <1>2 DEF AllVisible, Meeting
  <2> QED BY <2>1 DEF WrapperVisible, CSharpOptions, CAbiOptions, Meeting
<1>3. ASSUME NEW e \in Offered(ir, m, c), SecondaryBases(ir, m, c) # {},
             WrapperVisible(e.decl, CAbiOptions)
      PROVE  Hidden(ir, m, c, e, CSharpOptions) <=> Hidden(ir, m, c, e, CAbiOptions)
  <2>1. \A f \in Offered(ir, m, c) : WrapperVisible(f.decl, CAbiOptions) =>
          ((Key(ir, m, c, f, CAbiOptions) = Key(ir, m, c, e, CAbiOptions))
           <=> (Key(ir, m, c, f, CSharpOptions) = Key(ir, m, c, e, CSharpOptions)))
    BY <1>1, <1>2, <1>3 DEF SameKeys
  <2> QED BY <1>2, <1>3, <2>1 DEF Hidden
<1>4. ASSUME NEW e \in Offered(ir, m, c)
      PROVE  e \in ManagedMethods(ir, m, c) <=> e \in NativeMethods(ir, m, c)
  <2>1. CASE ~Inherited(e)
    BY <2>1 DEF ManagedMethods, NativeMethods, EmittedMethods
  <2>2. CASE Inherited(e)
    <3>1. SecondaryBases(ir, m, c) # {}
      BY <1>1, <2>2, OfferedFacts
    <3> QED BY <1>2, <1>3, <2>2, <3>1 DEF ManagedMethods, NativeMethods, EmittedMethods
  <2> QED BY <2>1, <2>2
<1>5. ManagedMethods(ir, m, c) = NativeMethods(ir, m, c)
  BY <1>4 DEF ManagedMethods, NativeMethods, EmittedMethods
<1> QED BY <1>5 DEF ManagedSlots, NativeSlots

-----------------------------------------------------------------------------
(* What is called is declared, and what is declared is exported.            *)

\* The parts that the two sides make in the same way.
LEMMA WholeOverload ==
    ASSUME NEW m, NEW class, NEW name, NEW d \in Decls, NEW n \in Nat, NEW target
    PROVE  Function(Symbol(m, class, name), d.params, target)
             \in Overloads(Symbol(m, class, name), d, n, target)
<1>1. d.params \in Seq(Types)
  BY DEF Decls
<1>2. SubSeq(d.params, 1, Len(d.params) - 0) = d.params
  BY <1>1
<1>3. [Symbol(m, class, name) EXCEPT !.omitted = 0] = Symbol(m, class, name)
  <2>1. PICK s : s = Symbol(m, class, name)
    OBVIOUS
  <2>2. s.omitted = 0
    BY <2>1 DEF Symbol
  <2>3. s = [x \in DOMAIN s |-> s[x]]
    BY <2>1 DEF Symbol
  <2>4. [s EXCEPT !.omitted = 0] = s
    BY <2>2, <2>3
  <2> QED BY <2>1, <2>4
<1>4. 0 \in 0 .. n
  OBVIOUS
<1> QED BY <1>2, <1>3, <1>4 DEF Overloads

LEMMA Defaults ==
    ASSUME NEW d \in Decls
    PROVE  /\ NormalizedDefaults(d) \in Nat
           /\ FreeFunctionDefaults(d) \in 0 .. NormalizedDefaults(d)
<1>1. d.params \in Seq(Types) /\ d.defaults \in Nat /\ Len(d.params) \in Nat
  BY DEF Decls
<1>2. NormalizedDefaults(d) \in Nat
  BY <1>1 DEF NormalizedDefaults, SmallerOf
<1> DEFINE given == {k \in 0 .. NormalizedDefaults(d) :
                       \A i \in Len(d.params) - k + 1 .. Len(d.params) : d.params[i] # "text"}
           above == {n \in Nat : \A k \in given : k <= n}
<1>3. above \in SUBSET Nat /\ above # {}
  <2>1. NormalizedDefaults(d) \in above
    BY <1>2
  <2> QED BY <2>1
<1>4. PICK n \in above : \A x \in above : n <= x
  <2> HIDE DEF above
  <2> QED BY <1>3, LeastOf
<1>5. 0 \in given
  BY <1>1, <1>2
<1>6. n \in given
  <2> SUFFICES ASSUME n \notin given PROVE FALSE
    OBVIOUS
  <2>1. n \in Nat /\ n # 0 /\ \A k \in given : k \in Nat /\ k <= n /\ k # n
    BY <1>2, <1>5
  <2>2. n - 1 \in Nat /\ \A k \in given : k <= n - 1
    <3> HIDE DEF given
    <3> QED BY <2>1
  <2>3. n - 1 \in above
    BY <2>2
  <2>4. n <= n - 1
    <3> HIDE DEF above
    <3> QED BY <1>4, <2>3
  <2> QED BY <2>1, <2>4
<1>7. \E k \in given : \A x \in given : x <= k
  BY <1>6
<1>8. FreeFunctionDefaults(d) \in given
  BY <1>7 DEF FreeFunctionDefaults
<1> QED BY <1>2, <1>8

LEMMA OverloadsGrow ==
    ASSUME NEW symbol, NEW d, NEW k \in Nat, NEW n \in Nat, k <= n, NEW target
    PROVE  Overloads(symbol, d, k, target) \subseteq Overloads(symbol, d, n, target)
<1>1. 0 .. k \subseteq 0 .. n
  OBVIOUS
<1> QED BY <1>1 DEF Overloads

LEMMA DeclTypes ==
    ASSUME NEW ir \in Seq(Modules), NEW m \in Range(ir)
    PROVE  /\ \A d \in Range(m.functions) : d \in Decls
           /\ \A c \in Range(m.classes) : \A d \in Range(c.methods) : d \in Decls
<1>1. m \in Modules
  BY RangeOf
<1>2. m.functions \in Seq(Decls) /\ m.classes \in Seq(Classes)
  BY <1>1 DEF Modules
<1>3. ASSUME NEW c \in Range(m.classes), NEW d \in Range(c.methods) PROVE d \in Decls
  <2>1. c \in Classes
    BY <1>2, RangeOf
  <2>2. c.methods \in Seq(Decls)
    BY <2>1 DEF Classes
  <2> QED BY <2>2, RangeOf
<1> QED BY <1>2, <1>3, RangeOf

LEMMA FunctionsDeclared ==
    ASSUME NEW ir \in Seq(Modules), NEW m \in Range(ir)
    PROVE  FunctionCalls(m) \subseteq FunctionImports(m) /\ FunctionImports(m) \subseteq FunctionExports(m)
<1>1. FunctionCalls(m) \subseteq FunctionImports(m)
  BY DEF FunctionCalls, FunctionImports
<1>2. \A d \in Range(m.functions) :
        Overloads(Symbol(m, "", d.exported), d, FreeFunctionDefaults(d), <<"", d>>)
          \subseteq Overloads(Symbol(m, "", d.exported), d, NormalizedDefaults(d), <<"", d>>)
  <2> SUFFICES ASSUME NEW d \in Range(m.functions)
               PROVE  Overloads(Symbol(m, "", d.exported), d, FreeFunctionDefaults(d), <<"", d>>)
                 \subseteq Overloads(Symbol(m, "", d.exported), d, NormalizedDefaults(d), <<"", d>>)
    OBVIOUS
  <2>1. d \in Decls
    BY DeclTypes
  <2>2. /\ FreeFunctionDefaults(d) \in Nat /\ NormalizedDefaults(d) \in Nat
        /\ FreeFunctionDefaults(d) <= NormalizedDefaults(d)
    BY <2>1, Defaults
  <2> QED BY <2>2, OverloadsGrow
<1> QED BY <1>1, <1>2 DEF FunctionImports, FunctionExports

\* A class declares what its methods, its life cycle and its callbacks call.
LEMMA ClassDeclared ==
    ASSUME NEW ir, Kept(ir), NEW m \in Range(ir), NEW c \in Range(m.classes)
    PROVE  ClassCalls(ir, m, c) \subseteq ClassImports(ir, m, c)
<1>1. \A e \in ManagedSlots(ir, m, c) :
        /\ e \in ManagedMethods(ir, m, c) /\ e.decl.virtual
        /\ e.decl.exported = e.decl.name
  <2> SUFFICES ASSUME NEW e \in ManagedSlots(ir, m, c)
               PROVE  /\ e \in ManagedMethods(ir, m, c) /\ e.decl.virtual
                      /\ e.decl.exported = e.decl.name
    OBVIOUS
  <2>1. e \in ManagedMethods(ir, m, c) /\ e.decl.virtual
    BY DEF ManagedSlots, VirtualMethods
  <2>2. e \in Offered(ir, m, c)
    BY <2>1 DEF ManagedMethods, EmittedMethods
  <2>3. PICK n \in Range(ir) : \E k \in Range(n.classes) : e.decl \in Range(k.methods)
    BY <2>2, OfferedFacts DEF Kept
  <2>4. PICK k \in Range(n.classes) : e.decl \in Range(k.methods)
    BY <2>3
  <2>5. PlainVirtuals(k)
    BY <2>4 DEF Kept
  <2> QED BY <2>1, <2>4, <2>5 DEF PlainVirtuals
<1>2. \A e \in ManagedSlots(ir, m, c) :
        BaseCall(Symbol(m, c.cpp, e.decl.name), e.decl, <<e.owner, e.decl>>) = DefaultOf(m, c, e)
  BY <1>1 DEF DefaultOf
<1>3. {BaseCall(Symbol(m, c.cpp, e.decl.name), e.decl, <<e.owner, e.decl>>) :
         e \in ManagedSlots(ir, m, c)}
        \subseteq {DefaultOf(m, c, e) : e \in {x \in ManagedMethods(ir, m, c) :
                     ManagedSlots(ir, m, c) # {} /\ x.decl.virtual}}
  BY <1>1, <1>2
<1> QED BY <1>3 DEF ClassCalls, ClassImports

\* The C ABI of a class exports what the C# side declares.
LEMMA ClassExported ==
    ASSUME NEW ir, Kept(ir), NEW m \in Range(ir), NEW c \in Range(m.classes)
    PROVE  ClassImports(ir, m, c) \subseteq ClassExports(ir, m, c)
<1>1. PICK emitted : emitted = NativeMethods(ir, m, c)
  OBVIOUS
<1>2. PICK slots : slots = NativeSlots(ir, m, c)
  OBVIOUS
<1>3. ManagedMethods(ir, m, c) = emitted /\ ManagedSlots(ir, m, c) = slots
  BY <1>1, <1>2, SameMethods
<1>4. \A e \in emitted :
        /\ e.decl \in Decls
        /\ Function(Symbol(m, c.cpp, e.decl.exported), e.decl.params, <<e.owner, e.decl>>)
             \in MethodOverloads(m, c, e)
  <2> SUFFICES ASSUME NEW e \in emitted
               PROVE  /\ e.decl \in Decls
                      /\ Function(Symbol(m, c.cpp, e.decl.exported), e.decl.params,
                                  <<e.owner, e.decl>>) \in MethodOverloads(m, c, e)
    OBVIOUS
  <2>1. e \in Offered(ir, m, c)
    BY <1>1 DEF NativeMethods, EmittedMethods
  <2>2. e.decl \in Decls
    BY <2>1, OfferedFacts DEF Kept
  <2>3. NormalizedDefaults(e.decl) \in Nat
    BY <2>2, Defaults
  <2> QED BY <2>2, <2>3, WholeOverload DEF MethodOverloads
<1>5. \A d \in Constructors(c) :
        Function(Symbol(m, c.cpp, "create"), d.params, <<c.cpp, d>>)
          \in Overloads(Symbol(m, c.cpp, "create"), d, NormalizedDefaults(d), <<c.cpp, d>>)
  <2> SUFFICES ASSUME NEW d \in Constructors(c)
               PROVE  Function(Symbol(m, c.cpp, "create"), d.params, <<c.cpp, d>>)
                        \in Overloads(Symbol(m, c.cpp, "create"), d, NormalizedDefaults(d), <<c.cpp, d>>)
    OBVIOUS
  <2>1. d \in Decls
    BY DeclTypes DEF Constructors, Kept
  <2>2. NormalizedDefaults(d) \in Nat
    BY <2>1, Defaults
  <2> QED BY <2>1, <2>2, WholeOverload
<1>6. PICK methods :
        methods = {Function(Symbol(m, c.cpp, e.decl.exported), e.decl.params, <<e.owner, e.decl>>) :
                     e \in emitted}
  OBVIOUS
<1>7. PICK defaults :
        defaults = {DefaultOf(m, c, e) : e \in {x \in emitted : slots # {} /\ x.decl.virtual}}
  OBVIOUS
<1>8. PICK created :
        created = {Function(Symbol(m, c.cpp, "create"), d.params, <<c.cpp, d>>) : d \in Constructors(c)}
  OBVIOUS
<1>9. PICK creators :
        creators = UNION {Overloads(Symbol(m, c.cpp, "create"), d, NormalizedDefaults(d),
                                    <<c.cpp, d>>) : d \in Constructors(c)}
  OBVIOUS
<1>10. created \subseteq creators
  BY <1>5, <1>8, <1>9
<1>11. methods \subseteq UNION {MethodOverloads(m, c, e) : e \in emitted}
  BY <1>4, <1>6, ZenonT(60)
<1>12. MethodExports(ir, m, c)
         = (UNION {MethodOverloads(m, c, e) : e \in emitted})
           \cup {DefaultOf(m, c, e) : e \in {x \in emitted : x.decl.virtual /\ slots # {}}}
  BY <1>1, <1>2 DEF MethodExports
<1>13. defaults = {DefaultOf(m, c, e) : e \in {x \in emitted : x.decl.virtual /\ slots # {}}}
  BY <1>7
<1>14. methods \cup defaults \subseteq MethodExports(ir, m, c)
  BY <1>11, <1>12, <1>13
<1>15. PICK made :
         made = TypeIdFunctions(m, c)
                \cup (IF slots # {} THEN DirectorFunctions(m, c) ELSE {})
                \cup (IF EmitsOwnedInstance(c) THEN {ClassFunction(m, c, "destroy", <<"void*">>)}
                      ELSE {})
  OBVIOUS
<1>16. ClassImports(ir, m, c) = made \cup created \cup methods \cup defaults
  BY <1>3, <1>6, <1>7, <1>8, <1>15 DEF ClassImports
<1>17. ClassExports(ir, m, c) = made \cup MethodExports(ir, m, c) \cup creators
  BY <1>2, <1>9, <1>15 DEF ClassExports
<1> QED BY <1>10, <1>14, <1>16, <1>17

LEMMA EverythingDeclared ==
    ASSUME NEW ir, Kept(ir)
    PROVE  Calls(ir) \subseteq Imports(ir) /\ Imports(ir) \subseteq Exports(ir)
<1>1. ir \in Seq(Modules) /\ InternalModule \in Range(ir)
  BY DEF Kept
<1>2. \A m \in Range(ir) : FunctionCalls(m) \subseteq FunctionImports(m)
                           /\ FunctionImports(m) \subseteq FunctionExports(m)
  BY <1>1, FunctionsDeclared
<1>3. \A m \in Range(ir) : \A c \in Range(m.classes) :
        /\ ClassCalls(ir, m, c) \subseteq ClassImports(ir, m, c)
        /\ ClassImports(ir, m, c) \subseteq ClassExports(ir, m, c)
  BY ClassDeclared, ClassExported
<1>4. Imports(ir) \subseteq Exports(ir)
  <2> HIDE DEF Kept
  <2> QED BY <1>2, <1>3 DEF Imports, Exports
<1>5. FunctionCalls(InternalModule) \subseteq Imports(ir)
  BY <1>1, <1>2 DEF Imports
<1>6. Calls(ir) \subseteq Imports(ir)
  BY <1>2, <1>3, <1>5 DEF Calls, Imports
<1> QED BY <1>4, <1>6

-----------------------------------------------------------------------------
(* The program.                                                             *)

\* Both files are made of the declarations that there are, with the internal module.
IInv ==
    /\ modules \in Seq(Modules)
    /\ Internal \notin Names(modules)
    /\ cabi # NotWritten => cabi = append_internal_modules(modules) /\ Kept(cabi)
    /\ csharp # NotWritten => csharp = append_internal_modules(modules) /\ Kept(csharp)

\* A module list that stays one when a module of it is replaced.
LEMMA Replaced ==
    ASSUME NEW ir \in Seq(Modules), Internal \notin Names(ir), NEW i \in DOMAIN ir,
           NEW x \in Modules, x.name = ir[i].name, NEW new, new = [ir EXCEPT ![i] = x]
    PROVE  new \in Seq(Modules) /\ Internal \notin Names(new)
<1>1. new \in Seq(Modules) /\ DOMAIN new = DOMAIN ir
  OBVIOUS
<1>2. \A j \in DOMAIN ir : new[j].name = ir[j].name
  OBVIOUS
<1> QED BY <1>1, <1>2 DEF Names, Range

LEMMA InternalAdded ==
    ASSUME NEW ir \in Seq(Modules), Internal \notin Names(ir), ir # <<>>, KeepsRules,
           NEW new, new = append_internal_modules(ir), MayGenerate(new)
    PROVE  Kept(new)
<1>1. Alloc \in Decls /\ Free \in Decls
  <2>1. PICK p, q : p = <<"int">> /\ q = <<"void*">>
    OBVIOUS
  <2>2. p \in Seq(Types) /\ q \in Seq(Types)
    BY <2>1 DEF Types
  <2>3. /\ Alloc = FunctionDecl("Alloc", "Alloc", "void*", p)
        /\ Free = FunctionDecl("Free", "Free", "void", q)
    BY <2>1 DEF Alloc, Free
  <2>4. ASSUME NEW name \in STRING, NEW result \in ResultTypes, NEW params \in Seq(Types)
        PROVE  FunctionDecl(name, name, result, params) \in Decls
    BY DEF Decls, FunctionDecl
  <2>5. "Alloc" \in STRING /\ "Free" \in STRING
    BY NamesAssumption DEF Alloc, Free, FunctionDecl
  <2>6. "void*" \in ResultTypes /\ "void" \in ResultTypes
    BY DEF ResultTypes, Types
  <2>7. /\ FunctionDecl("Alloc", "Alloc", "void*", p) \in Decls
        /\ FunctionDecl("Free", "Free", "void", q) \in Decls
    BY <2>2, <2>4, <2>5, <2>6, Zenon
  <2> QED BY <2>3, <2>7
<1>2. PICK r, l : r = ModuleDecl(Internal) /\ l = <<Alloc, Free>>
  OBVIOUS
<1>3. InternalModule \in Modules
  <2>1. l \in Seq(Decls)
    BY <1>1, <1>2
  <2>2. r \in Modules
    BY <1>2, NamesAssumption DEF Modules, ModuleDecl
  <2>3. InternalModule = [r EXCEPT !.functions = l]
    BY <1>2 DEF InternalModule
  <2> QED BY <2>1, <2>2, <2>3 DEF Modules
<1>4. new = Append(ir, InternalModule)
  BY DEF append_internal_modules
<1>5. new \in Seq(Modules) /\ InternalModule \in Range(new)
  BY <1>3, <1>4, RangeAppend
<1> QED BY <1>5 DEF Kept, KeepsRules, MayGenerate

LEMMA InitInv == ASSUME Init PROVE IInv
BY DEF Init, IInv, NotWritten, Names, Range

\* A declaration, before anything is generated.
LEMMA DeclareInv ==
    ASSUME KeepsRules, IInv, Running, NEW new \in Seq(Modules), Internal \notin Names(new),
           Declare(new)
    PROVE  IInv'
<1>1. cabi = NotWritten /\ csharp = NotWritten
  BY DEF Running, MayDeclare, KeepsRules
<1>2. modules' = new /\ cabi' = NotWritten /\ csharp' = NotWritten
  BY <1>1 DEF Declare
<1>3. Names(modules') = Names(new)
  BY <1>2
<1> QED BY <1>2, <1>3 DEF IInv, Names

LEMMA ThrowInv == ASSUME IInv, Throw PROVE IInv'
BY DEF IInv, Throw, Names, append_internal_modules

LEMMA UpsertInv ==
    ASSUME KeepsRules, IInv, NEW name \in ModuleNames, upsert_module(name)
    PROVE  IInv'
<1>1. PICK x : x = ModuleDecl(name)
  OBVIOUS
<1>2. x = [name |-> name, imports |-> {}, functions |-> <<>>, classes |-> <<>>, enums |-> {}]
  BY <1>1 DEF ModuleDecl
<1>3. x \in Modules /\ x.name # Internal
  BY <1>2, NamesAssumption DEF Modules
<1>4. PICK new : new = Append(modules, x)
  OBVIOUS
<1>5. new \in Seq(Modules) /\ Range(new) = Range(modules) \cup {x}
  BY <1>3, <1>4, RangeAppend DEF IInv
<1>6. Internal \notin Names(new)
  BY <1>3, <1>5 DEF IInv, Names
<1> QED BY <1>1, <1>4, <1>5, <1>6, DeclareInv DEF upsert_module

\* A change of one module that leaves it a module and its name alone.
LEMMA ChangeInv ==
    ASSUME KeepsRules, IInv, Running, NEW i \in DOMAIN modules, NEW x \in Modules,
           x.name = modules[i].name, Declare([modules EXCEPT ![i] = x])
    PROVE  IInv'
<1>1. PICK new : new = [modules EXCEPT ![i] = x]
  OBVIOUS
<1>2. new \in Seq(Modules) /\ Internal \notin Names(new)
  BY <1>1, Replaced DEF IInv
<1> QED BY <1>1, <1>2, DeclareInv

LEMMA ImportInv ==
    ASSUME KeepsRules, IInv, NEW i \in DOMAIN modules, NEW name \in ModuleNames,
           import_module(i, name)
    PROVE  IInv'
<1>1. CASE Throw
  BY <1>1, ThrowInv
<1>2. CASE ~Throw
  <2>1. PICK x : x = [modules[i] EXCEPT !.imports = @ \cup {name}]
    OBVIOUS
  <2>2. modules[i] \in Modules
    BY DEF IInv
  <2>3. x \in Modules /\ x.name = modules[i].name
    BY <2>1, <2>2, NamesAssumption DEF Modules
  <2>4. Running /\ Declare([modules EXCEPT ![i] = x])
    BY <1>2, <2>1 DEF import_module
  <2> QED BY <2>3, <2>4, ChangeInv
<1> QED BY <1>1, <1>2

LEMMA ClassInv ==
    ASSUME KeepsRules, IInv, NEW i \in DOMAIN modules, NEW class \in ClassDecls,
           class_(i, class)
    PROVE  IInv'
<1>1. PICK k : k = ClassDecl(class.cpp, class.bases)
  OBVIOUS
<1>2. k \in Classes
  <2>1. k = [cpp |-> class.cpp, bases |-> class.bases, overrides |-> FALSE, methods |-> <<>>]
    BY <1>1 DEF ClassDecl
  <2>2. class.cpp \in STRING /\ class.bases \in Seq(STRING)
    BY DeclsAssumption
  <2> QED BY <2>1, <2>2 DEF Classes
<1>3. PICK x : x = [modules[i] EXCEPT !.classes = Append(@, k)]
  OBVIOUS
<1>4. modules[i] \in Modules
  BY DEF IInv
<1>5. x \in Modules /\ x.name = modules[i].name
  <2>1. PICK l : l = Append(modules[i].classes, k)
    OBVIOUS
  <2>2. l \in Seq(Classes)
    BY <1>2, <1>4, <2>1 DEF Modules
  <2>3. x = [modules[i] EXCEPT !.classes = l]
    BY <1>3, <2>1
  <2> QED BY <1>4, <2>2, <2>3 DEF Modules
<1>6. Running /\ Declare([modules EXCEPT ![i] = x])
  BY <1>1, <1>3 DEF class_
<1> QED BY <1>5, <1>6, ChangeInv

LEMMA EnumInv ==
    ASSUME KeepsRules, IInv, NEW i \in DOMAIN modules, NEW t \in Enums, enum_(i, t)
    PROVE  IInv'
<1>1. PICK x : x = [modules[i] EXCEPT !.enums = @ \cup {t}]
  OBVIOUS
<1>2. modules[i] \in Modules
  BY DEF IInv
<1>3. x \in Modules /\ x.name = modules[i].name
  BY <1>1, <1>2 DEF Modules
<1>4. Running /\ Declare([modules EXCEPT ![i] = x])
  BY <1>1 DEF enum_
<1> QED BY <1>3, <1>4, ChangeInv

LEMMA FunctionInv ==
    ASSUME KeepsRules, IInv, NEW i \in DOMAIN modules, NEW d \in Functions, def_impl(i, d)
    PROVE  IInv'
<1>1. CASE Throw
  BY <1>1, ThrowInv
<1>2. CASE ~Throw
  <2>1. PICK f : f = [d EXCEPT !.defaults = NormalizedDefaults(d)]
    OBVIOUS
  <2>2. d \in Decls
    BY DeclsAssumption
  <2>3. f \in Decls
    BY <2>1, <2>2, Defaults DEF Decls
  <2>4. PICK x : x = [modules[i] EXCEPT !.functions = Append(@, f)]
    OBVIOUS
  <2>5. modules[i] \in Modules
    BY DEF IInv
  <2>6. x \in Modules /\ x.name = modules[i].name
    <3>1. PICK l : l = Append(modules[i].functions, f)
      OBVIOUS
    <3>2. l \in Seq(Decls)
      BY <2>3, <2>5, <3>1 DEF Modules
    <3>3. x = [modules[i] EXCEPT !.functions = l]
      BY <2>4, <3>1
    <3> QED BY <2>5, <3>2, <3>3 DEF Modules
  <2>7. Running /\ Declare([modules EXCEPT ![i] = x])
    BY <1>2, <2>1, <2>4 DEF def_impl
  <2> QED BY <2>6, <2>7, ChangeInv
<1> QED BY <1>1, <1>2

\* A change of one class of one module.
LEMMA ChangeClassInv ==
    ASSUME KeepsRules, IInv, Running, NEW i \in DOMAIN modules, NEW j \in DOMAIN modules[i].classes,
           NEW k \in Classes, Declare([modules EXCEPT ![i].classes[j] = k])
    PROVE  IInv'
<1>1. PICK x : x = [modules[i] EXCEPT !.classes[j] = k]
  OBVIOUS
<1>2. modules[i] \in Modules
  BY DEF IInv
<1>3. x \in Modules /\ x.name = modules[i].name
  <2>1. PICK l : l = [modules[i].classes EXCEPT ![j] = k]
    OBVIOUS
  <2>2. l \in Seq(Classes)
    BY <1>2, <2>1 DEF Modules
  <2>3. x = [modules[i] EXCEPT !.classes = l]
    BY <1>1, <2>1
  <2> QED BY <1>2, <2>2, <2>3 DEF Modules
<1>4. Declare([modules EXCEPT ![i] = x])
  BY <1>1
<1> QED BY <1>3, <1>4, ChangeInv

LEMMA MethodInv ==
    ASSUME KeepsRules, IInv, NEW i \in DOMAIN modules, NEW j \in DOMAIN modules[i].classes,
           NEW d \in Methods, def(i, j, d) \/ ctor(i, j, d)
    PROVE  IInv'
<1>1. CASE Throw
  BY <1>1, ThrowInv
<1>2. CASE ~Throw
  <2>1. d \in Decls
    BY DeclsAssumption
  <2>2. modules[i].classes[j] \in Classes
    <3>1. modules[i] \in Modules
      BY DEF IInv
    <3> QED BY <3>1 DEF Modules
  <2>3. CASE def(i, j, d)
    <3>1. PICK k : k = add_method(modules[i].classes[j], d)
      OBVIOUS
    <3>2. k \in Classes
      <4>1. PICK c, l, o : /\ c = modules[i].classes[j] /\ l = Append(c.methods, d)
                           /\ o = (c.overrides \/ d.virtual)
        OBVIOUS
      <4>2. l \in Seq(Decls) /\ o \in BOOLEAN /\ c \in Classes
        <5>1. c \in Classes /\ c.methods \in Seq(Decls)
          BY <2>2, <4>1 DEF Classes
        <5>2. o \in BOOLEAN
          BY <4>1
        <5> QED BY <2>1, <4>1, <5>1, <5>2
      <4>3. k = [c EXCEPT !.methods = l, !.overrides = o]
        BY <3>1, <4>1 DEF add_method
      <4> QED BY <4>2, <4>3 DEF Classes
    <3>3. Running /\ Declare([modules EXCEPT ![i].classes[j] = k])
      BY <1>2, <2>3, <3>1 DEF def
    <3> QED BY <3>2, <3>3, ChangeClassInv
  <2>4. CASE ctor(i, j, d)
    <3>1. PICK k : k = [modules[i].classes[j] EXCEPT !.methods = Append(@, d)]
      OBVIOUS
    <3>2. k \in Classes
      <4>1. PICK c, l : c = modules[i].classes[j] /\ l = Append(c.methods, d)
        OBVIOUS
      <4>2. l \in Seq(Decls) /\ c \in Classes
        <5>1. c \in Classes /\ c.methods \in Seq(Decls)
          BY <2>2, <4>1 DEF Classes
        <5> QED BY <2>1, <4>1, <5>1
      <4>3. k = [c EXCEPT !.methods = l]
        BY <3>1, <4>1
      <4> QED BY <4>2, <4>3 DEF Classes
    <3>3. Running /\ Declare([modules EXCEPT ![i].classes[j] = k])
      BY <1>2, <2>4, <3>1 DEF ctor
    <3> QED BY <3>2, <3>3, ChangeClassInv
  <2> QED BY <2>3, <2>4
<1> QED BY <1>1, <1>2

LEMMA GenerateInv ==
    ASSUME KeepsRules, IInv, generate_cabi \/ generate_csharp
    PROVE  IInv'
<1>1. CASE Throw
  BY <1>1, ThrowInv
<1>2. CASE ~Throw
  <2>1. PICK ir : ir = append_internal_modules(modules)
    OBVIOUS
  <2>2. /\ modules # <<>> /\ MayGenerate(ir) /\ UNCHANGED modules
        /\ cabi' \in {cabi, ir} /\ csharp' \in {csharp, ir}
    BY <1>2, <2>1 DEF generate_cabi, generate_csharp
  <2>3. Kept(ir)
    BY <2>1, <2>2, InternalAdded DEF IInv
  <2>4. modules' \in Seq(Modules) /\ Internal \notin Names(modules')
        /\ append_internal_modules(modules') = ir
    BY <2>1, <2>2 DEF IInv
  <2>5. /\ cabi' # NotWritten => cabi' = ir
        /\ csharp' # NotWritten => csharp' = ir
    BY <2>1, <2>2 DEF IInv
  <2> QED BY <2>3, <2>4, <2>5 DEF IInv
<1> QED BY <1>1, <1>2

\* While a program declares and generates, both files are made of the same declarations,
\* and of all of them.
THEOREM BindingsInductive == KeepsRules /\ Spec => []IInv
<1>1. KeepsRules /\ IInv /\ [Next]_vars => IInv'
  <2> SUFFICES ASSUME KeepsRules, IInv, [Next]_vars PROVE IInv'
    OBVIOUS
  <2>1. CASE \E name \in ModuleNames : upsert_module(name)
    BY <2>1, UpsertInv
  <2>2. ASSUME NEW i \in DOMAIN modules, \E name \in ModuleNames : import_module(i, name)
        PROVE  IInv'
    BY <2>2, ImportInv
  <2>3. ASSUME NEW i \in DOMAIN modules, \E class \in ClassDecls : class_(i, class)
        PROVE  IInv'
    BY <2>3, ClassInv
  <2>4. ASSUME NEW i \in DOMAIN modules, \E t \in Enums : enum_(i, t)
        PROVE  IInv'
    BY <2>4, EnumInv
  <2>5. ASSUME NEW i \in DOMAIN modules, \E d \in Functions : def_impl(i, d)
        PROVE  IInv'
    BY <2>5, FunctionInv
  <2>6. ASSUME NEW i \in DOMAIN modules, NEW j \in DOMAIN modules[i].classes, NEW d \in Methods,
               def(i, j, d) \/ ctor(i, j, d)
        PROVE  IInv'
    BY <2>6, MethodInv
  <2>7. CASE generate_cabi \/ generate_csharp
    BY <2>7, GenerateInv
  <2>8. CASE UNCHANGED vars
    BY <2>8 DEF vars, IInv, Names, append_internal_modules
  <2> QED BY <2>1, <2>2, <2>3, <2>4, <2>5, <2>6, <2>7, <2>8 DEF Next
<1>2. KeepsRules => KeepsRules'
  BY DEF KeepsRules
<1>3. Init => IInv
  BY InitInv
<1> QED BY <1>1, <1>2, <1>3, PTL DEF Spec

\* What the C# code calls is declared there, and what is declared is exported by the C ABI
\* with the same arguments for the same C++ declaration.
THEOREM ImportsAreExported == KeepsRules /\ Spec => []ImportsExported
<1>1. IInv => ImportsExported
  <2> SUFFICES ASSUME IInv, Built PROVE Calls(csharp) \subseteq Imports(csharp)
                                        /\ Imports(csharp) \subseteq Exports(cabi)
    BY DEF ImportsExported
  <2>1. Kept(csharp) /\ csharp = cabi
    BY DEF IInv, Built
  <2>2. /\ Calls(csharp) \subseteq Imports(csharp)
        /\ Imports(csharp) \subseteq Exports(csharp)
    BY <2>1, EverythingDeclared
  <2> QED BY <2>1, <2>2
<1> QED BY <1>1, BindingsInductive, PTL

\* The callback table of a class has the same methods at the same indexes on both sides,
\* and a type id stands for the same class.
THEOREM SlotsAreAgreed == KeepsRules /\ Spec => []SlotsAgree
<1>1. IInv => SlotsAgree
  <2> SUFFICES ASSUME IInv, Built PROVE SlotsAgree
    BY DEF SlotsAgree
  <2>1. Kept(csharp) /\ cabi = csharp
    BY DEF IInv, Built
  <2>2. \A m \in Range(csharp) : \A c \in Range(m.classes) :
          ManagedSlots(csharp, m, c) = NativeSlots(cabi, m, c)
    BY <2>1, SameMethods
  <2> QED BY <2>1, <2>2 DEF SlotsAgree
<1> QED BY <1>1, BindingsInductive, PTL
=============================================================================
