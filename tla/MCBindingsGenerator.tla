------------------------ MODULE MCBindingsGenerator ------------------------
EXTENDS BindingsGenerator

\* A class A, and a class B whose first base P is never bound.
MCClassDecls == {[cpp |-> "A", bases |-> <<>>], [cpp |-> "B", bases |-> <<"P", "A">>]}

Virtual(d) == [d EXCEPT !.virtual = TRUE]

Raw(d) == [d EXCEPT !.raw = TRUE]

MCMethods ==
    {[Virtual(FunctionDecl("f", "f", "int", <<"int">>)) EXCEPT !.defaults = 1],
     Virtual(FunctionDecl("f", "f", "Color", <<"Color">>)),
     Virtual(FunctionDecl("g", "g", "void", <<>>)),
     Virtual(FunctionDecl("g", "g2", "void", <<>>)),
     Raw(Virtual(FunctionDecl("g", "g", "void", <<>>))),
     Raw(FunctionDecl("g", "g_raw", "void", <<>>)),
     [FunctionDecl("__ctor", "", "void*", <<>>) EXCEPT !.ctor = TRUE, !.owned = TRUE]}

MCFunctions ==
    {[FunctionDecl("h", "h", "void", <<"text", "int">>) EXCEPT !.defaults = 3],
     FunctionDecl("k", "k", "Color", <<"Color">>)}

=============================================================================
