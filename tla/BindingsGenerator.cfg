CONSTANTS
    Stl = "std"
    Internal = "csbind23_internal"
    Enums = {"Color"}
    ModuleNames = {"m", "n", "std"}
    ClassDecls <- MCClassDecls
    Methods <- MCMethods
    Functions <- MCFunctions
    Rules = {"SameKeys", "AllVisible", "PlainVirtuals", "Complete"}
    MaxCalls = 6
SPECIFICATION Spec
INVARIANTS ImportsExported SlotsAgree
CHECK_DEADLOCK FALSE
