CONSTANTS
    A = A
    B = B
    C = C
    NoProvider = NoProvider
    Token = {A, B, C}
    Call = {c1, c2, c3}
    Transient = {}
    Alias = {}
    OptionalDep = {C}
    Missing = NoProvider
    Registries <- MCRegistries
    Replacements <- MCReplacements
    MaxPromise = 9
    MaxOverride = 0
    MaxDispose = 0
SPECIFICATION FairSpec
INVARIANTS NoCircularWait NoSpuriousCycle SingletonShared
PROPERTIES ResolveSettles
CHECK_DEADLOCK FALSE
