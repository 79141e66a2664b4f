CONSTANTS
    A = A
    B = B
    C = C
    NoProvider = NoProvider
    Token = {A, B, C}
    Call = {c1, c2}
    Transient = {}
    Alias = {C}
    OptionalDep = {}
    Missing = NoProvider
    Registries <- MCRegistries
    Replacements <- MCReplacements
    MaxPromise = 6
    MaxOverride = 1
    MaxDispose = 2
SPECIFICATION FairSpec
INVARIANTS NoStaleDependency DestroyOnce DisposalComplete
PROPERTIES DeliveredOnce DependentsFirst DisposalSettles
CHECK_DEADLOCK FALSE
