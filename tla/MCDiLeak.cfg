CONSTANTS
    A = A
    B = B
    C = C
    NoProvider = NoProvider
    Token = {A, B, C}
    Call = {c1, c2}
    Transient = {}
    Alias = {C}
    OptionalDep = {}
    Missing = NoProvider
    Registries <- MCRegistries
    Replacements <- MCReplacements
    MaxPromise = 6
    MaxOverride = 0
    MaxDispose = 1
SPECIFICATION Spec
INVARIANT NothingLeaks
SYMMETRY Symmetric
CHECK_DEADLOCK FALSE
