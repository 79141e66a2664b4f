CONSTANTS
    A = A
    B = B
    C = C
    NoProvider = NoProvider
    Token = {A, B, C}
    Call = {c1, c2, c3}
    Transient = {C}
    Alias = {}
    OptionalDep = {}
    Missing = NoProvider
    Registries <- MCRegistries
    Replacements <- MCReplacements
    MaxPromise = 6
    MaxOverride = 1
    MaxDispose = 0
SPECIFICATION Spec
INVARIANT SharedAcrossOverride
SYMMETRY Symmetric
CHECK_DEADLOCK FALSE
