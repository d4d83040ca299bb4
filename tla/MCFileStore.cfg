SPECIFICATION Spec
CONSTANTS
    Hash = {h1, h2}
    Stray = {s}
    NonUtf8 = {u}
    HexName = {x}
INVARIANTS
    BlocksSurvive
    ResidueAccounted
PROPERTIES
    ImplementsAtomicStore
