CONSTANTS
    Routines = {g1, g2}
    Slots = {h1, h2}
SPECIFICATION Spec
SYMMETRY Symmetry
INVARIANTS
    NothingOutlivesDb
    CallsOwnTheirObjects
    RegistryExact
    FreedExactlyOnce
    NeverStuck
CHECK_DEADLOCK FALSE
