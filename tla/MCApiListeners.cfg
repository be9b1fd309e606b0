SPECIFICATION Spec
CONSTANTS
    Clients = {c1, c2}
    Callbacks = {a, b}
    Kinds = {cartesian, polar}
    Registered = {cartesian}
    None = None
    Alone = TRUE
    MaxEntries = 2
SYMMETRY Symmetry
INVARIANTS
    TypeOK
    NoDestroyedHandler
    NobodyMissed
