SPECIFICATION Spec
CONSTANTS
    Clients = {c1, c2}
    Callbacks = {a, b}
    Kinds = {cartesian, polar}
    Registered = {cartesian}
    None = None
    Alone = FALSE
    MaxEntries = 2
INVARIANTS
    NobodyMissed
