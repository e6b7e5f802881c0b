SPECIFICATION SearchSpec
CONSTANTS
    c = c
    h1 = h1
    h2 = h2
    Caller = c
    Helpers = {h1, h2}
    RandomKeys = {1, 2, 3}
    Wanted = {2, 3}
INVARIANT
    PairWhole
CHECK_DEADLOCK FALSE
