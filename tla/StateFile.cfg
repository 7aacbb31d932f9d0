SPECIFICATION StateSpec
CONSTANTS
    Processes = {p1, p2, p3}
    BestEffort = {p3}
    None = None
    Partial = Partial
INVARIANT FileWhole
PROPERTY EveryoneEnds
