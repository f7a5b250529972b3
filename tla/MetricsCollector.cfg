SPECIFICATION Spec
CONSTANTS
    Scrapes = {s1, s2}
    Handlers = {h1, h2}
    Targets = {"t1", "t2"}
    None = None
SYMMETRY Symmetry
CHECK_DEADLOCK FALSE
INVARIANTS
    TypeOK
    NoMapRace
    SameSnapshot
