CONSTANTS
    source = source
    other = other
    first = first
    second = second
    last = last
    Nodes = {source, other, first, second, last}
    Definitions <- Graphs
SPECIFICATION Spec
INVARIANTS
    SameOutcome
    WaitsForAll
    TraceTellsTheOutcome
PROPERTIES
    RunEnds
