SPECIFICATION FairSpec
CONSTANTS
    c = c
    h1 = h1
    h2 = h2
    i1 = i1
    i2 = i2
    i3 = i3
    i4 = i4
    Nobody = Nobody
    Helpers = {h1, h2}
    Collector = c
    Items = {i1, i2, i3, i4}
    Heaps <- MCHeaps
    ShareMin = 2
    TakeMax = 1
INVARIANTS
    TypeOK
PROPERTIES
    ImplementsMarking
    MarkingEnds
