\* acceptMessage's duplicate filter with a three-entry cache.
CONSTANTS
    Key = {k1, k2, k3, k4}
    Size = 3
    MaxSeq = 7
SPECIFICATION Spec
INVARIANTS
    TypeOK
    CacheConsistent
PROPERTIES
    ImplementsWindow
