SPECIFICATION Spec
CONSTANTS
    r1 = r1
    r2 = r2
    r3 = r3
    FlushRq = FlushRq
    Requests <- ThreeRequests
    Kinds <- AllKinds
    Features <- AllFeatures
CHECK_DEADLOCK FALSE
SYMMETRY Swaps
INVARIANTS
    FuaDurable
    FlushedBefore
    OneFlush
    OnePlace
    QuietMeansEnded
