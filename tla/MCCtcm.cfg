SPECIFICATION Spec
CONSTANTS
    Mbuf = {m1, m2}
    DynSlot = {s1, s2, s3, s4}
    None = None
    Packets <- WithTruncated
SYMMETRY PoolSymmetry
INVARIANTS TypeOK ParsedFieldsFresh OnlyCmTracked AppReadsParserFields
CHECK_DEADLOCK FALSE
