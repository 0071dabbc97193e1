CONSTANTS
    MaxTrackId = 2
    VALS = {v1, v2}
    BLOBS = {b1}
    TRIPLES <- MCTriples
    Null = Null
    NoTable = NoTable
SPECIFICATION Spec
PROPERTIES
    TrackRoundTrip
    PerfRoundTrip
    LibraryStoreSpec
INVARIANT StoreInv
