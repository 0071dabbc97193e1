CONSTANTS
    Ids = {1}
    TEXTS <- MCTexts
    INTS <- MCInts
    SingleTypes <- MCSingleTypes
    SingleInts <- MCSingleInts
    Null = Null
    Absent = Absent
SPECIFICATION Spec
PROPERTIES
    CanonicalCount
