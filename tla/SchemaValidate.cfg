CONSTANTS
    KEYS <- MCKeys
    VALS <- MCVals
    NoKey <- MCNoKey
SPECIFICATION Spec
INVARIANTS
    ValidateExact
    IInv
\* The walk ends after validate_no_more or the first throw.
CHECK_DEADLOCK FALSE
