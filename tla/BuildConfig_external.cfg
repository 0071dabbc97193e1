CONSTANTS
    Compilers <- MCCompilers
    PublicSyms = {p1}
    LocalSyms = {l1}
    Unconfigured = Unconfigured
    NotBuilt = NotBuilt
SPECIFICATION Spec
INVARIANT ExternalCxx17Compiles
