SPECIFICATION FairSpec
CONSTANTS
    Files = {f1, f2, f3, f4, f5, f6, f7, f8}
    None = None
    Importers = {i1, i2}
    MaxImports = 3
    MaxFaults = 2
INVARIANTS
    TypeOK
    NothingThrownAway
    WorksOnCopied
PROPERTY XrayComesBack
CHECK_DEADLOCK FALSE
