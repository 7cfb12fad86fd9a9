CONSTANTS
    Threads = {t1, t2, t3}
    N = 3
SPECIFICATION FairSpec
CHECK_DEADLOCK TRUE
INVARIANTS
    TypeOK
    UniqueTid
    MaxCoversLive
    NeverFull
    RegistryInv
PROPERTIES
    MaxNeverShrinks
    RegistrationEnds
