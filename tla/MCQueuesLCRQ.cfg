CONSTANTS
    N = 2
    Addrs = 8
    HPs = 3
    Program <- LaggingPrograms
    Structures = {"TinyLCRQueue"}
    Variants = {TRUE, FALSE}
SPECIFICATION Spec
INVARIANT NoUseAfterFree
