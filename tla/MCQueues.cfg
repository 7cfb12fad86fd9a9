CONSTANTS
    N = 2
    Addrs = 8
    HPs = 3
    Program <- Programs
    Structures = {"TreiberStack", "MichaelScottQueue", "TurnQueue", "LCRQueue", "TinyLCRQueue", "KoganPetrankQueue"}
    Variants = {TRUE, FALSE}
SPECIFICATION Spec
INVARIANTS Linearizable NoUseAfterFree RetiredOnce NothingLost
PROPERTY NonBlocking
