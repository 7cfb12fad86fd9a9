CONSTANTS
    N = 2
    Addrs = 6
    HPs = 3
    Program <- SleepyPrograms
    Structures = {"TurnQueue"}
    Variants = {TRUE}
SPECIFICATION SleepySpec
INVARIANT Linearizable
