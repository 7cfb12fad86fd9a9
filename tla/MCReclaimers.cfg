CONSTANTS
    Cases = {"hp", "hp2", "ptp", "ptp2", "ptp3", "ptb"}
    Links = {l1}
SPECIFICATION Spec
INVARIANTS NoUseAfterFree OnePlace
PROPERTIES Promise NonBlocking
