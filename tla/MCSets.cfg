CONSTANTS
    Program <- Programs
    Structures = {"MichaelHarrisList", "HarrisList", "HerlihyShavitList", "TBKPList", "SkipList", "NatarajanTree"}
    Variants = {TRUE, FALSE}
SPECIFICATION Spec
INVARIANTS Linearizable NoUseAfterFree RetiredOnce NothingLost
