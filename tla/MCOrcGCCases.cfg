CONSTANTS
    Cases = {"readers", "chain", "three", "relink"}
    o1 = o1
    o2 = o2
    o3 = o3
    r1 = r1
    r2 = r2
    r3 = r3
    Null = Null
    Poison = Poison
SPECIFICATION Spec
SYMMETRY Symmetry
INVARIANTS NoUseAfterFree OneRetirer CountIsLinks NothingForgotten AllReclaimed
