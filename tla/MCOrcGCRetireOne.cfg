CONSTANTS
    N = 2
    o1 = o1
    o2 = o2
    o3 = o3
    r1 = r1
    r2 = r2
    r3 = r3
    Obj = {o1, o2, o3}
    Root = {r1, r2, r3}
    Null = Null
    Poison = Poison
    MaxHaz = 2
    MaxRetCnt = 2
    InitMaxHPs = 2
    InitLink <- RootsAndLink
    Program <- MoveLink
SPECIFICATION Spec
INVARIANTS
    NoUseAfterFree
