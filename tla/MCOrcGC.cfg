CONSTANTS
    N = 2
    o1 = o1
    o2 = o2
    o3 = o3
    r1 = r1
    r2 = r2
    r3 = r3
    Obj = {o1, o2}
    Root = {r1}
    Null = Null
    Poison = Poison
    MaxHaz = 3
    MaxRetCnt = 2
    InitMaxHPs = 3
    InitLink <- OneNode
    Program <- Everything
SPECIFICATION FairSpec
INVARIANTS TypeOK NoUseAfterFree OneRetirer CountIsLinks NothingForgotten AllReclaimed RetireInv
PROPERTIES RetireEnds SafeKept
