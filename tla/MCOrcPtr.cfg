CONSTANTS
    Var = {a, b, c}
    Obj = {o1, o2}
    Null = Null
    NoTemp = NoTemp
    MaxHaz = 5
    Ops = {"construct", "make", "load", "loadnull", "unmark", "copy", "move", "assign", "moveassign", "swapalike"}
SPECIFICATION Spec
SYMMETRY Symmetry
INVARIANTS
    TypeOK
    UsedIsCount
    HeldIsSafe
    PtrInv
PROPERTIES
    CopiesGoUp
    OnlyUnmarkForgets
