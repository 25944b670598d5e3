CONSTANTS
    o1 = o1
    o2 = o2
    o3 = o3
    Objs <- MCObjs
    MaxFd = 4
SYMMETRY ObjSymmetry
SPECIFICATION Spec
INVARIANT OwnedOnce NoDangling NoLeak
