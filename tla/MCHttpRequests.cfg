SPECIFICATION Spec
CONSTANT
    Api <- newRouter
INVARIANTS
    ReasonsReachTheCaller
    RefusalsLeaveNothing
    ChangesAreAccountable
