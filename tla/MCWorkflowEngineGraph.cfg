SPECIFICATION Spec
CONSTANTS
    open = open
    shipped = shipped
    turn = turn
    work = work
    delivery = delivery
    quantity = quantity
    unit = unit
    i1 = i1
    i2 = i2
    None = None
    Instances = {i1, i2}
    States <- MCStates
    Initial = open
    Actions <- MCActions
    Perms = {work}
    Kinds = {delivery}
    Fields = {quantity}
    Products = {unit}
    Edges <- MCEdges
    Users = {ann}
    CreatePerm = work
    Required = {}
    Holds <- MCHolds
    Sessions = {s1, s2}
    Calls <- MCSingle
    Stock <- MCStock
    MaxAudit = 1
SYMMETRY Symmetry
INVARIANTS
    FollowsTheGraph
