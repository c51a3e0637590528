SPECIFICATION Spec
CONSTANTS
    a = a
    b = b
    f = f
    t1 = t1
    t2 = t2
    out = out
    order = order
    count = count
    Cells = {a, b, f}
    Docs = {out, order, count}
    Doc <- AllDocs
    Opening <- Levels
    Cost <- Costs
    Amounts = {0, 2}
    Txns = {t1, t2}
    Faulty = TRUE
    None = None
SYMMETRY Symmetry
CHECK_DEADLOCK FALSE
INVARIANTS
    TypeOK
    StockIsMovements
    DocumentsTellTheTruth
PROPERTIES
    CompletionsStand
