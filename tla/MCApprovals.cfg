SPECIFICATION Spec
CONSTANTS
    draft = draft
    review = review
    published = published
    submit = submit
    publish = publish
    sendback = sendback
    edit = edit
    decide = decide
    None = None
    Users = {ann}
    Instances = {i1}
    Approvals = {a1, a2}
    Handlers = {h1, h2}
    States <- MCStates
    Actions <- MCActions
    Perms <- MCPerms
    Edges <- MCEdges
    Rules <- MCRules
    Initial = draft
    Cancellable = TRUE
    Crashable = TRUE
SYMMETRY Symmetry
INVARIANTS
    TypeOK
    AtMostOnce
    ExecutedStaysResolved
    ClaimIsExclusive
PROPERTIES
    ExpiredIsInert
    KeepsPromise
