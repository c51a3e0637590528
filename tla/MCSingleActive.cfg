SPECIFICATION ServicesSpec
CONSTANTS
    \* absences
    Filings = {r1}
    Agents = {g1, g2, g3}
    NoRequest = NoRequest
    \* conditions
    Fields = {"amount", "limit"}
    Unset = Unset
    Absent = Absent
    LeafTests <- MCLeafTests
    Depth = 2
    \* hooks
    Hooks = {h1, h2}
    Operations = {op1}
    \* inbound
    Keys = {"e1", "e2"}
    Padded = {"e2"}
    Feed <- MCFeed
    Pulls = 3
    Stops = 1
    Edits = 2
    \* ledger
    Accounts = {"cash", "abroad", "vat", "sales"}
    Type <- MCType
    Money <- MCMoney
    Drafts <- MCDrafts
    Rates = {3}
    Entries = 1
    NoDraft = NoDraft
    \* members
    Roles = {ro1}
    People = {u1, u2}
    Invites = {i1, i2}
    Calls = {k1, k2, k3}
    Nobody = Nobody
    \* metrics
    Requests = {q1, q2, q3, q4}
    Loop = Loop
    MaxBuffer = 2
    \* orders
    Documents = {"s1", "s2", "d1"}
    Kind <- MCKind
    Staff = {k1, k2}
    NoDocument = NoDocument
    \* payroll
    Periods = {pp1}
    Persons = {n1, n2}
    Amounts = {0, 1, 2}
    Clerks = {c1, c2}
    NoPeriod = NoPeriod
    NoPerson = NoPerson
    \* versions
    Versions = {"a", "b", "c"}
    Editors = {e1, e2}
    NoVersion = NoVersion
    Rivals <- MCRivals
INVARIANTS
    OneActive
CHECK_DEADLOCK FALSE
