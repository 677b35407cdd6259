SPECIFICATION MCSpec
CONSTANTS
    a = a  b = b  Nobody = Nobody  Unborn = Unborn  Gone = Gone
    Emails = {a, b}
    Roles = {"admin", "viewer"}
    Handlers = {h1, h2}
    Limit = 2
    MaxId = 3
    MaxTokens = 1
    Projects = {p1, p2}
    Environments = {e1, e2, e3}
    Keys = {k1, k2}
SYMMETRY Symmetry
INVARIANT TypeOK AdminRemains FailuresBounded ProjectRemains DefaultsDoNotCollide NothingOutlivesItsParent
PROPERTY NobodyReturns RevokingLeavesAKey WithinProject
CHECK_DEADLOCK FALSE
