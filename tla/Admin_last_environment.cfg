SPECIFICATION MCSpec
CONSTANTS
    a = a  b = b  Nobody = Nobody  Unborn = Unborn  Gone = Gone
    Emails = {a, b}
    Roles = {"admin", "viewer"}
    Handlers = {h1, h2}
    Limit = 2
    MaxId = 2
    MaxTokens = 0
    Projects = {p1}
    Environments = {e1, e2}
    Keys = {k1}
SYMMETRY Symmetry
PROPERTY AnEnvironmentRemains
CHECK_DEADLOCK FALSE
