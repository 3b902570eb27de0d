SPECIFICATION Spec
CONSTANTS
    Agent = {a1}
    proj = proj
    sibling = sibling
    Path = {proj}
    PrefixOf <- MCPrefixOf
    HandoffId = {h1, h2}
    Wrapper = {w1, w2}
    Surface = {}
    Owner = Owner
    LocalUser = LocalUser
    Supersede = Supersede
    None = None
    Override = {"completed"}
    MaxInjections = 2
SYMMETRY Symmetry
INVARIANT DeliveredAtMostOnce
CHECK_DEADLOCK FALSE
