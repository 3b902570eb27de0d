SPECIFICATION Spec
CONSTANTS
    Agent = {a1}
    proj = proj
    sibling = sibling
    Path = {proj}
    PrefixOf <- MCPrefixOf
    HandoffId = {h1, h2}
    Wrapper = {w1}
    Surface = {}
    Owner = Owner
    LocalUser = LocalUser
    Supersede = Supersede
    None = None
    Override = {"completed"}
    MaxInjections = 1
SYMMETRY Symmetry
INVARIANT ClosedIsNeverSuperseded
CHECK_DEADLOCK FALSE
