SPECIFICATION Spec
CONSTANTS
    Agent = {a1}
    proj = proj
    sibling = sibling
    Path = {proj}
    PrefixOf <- MCPrefixOf
    HandoffId = {h1, h2}
    Wrapper = {w1}
    Surface = {s1}
    Owner = Owner
    LocalUser = LocalUser
    Supersede = Supersede
    None = None
    Override = {"in_progress", "completed"}
    MaxInjections = 1
SYMMETRY Symmetry
INVARIANTS
    CurrentRevisionMeansCurrentState
PROPERTIES
    RevisionMovesWithEveryTransition
CHECK_DEADLOCK FALSE
