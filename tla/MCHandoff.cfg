SPECIFICATION Spec
CONSTANTS
    Agent = {a1, a2}
    proj = proj
    sibling = sibling
    Path = {proj, sibling}
    PrefixOf <- MCPrefixOf
    HandoffId = {h1, h2}
    Wrapper = {w1}
    Surface = {}
    Owner = Owner
    LocalUser = LocalUser
    Supersede = Supersede
    None = None
    Override = {"completed"}
    MaxInjections = 1
SYMMETRY Symmetry
INVARIANTS
    TypeOK
    LinkedRowsAgree
    UniqueDeliverable
    ContextIsForMe
PROPERTIES
    TerminalStaysTerminal
    RefinesMailbox
CHECK_DEADLOCK FALSE
