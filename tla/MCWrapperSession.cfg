SPECIFICATION FairSpec
CONSTANTS
    Session = {s1, s2}
    h1 = h1
    h2 = h2
    n1 = n1
    n2 = n2
    Place <- Everywhere
    Home <- HereOnly
    Daemon <- Here
    Conversation = {c1}
    None = None
    Override = {"cancelled"}
    MaxUpsets = 2
INVARIANTS TypeOK RecoverySparesTheLiving LiveAgentsAreOnRecord OneAgentPerConversation
PROPERTIES RefinesRegister DeadSessionsAreClosed
CHECK_DEADLOCK FALSE
