SPECIFICATION NodeFairSpec

CONSTANTS
    n1 = n1  s1 = s1
    NoNode = NoNode  NoReport = NoReport  NoEntry = NoEntry
    Node = {n1}
    Worker = {w1}
    Cleaner = cl
    Group <- OneGroup
    Spare = {}
    Faulty = {n1}
    Managed = {n1}
    Looker = {l1}
    Checker = {c1}
    ConfigChoices <- RebootFirst
    GraceTime = 2
    JoinWindow = 0
    AgeCap = 0
    ScoreCap = 1
    RebootGrace = 0
    Budget <- OnlyReboots
    SelfNode = NoNode
    Lagging = FALSE
    Writer = {l1, c1}
    Thread = {w1, cl, l1, c1}

PROPERTY UnreadyReplaced
