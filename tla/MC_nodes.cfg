SPECIFICATION NodeFairSpec

CONSTANTS
    n1 = n1  s1 = s1
    NoNode = NoNode  NoReport = NoReport  NoEntry = NoEntry
    Node = {n1, s1}
    Worker = {w1}
    Cleaner = cl
    Group <- OneGroup
    Spare = {s1}
    Faulty = {n1}
    Managed = {n1}
    Looker = {l1}
    Checker = {c1}
    ConfigChoices <- NoRules
    GraceTime = 2
    JoinWindow = 0
    AgeCap = 0
    ScoreCap = 0
    RebootGrace = 0
    Budget <- Unsteady
    SelfNode = NoNode
    Lagging = FALSE
    Writer = {l1, c1, r1}
    Thread = {w1, cl, l1, c1, r1}

INVARIANT NodeTypeOK
INVARIANT NoLostWork
INVARIANT SuspicionWatched
INVARIANT WatchInv
 
 
PROPERTY UnreadyRemoved
PROPERTY FollowsLifecycle
