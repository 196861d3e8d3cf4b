SPECIFICATION Spec

CONSTANTS
    n1 = n1  n2 = n2  n3 = n3  s1 = s1  w1 = w1  w2 = w2
    NoNode = NoNode  NoReport = NoReport  NoEntry = NoEntry
    Node = {n1, n2, n3}
    Thread = {w1, w2, cl, f1}
    Worker = {w1, w2}
    Cleaner = cl
    Writer = {f1}
    Group <- OneGroup
    Spare = {}
    Faulty = {n1, n2, n3}
    SelfNode = NoNode
    ConfigChoices <- OneAtATime
    RebootGrace = 0
    JoinWindow = 1
    AgeCap = 0
    ScoreCap = 1
    Budget <- Crashing

SYMMETRY Interchangeable

INVARIANT LimitOvershoot
INVARIANT LimitInv
INVARIANT CordonRemembered
INVARIANT CordonInv
INVARIANT NoLostWork
INVARIANT WorkInv
PROPERTY FollowsLifecycle
