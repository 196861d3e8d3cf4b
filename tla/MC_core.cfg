SPECIFICATION Spec

CONSTANTS
    n1 = n1  n2 = n2  n3 = n3  s1 = s1  w1 = w1  w2 = w2
    NoNode = NoNode  NoReport = NoReport  NoEntry = NoEntry
    Node = {n1, s1}
    Thread = {w1, cl, f1}
    Worker = {w1}
    Cleaner = cl
    Writer = {f1}
    Group <- OneGroup
    Spare = {s1}
    Faulty = {n1}
    SelfNode = NoNode
    ConfigChoices <- RebootFirst
    RebootGrace = 1
    JoinWindow = 1
    AgeCap = 2
    ScoreCap = 1
    Budget <- Quick

INVARIANT TypeOK
INVARIANT PhaseEffects
INVARIANT RebootTimed
INVARIANT SafetyInv
PROPERTY DeletedNodeWasDrained
PROPERTY ReplaceOnlyForward
