SPECIFICATION FairSpec

CONSTANTS
    n1 = n1  e1 = e1  e2 = e2  w1 = w1  w2 = w2
    NoNode = NoNode  NoReport = NoReport  NoJob = NoJob
    Node = {n1}
    About <- OneNode
    Ruled = {n1}
    Other = {c1}
    ScoreCap = 0
    Event = {e1}
    Worker = {w1}
    Recurrences <- TwiceOnce
    RepeatCap = 2
    AgeCap = 1
    EventWindow = 1
    BucketSize = 1
    Score <- EachOne
    Budget <- Losing
    Thread = {w1, c1}
    Relevant = {e1}

INVARIANT TypeOK
INVARIANT SpentOnce
INVARIANT EventInv
PROPERTY MessagesOnlyGrow
PROPERTY RestartNeverRepeats
PROPERTY EventsRecorded
