SPECIFICATION FairSpec
CONSTANTS
    t1 = t1
    t2 = t2
    q1 = q1
    q2 = q2
    Tasks = {t1, t2}
    Requests = {q1, q2}
    MaxActs = 4
    None = None
INVARIANTS
    TypeOK
    TaskIsRouted
    LoadIsUnderWay
    StaleScreenLoads
    CatchesUp
    CommentsCatchUp
PROPERTIES
    ScreenFollows
    DraftIsKept
