\* A session that was abandoned.
CONSTANTS
    ba = ba
    ndiaye = ndiaye
    sow = sow
    market = market
    money = money
    m1 = m1
    b1 = b1
    b2 = b2
    b3 = b3
    s1 = s1
    s2 = s2
    r1 = r1
    r2 = r2
    Sessions = {s1}
    NoSession = NoSession
    Requests = {r1}
    Order <- OneJudge
    Obsession <- Obsessions
    Pool <- SmallPool
    Assessable = {}
    Quota = 1
    Overlap = FALSE
    MaxNarrations = 1
SPECIFICATION PitchSpec
PROPERTY AbandonedIsTerminal
