\* Three scenes: two requests work on the same session; two callers share a chain of providers; two
\* requests of a client race in a window of the rate limiter.
CONSTANTS
    ba = ba
    ndiaye = ndiaye
    sow = sow
    market = market
    money = money
    m1 = m1
    b1 = b1
    b2 = b2
    b3 = b3
    s1 = s1
    s2 = s2
    r1 = r1
    r2 = r2
    Sessions = {s1}
    NoSession = NoSession
    Requests = {r1, r2}
    Order <- OneJudge
    Obsession <- Obsessions
    Pool <- SmallPool
    Assessable = {}
    Quota = 1
    Overlap = TRUE
    MaxNarrations = 1
    N = 2
    Callers = {1, 2}
    MaxCalls = 4
    Hits = {1, 2}
    MaxHits = 3
    Limit = 1
SPECIFICATION WaitingSpec
INVARIANTS CompletedHasRun RunsHaveVerdicts ResilienceIsSound
PROPERTIES EveryRequestEnds EveryCallEnds
\* The calls and the requests of the small instance come to an end.
CHECK_DEADLOCK FALSE
