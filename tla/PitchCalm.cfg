\* One request at a time on each session of a project.
CONSTANTS
    ba = ba
    ndiaye = ndiaye
    sow = sow
    market = market
    money = money
    m1 = m1
    b1 = b1
    b2 = b2
    b3 = b3
    s1 = s1
    s2 = s2
    r1 = r1
    r2 = r2
    Sessions = {s1, s2}
    NoSession = NoSession
    Requests = {r1}
    Order <- SharedAxis
    Obsession <- Obsessions
    Pool <- AnglePool
    Assessable = {money}
    Quota = 2
    Overlap = FALSE
    MaxNarrations = 2
SPECIFICATION PitchSpec
SYMMETRY Symmetric
INVARIANTS PitchTypeOK QaIsFair ConvictionsReplayed
PROPERTIES PhaseMachine PostMortemKept
