\* A scene for each component: two scorings and the switch of their grid; a document and a link of a
\* project that is erased; an audit in two batches; two tabs on a deck and a logo; the two benches; a
\* founder, a mentor and an admin on two reports and an opportunity.
CONSTANTS
    g1 = g1
    g2 = g2
    adm1 = adm1
    adm2 = adm2
    s1 = s1
    j1 = j1
    o1 = o1
    o2 = o2
    f1 = f1
    k1 = k1
    d1 = d1
    l1 = l1
    r1 = r1
    r2 = r2
    t1 = t1
    t2 = t2
    p1 = p1
    p2 = p2
    fallback = fallback
    qs = qs
    qt = qt
    qp = qp
    made_up = made_up
    f = f
    m = m
    a = a
    opp1 = opp1
    c1 = c1
    c2 = c2
    None = None
    Other = Other
    Truncated = Truncated
    Adds = {o1, o2}
    Declared = {k1}
    Findings = {f1}
    DIMENSION_BY_TYPE <- OnD6
    Dimensions = {"d6"}
    MaxItems = 3
    Grids <- TwoGrids
    Category = "fintech"
    PassResults <- SomePasses
    HumanScores <- HumanScored
    Admins = {adm1, adm2}
    Scorings = {s1}
    Adjusts = {j1}
    MaxRuns = 2
    InTurn = TRUE
    Docs = {d1}
    Shares = {l1}
    Requests = {r1, r2}
    Pdf = "pdf"
    MaxViews = 2
    Reliable = FALSE
    Quotes = {qs, qt, qp, made_up}
    Found = {qs, qt, qp}
    LongPrefix <- LongQuotes
    Lot <- ThreeDossiers
    Said <- Findable
    Limits = {1, 3}
    MaxBatches = 2
    Sections = {"problem", "ask"}
    Texts = {t1, t2}
    DeckAnswers <- DeckGiven
    LogoAnswers <- LogoGiven
    Tabs = {r1, r2}
    MaxDecks = 2
    MaxTabCalls = 5
    Serial = {"section"}
    Corpus <- ThinAndRich
    BenchGrid <- BenchAxes
    PassOutputs <- BenchPasses
    Sweeps <- TwoSweeps
    Wrapped <- OneChain
    Tempered = {p1, p2}
    Provider = fallback
    Arguments <- CommandLines
    Outputs <- BenchOutputs
    Permits = 2
    Users = {f, m, a}
    RoleOf <- ThreeRoles
    Founder = f
    Sector = "fintech"
    Granted = {"opportunity:manage"}
    Threads = {c1, c2}
    Opps = {opp1}
    Criteria <- OneCriterion
    Results <- TwoResults
    MaxReports = 2
SPECIFICATION SceneSpec
INVARIANTS
    ProjectsTypeOK ConsensusIsRobust SomeGridActive MemoryIsSound VaultIsSound AuditIsSound
    WorkbenchIsSound BenchIsSound JourneyIsSound
SYMMETRY Alike
\* The bounds on the calls, the batches and the runs end the behaviours.
CHECK_DEADLOCK FALSE
