\* Three scenes: two devices of a user and two requests at once; a candidate for mentor who applies
\* twice, two calls at once; a founder in a guided module, two calls at once.
CONSTANTS
    d1 = d1
    d2 = d2
    r1 = r1
    r2 = r2
    c1 = c1
    a1 = a1
    a2 = a2
    e1 = e1
    q1 = q1
    f1 = f1
    l1 = l1
    None = None
    Devices = {d1, d2}
    Requests = {r1, r2}
    Codes = {c1}
    MaxTokens = 4
    MaxFaults = 1
    NoToken = NoToken
    NoChain = NoChain
    NoCode = NoCode
    NoDevice = NoDevice
    Applications = {a1, a2}
    Emails = {e1}
    EmailOf <- OneCandidate
    Asks = {q1}
    Calls = {r1, r2}
    Asked = {"d1"}
    Reported = {5}
    Passes = {3}
    MaxModules = 1
    Fiches = {f1}
    Links = {l1}
    Visits = {r1, r2}
    MaxMessages = 1
    OneAtATime = {"turn", "rescore"}
SPECIFICATION SceneSpec
INVARIANTS PeopleTypeOK OneTokenPerChain RotationIsSafe MentorshipIsSound FormMatchesPhase
PROPERTIES EndedForGood CoachingIsSound
SYMMETRY AnybodyMayCall
\* The bounds on the tokens, the messages and the rows end the behaviours.
CHECK_DEADLOCK FALSE
