SPECIFICATION MCSpec
CONSTANTS
    Parts = {"episodic"}
    Sessions = {s1, s2}
    Hooks = {h1, h2}
    CodePaths = {code}
    DocPaths = {docs}
    Committed = clean
    Contents <- MCContents
    Flaw <- MCFlaw
    MaxStall = 1
    MaxContinuations = 2
    BaselineCap = 1
    Scenes <- MCScenes
    Nobody = Nobody
    Tasks = {t1, t2, t3}
    Gated = {t3}
    Workers = {w1, w2}
    Loopds = {d1, d2}
    ClaimLimit = 2
    Settings <- MCSettings
    None = None
    Syncs = {p1, p2}
    MaxKills = 1
    MaxCommits = 1
    MaxPeerPushes = 1
    MaxCycles = 2
    Gone = Gone
    Recorders = {r1, r2}
    Categories = {c1, c2}
    BaseFloor <- MCBaseFloor
    MaxTier = 2
    UpLosses = 2
    DownWins = 3
    MinN = 3
    Cooldown = 3
    SmoothedMin = 80
    FloorScenes <- MCFloorScenes
    Absent = Absent
    Torn = Torn
    Builders = {b1, b2}
    Fanout = 2
    Tiers = 3
    IndexScenes <- MCTwoBuilders
    NoMeta = NoMeta
    Unlocked = Unlocked
    code = code
    docs = docs
    clean = clean
    other = other
    broken = broken
    marked = marked
    s1 = s1
    s2 = s2
    h1 = h1
    h2 = h2
    t1 = t1
    t2 = t2
    t3 = t3
    w1 = w1
    w2 = w2
    d1 = d1
    d2 = d2
    r1 = r1
    r2 = r2
    c1 = c1
    c2 = c2
    b1 = b1
    b2 = b2
INVARIANT GapMeansLoss
CHECK_DEADLOCK FALSE
