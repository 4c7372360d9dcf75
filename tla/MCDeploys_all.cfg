SPECIFICATION DeploysSpec
CONSTANTS
    d1 = d1
    d2 = d2
    w1 = w1
    w2 = w2
    good = good
    better = better
    bad = bad
    doc1 = doc1
    doc2 = doc2
    path1 = path1
    path2 = path2
    NoDeploy = NoDeploy
    Deploys = {d1, d2}
    Specs = {good, better, bad}
    BadSpecs = {bad}
    BareSpecs = {}
    Workers = {w1, w2}
    MaxAttempts = 3
    MaxStalledCount = 1
    MaxFaults = 2
    Docs = {doc1, doc2}
    Repos = {repo}
    Paths = {path1, path2}
    Contents = {file}
    GithubCalls = {d1, d2}
    NoDoc = NoDoc
    Absent = Absent
    MaxLinkEdits = 1
INVARIANTS
    OneVersionPerContent
    PublishedVersionsAreWhole
    JobEndTellsVersion
    PushReachesEveryMapping
SYMMETRY DeploysSymmetry
CHECK_DEADLOCK FALSE
