SPECIFICATION SystemSpec
CONSTANTS
    d1 = d1
    w1 = w1
    w2 = w2
    s1 = s1
    s2 = s2
    hook = hook
    good = good
    bad = bad
    NoDeploy = NoDeploy
    Deploys = {d1}
    Specs = {good, bad}
    BadSpecs = {bad}
    BareSpecs = {good}
    Workers = {w1}
    MaxAttempts = 3
    MaxStalledCount = 1
    MaxFaults = 2
    Events <- MCEvents
    EventTypes <- MCEventTypes
    Endpoints = {hook}
    Senders = {s1}
    StatusCodes = {0, 200}
    MaxJobStalls = 1
    MaxSenderFaults = 0
    MaxEdits = 0
INVARIANTS
    EndpointsHearTheTruth
PROPERTIES
    OutcomeReachesEndpoints
    JobEnds
CHECK_DEADLOCK FALSE
