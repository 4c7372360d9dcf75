SPECIFICATION Spec
CONSTANTS
    d1 = d1
    w1 = w1
    good = good
    better = better
    bad = bad
    NoDeploy = NoDeploy
    Deploys = {d1}
    Specs = {good, better, bad}
    BadSpecs = {bad}
    BareSpecs = {}
    Workers = {w1}
    MaxAttempts = 3
    MaxStalledCount = 1
    MaxFaults = 1
INVARIANTS
    RetriesAreSafe
CHECK_DEADLOCK FALSE
