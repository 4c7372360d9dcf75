SPECIFICATION SearchSpec
CONSTANTS
    OrgId = org_acme
    DocId = doc_payments
    BranchId = br_payments_main
    OrgSlug = acme
    DocSlug = payments
    BranchSlug = main
    Operations = {o1, o2}
    Queries = {{o1}, {o1, o2}}
    Tokens = {"none", acme}
    SearchCalls = {call1}
    MaxReady = 2
INVARIANTS
    SearchFindsOperations
CHECK_DEADLOCK FALSE
