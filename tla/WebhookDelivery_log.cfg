SPECIFICATION FairHookSpec
CONSTANTS
    version = version
    s1 = s1
    s2 = s2
    hook = hook
    Events <- MCEvents
    EventTypes <- MCEventTypes
    Endpoints = {hook}
    Senders = {s1, s2}
    StatusCodes = {0, 200, 404}
    MaxJobStalls = 1
    MaxSenderFaults = 1
    MaxEdits = 1
INVARIANTS
    DeliveryLogIsTrue
PROPERTIES
    DeliveryKeepsContract
    DeliveriesClose
CHECK_DEADLOCK FALSE
