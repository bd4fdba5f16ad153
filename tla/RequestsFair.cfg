SPECIFICATION FairSpec
CONSTANTS
    r1 = r1
    r2 = r2
    r3 = r3
    t1 = t1
    t2 = t2
    d1 = d1
    d2 = d2
    d3 = d3
    b1 = b1
    b2 = b2
    Requests = {r1, r2, r3}
    NoRequest = NoRequest
    NoResult = 0
    RequestKeys <- KeysOfOperations
    Tabs = {t1, t2}
    NoTab = NoTab
    MaxOperations = 2
    MaxFaults = 2
    Deliveries = {d1, d2, d3}
    NoDelivery = NoDelivery
    Bodies = {b1, b2}
    NoBody = NoBody
    MaxDeliveries = 4
INVARIANTS OutcomeKnown OperationNotForgotten AppliedBeforeProcessed OneHandlerPerLease
PROPERTIES OperationsSettle
CHECK_DEADLOCK FALSE
